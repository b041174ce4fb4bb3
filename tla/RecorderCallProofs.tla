-------------------------- MODULE RecorderCallProofs --------------------------
(***************************************************************************)
(* More proofs about Recorder, for every build, every call that can be     *)
(* made and all sizes of the buffers: what the hooks log is right.  Their  *)
(* loops are folds; the first lemmas turn a fold into a walk, and a walk   *)
(* keeps an invariant.                                                     *)
(***************************************************************************)
EXTENDS RecorderProofs, FiniteSetTheorems

\* What holds at 0 and is handed on from each number to the next holds up to the last.
LEMMA NatUp ==
    ASSUME NEW N \in Nat, NEW B, 0 \in B, \A k \in 1 .. N : k - 1 \in B => k \in B
    PROVE  \A k \in 0 .. N : k \in B
  <1> DEFINE T == {k \in 0 .. N : k \notin B}
  <1> SUFFICES ASSUME T # {} PROVE FALSE
    OBVIOUS
  <1>1. T \subseteq Nat
    OBVIOUS
  <1>2. PICK m \in T : \A n \in T : m <= n
    <2> HIDE DEF T
    <2> QED  BY <1>1, LeastNumber
  <1>3. m \in 1 .. N
    BY <1>2
  <1>4. m - 1 \in 0 .. N /\ ~(m <= m - 1)
    BY <1>3
  <1>5. m - 1 \in B
    BY <1>2, <1>4
  <1> QED  BY <1>2, <1>3, <1>5

\* A step of a fold over V, and where it starts.
IsStep(g, N, V, base) == base \in V /\ g \in [V \X (1 .. N) -> V]

\* A fold over 1 .. N takes the greatest number left, and is a function of the sets it is taken over.
IsFold(h, N, base, g) ==
    /\ h[{}] = base
    /\ \A s \in SUBSET (1 .. N) : s # {} => h[s] = g[<<h[s \ {Max(s)}], Max(s)>>]

LEMMA FoldExists ==
    ASSUME NEW N \in Nat, NEW V, NEW base, NEW g, IsStep(g, N, V, base)
    PROVE  \E h \in [SUBSET (1 .. N) -> V] : IsFold(h, N, base, g)
  <1>. base \in V /\ g \in [V \X (1 .. N) -> V]
    BY DEF IsStep
  <1> DEFINE B == {k \in 0 .. N : \E h \in [SUBSET (1 .. k) -> V] : IsFold(h, k, base, g)}
  <1>1. 0 \in B
    <2> DEFINE h == [s \in SUBSET (1 .. 0) |-> base]
    <2>1. 1 .. 0 = {}
      OBVIOUS
    <2>2. h \in [SUBSET (1 .. 0) -> V] /\ IsFold(h, 0, base, g)
      BY <2>1 DEF IsFold
    <2> QED  BY <2>2
  <1>2. ASSUME NEW k \in 1 .. N, k - 1 \in B PROVE k \in B
    <2>1. PICK h \in [SUBSET (1 .. k - 1) -> V] : IsFold(h, k - 1, base, g)
      BY <1>2
    <2> DEFINE f == [s \in SUBSET (1 .. k) |-> IF k \in s THEN g[<<h[s \ {k}], k>>] ELSE h[s]]
    <2>2. ASSUME NEW s \in SUBSET (1 .. k), k \notin s PROVE s \in SUBSET (1 .. k - 1)
      <3>1. ASSUME NEW x \in s PROVE x \in 1 .. k - 1
        <4>1. x \in 1 .. k /\ x # k
          BY <2>2
        <4> QED  BY <4>1
      <3> QED  BY <3>1
    <2>3. f \in [SUBSET (1 .. k) -> V]
      <3>1. ASSUME NEW s \in SUBSET (1 .. k), k \in s PROVE g[<<h[s \ {k}], k>>] \in V
        <4>1. s \ {k} \in SUBSET (1 .. k - 1)
          BY <2>2
        <4> QED  BY <4>1
      <3>2. ASSUME NEW s \in SUBSET (1 .. k), k \notin s PROVE h[s] \in V
        BY <2>2, <3>2
      <3> QED  BY <3>1, <3>2
    <2>4. f[{}] = base
      BY <2>1 DEF IsFold
    <2>5. ASSUME NEW s \in SUBSET (1 .. k), s # {}
          PROVE  f[s] = g[<<f[s \ {Max(s)}], Max(s)>>]
      <3>1. Max(s) \in s /\ \A n \in s : n <= Max(s)
        <4>1. s \subseteq 0 .. N
          OBVIOUS
        <4> QED  BY <2>5, <4>1, MaxIs
      <3>2. CASE k \in s
        <4>1. k <= Max(s)
          BY <3>1, <3>2
        <4>2. Max(s) \in 1 .. k
          BY <3>1
        <4>2a. Max(s) = k
          BY <4>1, <4>2
        <4>3. f[s \ {k}] = h[s \ {k}]
          OBVIOUS
        <4> QED  BY <3>2, <4>2a, <4>3 DEF f
      <3>3. CASE k \notin s
        <4>1. s \in SUBSET (1 .. k - 1)
          BY <2>2, <3>3
        <4>2. h[s] = g[<<h[s \ {Max(s)}], Max(s)>>]
          BY <2>1, <2>5, <4>1 DEF IsFold
        <4>3. f[s] = h[s] /\ f[s \ {Max(s)}] = h[s \ {Max(s)}]
          BY <3>3
        <4> QED  BY <4>2, <4>3
      <3> QED  BY <3>2, <3>3
    <2> HIDE DEF f
    <2>6. IsFold(f, k, base, g)
      BY <2>4, <2>5 DEF IsFold
    <2> QED  BY <2>3, <2>6
  <1>3. \A k \in 0 .. N : k \in B
    <2> HIDE DEF B
    <2> QED  BY <1>1, <1>2, NatUp
  <1>4. N \in 0 .. N
    OBVIOUS
  <1>5. N \in B
    BY <1>3, <1>4
  <1> QED  BY <1>5

\* The numbers up to k without the greatest.
LEMMA MaxOfRange ==
    ASSUME NEW k \in Nat \ {0}
    PROVE  Max(1 .. k) = k /\ (1 .. k) \ {k} = 1 .. k - 1 /\ 1 .. k # {}
  <1>1. 1 .. k \subseteq 0 .. k /\ 1 .. k # {}
    OBVIOUS
  <1>2. Max(1 .. k) \in 1 .. k /\ \A n \in 1 .. k : n <= Max(1 .. k)
    BY <1>1, MaxIs
  <1>3. k <= Max(1 .. k)
    BY <1>2
  <1> QED  BY <1>1, <1>2, <1>3

\* Along 1 .. 0, 1 .. 1, ... a fold is a walk of N steps from base.
IsWalk(v, N, V, base, g) ==
    v \in [0 .. N -> V] /\ v[0] = base /\ \A k \in 1 .. N : v[k] = g[<<v[k - 1], k>>]

\* The fold is unrolled as long as its values are in V.
Unrolls(it, N, V, base, g) ==
    /\ it[{}] = base
    /\ \A s \in SUBSET (1 .. N) :
          s # {} /\ it[s \ {Max(s)}] \in V => it[s] = g[<<it[s \ {Max(s)}], Max(s)>>]

LEMMA FoldSteps ==
    ASSUME NEW N \in Nat, NEW V, NEW base, NEW g, NEW it, IsStep(g, N, V, base),
           Unrolls(it, N, V, base, g)
    PROVE  \E v : IsWalk(v, N, V, base, g) /\ v[N] = it[1 .. N]
  <1>. base \in V /\ g \in [V \X (1 .. N) -> V]
    BY DEF IsStep
  <1> DEFINE v == [k \in 0 .. N |-> it[1 .. k]]
             B == {k \in 0 .. N : v[k] \in V}
  <1>1. v[0] = base
    <2>1. 1 .. 0 = {} /\ 0 \in 0 .. N
      OBVIOUS
    <2> QED  BY <2>1 DEF Unrolls
  <1>2. ASSUME NEW k \in 1 .. N, v[k - 1] \in V PROVE v[k] = g[<<v[k - 1], k>>] /\ v[k] \in V
    <2>1. Max(1 .. k) = k /\ (1 .. k) \ {k} = 1 .. k - 1 /\ 1 .. k # {}
      <3>1. k \in Nat \ {0}
        OBVIOUS
      <3> QED  BY <3>1, MaxOfRange
    <2>2. 1 .. k \in SUBSET (1 .. N) /\ k \in 0 .. N /\ k - 1 \in 0 .. N
      OBVIOUS
    <2>3. v[k] = it[1 .. k] /\ v[k - 1] = it[1 .. k - 1]
      BY <2>2
    <2> HIDE DEF v
    <2>4. it[1 .. k] = g[<<it[1 .. k - 1], k>>]
      BY <1>2, <2>1, <2>2, <2>3 DEF Unrolls
    <2> QED  BY <1>2, <2>3, <2>4
  <1>3. \A k \in 0 .. N : k \in B
    <2>1. 0 \in B
      BY <1>1
    <2>2. ASSUME NEW k \in 1 .. N, k - 1 \in B PROVE k \in B
      <3>1. k \in 0 .. N /\ v[k - 1] \in V
        BY <2>2
      <3> QED  BY <1>2, <3>1
    <2> HIDE DEF B
    <2> QED  BY <2>1, <2>2, NatUp
  <1>4. ASSUME NEW k \in 1 .. N PROVE v[k] = g[<<v[k - 1], k>>]
    <2>1. k - 1 \in 0 .. N
      OBVIOUS
    <2>2. v[k - 1] \in V
      BY <1>3, <2>1
    <2> QED  BY <1>2, <2>2
  <1>5. v \in [0 .. N -> V] /\ v[N] = it[1 .. N]
    BY <1>3
  <1> HIDE DEF v
  <1> QED  BY <1>1, <1>4, <1>5 DEF IsWalk

-----------------------------------------------------------------------------
\* Chars counts a path's components one by one.
CharsFold(it, path) ==
    it = [s \in SUBSET DOMAIN path |->
            IF s = {} THEN 0 ELSE it[s \ {Max(s)}] + 1 + path[Max(s)].len]

LEMMA CharsSteps ==
    ASSUME NEW path, NEW N \in Nat, DOMAIN path = 1 .. N, \A i \in 1 .. N : path[i].len \in Nat
    PROVE  \E v \in [0 .. N -> Nat] :
              /\ v[0] = 0 /\ v[N] = Chars(path)
              /\ \A k \in 1 .. N : v[k] = v[k - 1] + 1 + path[k].len
  <1> DEFINE g == [x \in Nat \X (1 .. N) |-> x[1] + 1 + path[x[2]].len]
  <1>1. IsStep(g, N, Nat, 0)
    BY DEF IsStep
  <1>2. \A n \in Nat, k \in 1 .. N : g[<<n, k>>] = n + 1 + path[k].len
    OBVIOUS
  <1> HIDE DEF g
  <1>3. ASSUME NEW s \in SUBSET (1 .. N), s # {} PROVE Max(s) \in 1 .. N
    <2>1. s \subseteq 0 .. N
      OBVIOUS
    <2> QED  BY <1>3, <2>1, MaxIs
  <1>4. PICK h \in [SUBSET (1 .. N) -> Nat] : IsFold(h, N, 0, g)
    BY <1>1, FoldExists
  <1>5. CharsFold(h, path)
    <2>1. ASSUME NEW s \in SUBSET (1 .. N), s # {}
          PROVE  h[s] = h[s \ {Max(s)}] + 1 + path[Max(s)].len
      <3>1. h[s \ {Max(s)}] \in Nat
        OBVIOUS
      <3>2. h[s] = g[<<h[s \ {Max(s)}], Max(s)>>]
        BY <1>4, <2>1 DEF IsFold
      <3> QED  BY <1>2, <1>3, <2>1, <3>1, <3>2
    <2>2. h[{}] = 0
      BY <1>4 DEF IsFold
    <2> QED  BY <1>4, <2>1, <2>2 DEF CharsFold
  <1>6. PICK it : it = CHOOSE i0 : CharsFold(i0, path)
    OBVIOUS
  <1>7. CharsFold(it, path)
    BY <1>5, <1>6
  <1>8. Chars(path) = it[1 .. N]
    BY <1>6 DEF Chars, FoldLeft, MapThenFoldSet, CharsFold
  <1>9. it[{}] = 0
    BY <1>7 DEF CharsFold
  <1>10. ASSUME NEW s \in SUBSET (1 .. N), s # {}, it[s \ {Max(s)}] \in Nat
         PROVE  it[s] = g[<<it[s \ {Max(s)}], Max(s)>>]
    <2>1. it[s] = it[s \ {Max(s)}] + 1 + path[Max(s)].len
      BY <1>7, <1>10 DEF CharsFold
    <2> QED  BY <1>2, <1>3, <1>10, <2>1
  <1>11. PICK v : IsWalk(v, N, Nat, 0, g) /\ v[N] = it[1 .. N]
    <2>1. Unrolls(it, N, Nat, 0, g)
      BY <1>9, <1>10 DEF Unrolls
    <2> QED  BY <1>1, <2>1, FoldSteps
  <1>12. ASSUME NEW k \in 1 .. N PROVE v[k] = v[k - 1] + 1 + path[k].len
    <2>1. v[k - 1] \in Nat
      <3>1. k - 1 \in 0 .. N
        OBVIOUS
      <3> QED  BY <1>11, <3>1 DEF IsWalk
    <2>2. v[k] = g[<<v[k - 1], k>>]
      BY <1>11 DEF IsWalk
    <2> QED  BY <1>2, <2>1, <2>2
  <1> QED  BY <1>8, <1>11, <1>12 DEF IsWalk

\* A path of two components and more is as long as its first and its last.
LEMMA CharsAtLeast ==
    ASSUME NEW path, NEW N \in Nat \ {0}, DOMAIN path = 1 .. N, \A i \in 1 .. N : path[i].len \in Nat
    PROVE  /\ Chars(path) \in Nat /\ Chars(path) >= 1 + path[1].len
           /\ N > 1 => Chars(path) >= 2 + path[1].len + path[N].len
  <1>1. PICK v \in [0 .. N -> Nat] :
            /\ v[0] = 0 /\ v[N] = Chars(path)
            /\ \A k \in 1 .. N : v[k] = v[k - 1] + 1 + path[k].len
    <2>1. N \in Nat
      OBVIOUS
    <2> QED  BY <2>1, CharsSteps
  <1> DEFINE a == path[1].len
             B == {k \in 0 .. N : k > 0 => v[k] >= 1 + a}
  <1>2. a \in Nat
    OBVIOUS
  <1> HIDE DEF a
  <1>3. v[1] = 1 + a
    <2>1. v[1] = v[0] + 1 + path[1].len
      <3>1. 1 \in 1 .. N /\ 1 - 1 = 0
        OBVIOUS
      <3> QED  BY <1>1, <3>1
    <2> QED  BY <1>1, <1>2, <2>1 DEF a
  <1>4. ASSUME NEW k \in 1 .. N, k - 1 \in B PROVE k \in B
    <2>1. CASE k = 1
      BY <1>2, <1>3, <2>1
    <2>2. CASE k # 1
      <3>1. v[k - 1] >= 1 + a /\ v[k - 1] \in Nat /\ v[k] \in Nat
        BY <1>4, <2>2
      <3>2. v[k] = v[k - 1] + 1 + path[k].len /\ path[k].len \in Nat
        BY <1>1
      <3>3. PICK x \in Nat, y \in Nat, z \in Nat : x = v[k - 1] /\ y = v[k] /\ z = path[k].len
        BY <3>1, <3>2
      <3>4. y >= 1 + a
        BY <1>2, <3>1, <3>2, <3>3, SMTT(30)
      <3> QED  BY <3>3, <3>4
    <2> QED  BY <2>1, <2>2
  <1>5. \A k \in 0 .. N : k \in B
    <2>1. 0 \in B /\ N \in Nat
      OBVIOUS
    <2> HIDE DEF B
    <2> QED  BY <1>4, <2>1, NatUp
  <1>6. v[N] >= 1 + a /\ v[N] \in Nat
    <2>1. N \in 0 .. N /\ N > 0
      OBVIOUS
    <2> QED  BY <1>5, <2>1
  <1>7. ASSUME N > 1 PROVE v[N] >= 2 + a + path[N].len
    <2>1. N - 1 \in 0 .. N /\ N - 1 > 0 /\ N \in 1 .. N
      BY <1>7
    <2>2. v[N - 1] >= 1 + a /\ v[N - 1] \in Nat /\ path[N].len \in Nat
      BY <1>5, <2>1
    <2>3. v[N] = v[N - 1] + 1 + path[N].len
      BY <1>1, <2>1
    <2>4. PICK x \in Nat, y \in Nat, z \in Nat : x = v[N - 1] /\ y = v[N] /\ z = path[N].len
      BY <1>6, <2>2
    <2>5. y >= 2 + a + z
      BY <1>2, <2>2, <2>3, <2>4
    <2> QED  BY <2>4, <2>5
  <1> QED  BY <1>1, <1>6, <1>7 DEF a

\* The characters in front of a level.
LEMMA CharsInFront ==
    ASSUME NEW S, NEW path \in Seq(S), NEW N \in Nat \ {0}, N = Len(path),
           \A i \in 1 .. N : path[i].len \in Nat \ {0}, NEW i \in 2 .. N
    PROVE  Chars(SubSeq(path, 1, i - 1)) >= 4 <=> i > 2 \/ path[1].len >= 3
  <1>1. PICK u : u = SubSeq(path, 1, i - 1)
    OBVIOUS
  <1>2. PICK m \in Nat \ {0} : m = i - 1 /\ m <= N
    <2>1. i - 1 \in Nat \ {0} /\ i - 1 <= N
      OBVIOUS
    <2> QED  BY <2>1
  <1>3. /\ u \in Seq(S) /\ Len(u) = m
        /\ \A j \in 1 .. m : u[j] = path[j]
    <2>1. \A j \in 1 .. m : path[j] \in S
      BY <1>2, ElementOfSeq
    <2>2. 1 \in Int /\ m \in Int /\ (m - 1) + 1 = m /\ 1 <= m
      BY <1>2
    <2>3. u = SubSeq(path, 1, m)
      BY <1>1, <1>2
    <2> HIDE <1>2
    <2>4. /\ u \in Seq(S) /\ Len(u) = (m - 1) + 1
          /\ \A j \in 1 .. (m - 1) + 1 : u[j] = path[(1 + j) - 1]
      BY <2>1, <2>2, <2>3, SubSeqProperties
    <2>5. \A j \in 1 .. m : (1 + j) - 1 = j
      OBVIOUS
    <2> QED  BY <2>2, <2>4, <2>5
  <1>4. DOMAIN u = 1 .. m
    BY <1>3, LenProperties
  <1>5. u[1] = path[1] /\ \A j \in 1 .. m : u[j].len \in Nat \ {0}
    BY <1>2, <1>3
  <1>6. /\ Chars(u) \in Nat /\ Chars(u) >= 1 + u[1].len
        /\ m > 1 => Chars(u) >= 2 + u[1].len + u[m].len
    BY <1>4, <1>5, CharsAtLeast
  <1>7. PICK a \in Nat \ {0}, b \in Nat \ {0}, x \in Nat : a = u[1].len /\ b = u[m].len /\ x = Chars(u)
    <2>1. 1 \in 1 .. m /\ m \in 1 .. m
      OBVIOUS
    <2> QED  BY <1>5, <1>6, <2>1
  <1>8. CASE m > 1
    <2>0. a \in Nat \ {0} /\ b \in Nat \ {0} /\ x \in Nat
      OBVIOUS
    <2>1. x >= 4
      <3>1. Chars(u) >= 2 + u[1].len + u[m].len
        BY <1>6, <1>8
      <3>2. x >= 2 + a + b
        BY <1>7, <3>1
      <3> QED  BY <2>0, <3>2
    <2> QED  BY <1>1, <1>2, <1>7, <1>8, <2>1
  <1>9. CASE m = 1
    <2>1. PICK v \in [0 .. m -> Nat] :
              /\ v[0] = 0 /\ v[m] = Chars(u)
              /\ \A k \in 1 .. m : v[k] = v[k - 1] + 1 + u[k].len
      BY <1>4, <1>5, CharsSteps
    <2>2. 1 \in 1 .. m /\ 1 - 1 = 0
      BY <1>9
    <2>3. v[1] = v[0] + 1 + u[1].len
      BY <2>1, <2>2
    <2>4. x = 1 + a
      BY <1>7, <1>9, <2>1, <2>3
    <2>5. x >= 4 <=> a >= 3
      BY <2>4
    <2>6. ~(i > 2)
      BY <1>2, <1>9
    <2> QED  BY <1>1, <1>5, <1>7, <2>5, <2>6
  <1> QED  BY <1>8, <1>9

\* Under a first folder of three letters every component is a level; a shorter one is none.
LEMMA ScanDepthIs ==
    ASSUME NEW S, NEW path \in Seq(S), path # <<>>, \A i \in 1 .. Len(path) : path[i].len \in Nat \ {0}
    PROVE  ScanDepth(path) = IF path[1].len >= 3 \/ Len(path) = 1 THEN Len(path) ELSE Len(path) - 1
  <1>1. PICK N \in Nat : N = Len(path) /\ DOMAIN path = 1 .. N /\ N # 0
    BY LenProperties, EmptySeq
  <1>2. ASSUME NEW i \in 2 .. N PROVE Chars(SubSeq(path, 1, i - 1)) >= 4 <=> i > 2 \/ path[1].len >= 3
    <2>1. N \in Nat \ {0}
      BY <1>1
    <2> QED  BY <1>1, <2>1, CharsInFront
  <1>3. \A a, b \in Nat : Cardinality(a .. b) = IF a > b THEN 0 ELSE b - a + 1
    BY FS_Interval
  <1>5. ScanDepth(path) = 1 + Cardinality({i \in 2 .. N : Chars(SubSeq(path, 1, i - 1)) >= 4})
    BY <1>1 DEF ScanDepth
  <1>6. CASE path[1].len >= 3
    <2>1. {i \in 2 .. N : Chars(SubSeq(path, 1, i - 1)) >= 4} = 2 .. N
      BY <1>2, <1>6
    <2>2. Cardinality(2 .. N) = IF 2 > N THEN 0 ELSE N - 2 + 1
      <3>1. 2 \in Nat /\ N \in Nat
        OBVIOUS
      <3> QED  BY <1>3, <3>1
    <2>3. ScanDepth(path) = 1 + (IF 2 > N THEN 0 ELSE N - 2 + 1)
      BY <1>5, <2>1, <2>2
    <2>4. 1 + (IF 2 > N THEN 0 ELSE N - 2 + 1) = N
      BY <1>1
    <2>5. ScanDepth(path) = Len(path)
      BY <1>1, <2>3, <2>4
    <2> QED  BY <1>6, <2>5
  <1>7. CASE ~(path[1].len >= 3)
    <2>1. \A i \in 2 .. N : i > 2 <=> i \in 3 .. N
      OBVIOUS
    <2>2. {i \in 2 .. N : Chars(SubSeq(path, 1, i - 1)) >= 4} = 3 .. N
      BY <1>2, <1>7, <2>1
    <2>3. Cardinality(3 .. N) = IF 3 > N THEN 0 ELSE N - 3 + 1
      <3>1. 3 \in Nat /\ N \in Nat
        OBVIOUS
      <3> QED  BY <1>3, <3>1
    <2>4. ScanDepth(path) = 1 + (IF 3 > N THEN 0 ELSE N - 3 + 1)
      BY <1>5, <2>2, <2>3
    <2>5. 1 + (IF 3 > N THEN 0 ELSE N - 3 + 1) = IF N = 1 THEN N ELSE N - 1
      BY <1>1
    <2>6. ScanDepth(path) = IF Len(path) = 1 THEN Len(path) ELSE Len(path) - 1
      BY <1>1, <2>4, <2>5
    <2> QED  BY <1>7, <2>6
  <1> QED  BY <1>6, <1>7

\* A sequence of two.
LEMMA Pair ==
    ASSUME NEW a, NEW b, NEW h, h = <<a, b>>, NEW S, a \in S, b \in S
    PROVE  h[1] = a /\ h[2] = b /\ Len(h) = 2 /\ h \in Seq(S)
  OBVIOUS

\* The two levels below a workspace's directory.
LEMMA HeadIs == \E a, b : GitHead = <<a, b>> /\ a.len = 4 /\ b.len = 4
  <1>1. PICK a : a = [name |-> ".git", len |-> 4, ext |-> ".git", dot |-> 4, stem |-> ""]
    OBVIOUS
  <1>2. PICK b : b = [name |-> "HEAD", len |-> 4, ext |-> "", dot |-> 0, stem |-> ""]
    OBVIOUS
  <1>3. GitHead = <<a, b>>
    BY <1>1, <1>2 DEF GitHead
  <1>4. a.len = 4 /\ b.len = 4
    BY <1>1, <1>2
  <1> QED  BY <1>3, <1>4

\* A workspace's own depth is that of its directory.
LEMMA WsDepthIs ==
    ASSUME NEW ws, IsWs(ws), ws # <<>>
    PROVE  WsDepth(ws) = IF ws[1].len >= 3 THEN Len(ws) ELSE Len(ws) - 1
  <1> PICK h : h = GitHead
    OBVIOUS
  <1>0. PICK a, b : h = <<a, b>> /\ a.len = 4 /\ b.len = 4
    BY HeadIs
  <1> DEFINE R == Range(ws) \cup {a, b}
  <1>1. /\ Len(h) = 2 /\ h \in Seq(R) /\ h[1].len = 4 /\ h[2].len = 4
    <2>1. a \in R /\ b \in R
      OBVIOUS
    <2> HIDE DEF R
    <2>2. h[1] = a /\ h[2] = b /\ Len(h) = 2 /\ h \in Seq(R)
      BY <1>0, <2>1, Pair
    <2>3. h[1].len = 4 /\ h[2].len = 4
      BY <1>0, <2>2, Zenon
    <2> QED  BY <2>2, <2>3, Zenon
  <1>2. PICK n \in Nat \ {0} : n = Len(ws) /\ DOMAIN ws = 1 .. n
    <2>1. ws \in Seq(Range(ws))
      BY DEF IsWs
    <2> QED  BY <2>1, LenProperties, EmptySeq
  <1>3. ws \in Seq(R) /\ \A i \in 1 .. n : ws[i].len \in Nat \ {0}
    <2>1. ws \in Seq(Range(ws)) /\ \A c \in Range(ws) : c.len \in Nat \ {0}
      BY DEF IsWs
    <2>2. \A i \in 1 .. n : ws[i] \in Range(ws)
      BY <1>2 DEF Range
    <2> QED  BY <1>2, <2>1, <2>2
  <1> HIDE DEF R
  <1> PICK p : p = ws \o h
    OBVIOUS
  <1>4. /\ p \in Seq(R) /\ Len(p) = n + 2
        /\ \A i \in 1 .. n + 2 : p[i] = IF i <= n THEN ws[i] ELSE h[i - n]
    <2>1. /\ ws \o h \in Seq(R) /\ Len(ws \o h) = Len(ws) + Len(h)
          /\ \A i \in 1 .. Len(ws) + Len(h) : (ws \o h)[i] = IF i <= Len(ws) THEN ws[i] ELSE h[i - Len(ws)]
      <3>1. h \in Seq(R) /\ ws \in Seq(R)
        BY <1>1, <1>3
      <3> QED  BY <3>1, ConcatProperties
    <2>2. Len(ws) = n /\ Len(h) = 2 /\ p = ws \o h
      BY <1>1, <1>2
    <2> QED  BY <2>1, <2>2
  <1>5. p # <<>> /\ p[1] = ws[1]
    <2>1. 1 \in 1 .. n + 2 /\ 1 <= n
      BY <1>2
    <2> QED  BY <1>4, <2>1, EmptySeq
  <1>6. ASSUME NEW i \in 1 .. n + 2 PROVE p[i].len \in Nat \ {0}
    <2>1. CASE i <= n
      BY <1>3, <1>4, <2>1
    <2>2. CASE i > n
      <3>1. i - n \in {1, 2}
        BY <1>2, <2>2
      <3>2. p[i] = h[i - n] /\ h[i - n].len = 4
        BY <1>1, <1>4, <2>2, <3>1
      <3> QED  BY <3>2
    <2>3. i <= n \/ i > n
      BY <1>2
    <2> QED  BY <2>1, <2>2, <2>3
  <1>7. ScanDepth(p) = IF p[1].len >= 3 \/ Len(p) = 1 THEN Len(p) ELSE Len(p) - 1
    BY <1>4, <1>5, <1>6, ScanDepthIs
  <1> QED  BY <1>2, <1>4, <1>5, <1>7 DEF WsDepth


-----------------------------------------------------------------------------
\* The dentry walk of a removal.

\* What a walk over n levels with names in S can be at.
WalkSet(n, S) == [i : 0 .. n, onPoint : BOOLEAN, atRoot : BOOLEAN, depth : Nat, top : Seq(S)]

\* A place of n levels with names in S.
PlaceOf(place, n, S) ==
    /\ IsPlace(place) /\ n \in Nat \ {0} /\ DOMAIN place.comps = 1 .. n /\ Len(place.comps) = n
    /\ \A i \in 1 .. n : place.comps[i].name \in S

\* A name is put before the last three.
Pushed(x, t) == SubSeq(<<x>> \o t, 1, Min({Len(t) + 1, 3}))

LEMMA PushedIs ==
    ASSUME NEW S, NEW x \in S, NEW t \in Seq(S)
    PROVE  /\ Pushed(x, t) \in Seq(S)
           /\ Len(Pushed(x, t)) = IF Len(t) + 1 <= 3 THEN Len(t) + 1 ELSE 3
           /\ \A j \in 1 .. Len(Pushed(x, t)) : Pushed(x, t)[j] = IF j = 1 THEN x ELSE t[j - 1]
  <1>1. PICK m \in Nat : m = Len(t)
    BY LenProperties
  <1>2. PICK l \in Nat : l = Min({m + 1, 3}) /\ l = IF m + 1 <= 3 THEN m + 1 ELSE 3
    <2>1. m + 1 \in Nat /\ 3 \in Nat
      OBVIOUS
    <2> QED  BY <2>1, MinTwo
  <1>3. PICK u : u = <<x>> \o t
    OBVIOUS
  <1>4. <<x>> \in Seq(S) /\ Len(<<x>>) = 1 /\ <<x>>[1] = x
    OBVIOUS
  <1>5. u \in Seq(S) /\ Len(u) = 1 + m /\ \A j \in 1 .. 1 + m : u[j] = IF j <= 1 THEN x ELSE t[j - 1]
    <2>1. PICK o : o = <<x>>
      OBVIOUS
    <2>2. /\ o \o t \in Seq(S) /\ Len(o \o t) = Len(o) + Len(t)
          /\ \A j \in 1 .. Len(o) + Len(t) : (o \o t)[j] = IF j <= Len(o) THEN o[j] ELSE t[j - Len(o)]
      BY <1>4, <2>1, ConcatProperties
    <2>3. \A j \in 1 .. 1 + m : j <= 1 => j = 1
      OBVIOUS
    <2> QED  BY <1>1, <1>3, <1>4, <2>1, <2>2, <2>3
  <1>6. l >= 1 /\ l <= 1 + m
    BY <1>2
  <1>7. PICK p : p = SubSeq(u, 1, l)
    OBVIOUS
  <1>8. p \in Seq(S) /\ Len(p) = l /\ \A j \in 1 .. l : p[j] = u[j]
    <2>1. \A j \in 1 .. l : u[j] \in S
      BY <1>5, <1>6, ElementOfSeq
    <2> HIDE <1>2
    <2>2. /\ p \in Seq(S) /\ Len(p) = IF 1 <= l THEN (l - 1) + 1 ELSE 0
          /\ \A j \in 1 .. (l - 1) + 1 : p[j] = u[(1 + j) - 1]
      BY <1>7, <2>1, SubSeqProperties
    <2>3. (l - 1) + 1 = l /\ \A j \in 1 .. l : (1 + j) - 1 = j
      OBVIOUS
    <2> QED  BY <1>6, <2>2, <2>3
  <1>9. p = Pushed(x, t)
    BY <1>1, <1>2, <1>3, <1>7 DEF Pushed
  <1>10. ASSUME NEW j \in 1 .. l PROVE p[j] = IF j = 1 THEN x ELSE t[j - 1]
    <2>1. j \in 1 .. 1 + m /\ (j <= 1 <=> j = 1)
      BY <1>6
    <2> QED  BY <1>5, <1>8, <2>1
  <1> QED  BY <1>1, <1>2, <1>8, <1>9, <1>10

\* A round of the walk: it ends, it steps down from a mount to where that is mounted, or it counts
\* a level.
RoundEnds(place, w) == w.atRoot \/ (w.i = place.root /\ ~w.onPoint) \/ w.i = 0
RoundMounts(place, w) == w.i \in place.mounts /\ ~w.onPoint

RoundIs(place, w) ==
    /\ RoundEnds(place, w) => WalkRound(place, w) = [w EXCEPT !.atRoot = TRUE]
    /\ ~RoundEnds(place, w) /\ RoundMounts(place, w) =>
          WalkRound(place, w) = [w EXCEPT !.onPoint = TRUE]
    /\ ~RoundEnds(place, w) /\ ~RoundMounts(place, w) =>
          WalkRound(place, w) =
             [w EXCEPT !.i = w.i - 1, !.onPoint = FALSE, !.depth = w.depth + 1,
                       !.top = Pushed(place.comps[w.i].name, w.top)]

LEMMA WalkRoundIs ==
    ASSUME NEW S, NEW n, NEW place, PlaceOf(place, n, S), NEW w \in WalkSet(n, S)
    PROVE  RoundIs(place, w) /\ WalkRound(place, w) \in WalkSet(n, S)
  <1>1. ASSUME RoundEnds(place, w)
        PROVE  WalkRound(place, w) = [w EXCEPT !.atRoot = TRUE]
    BY <1>1 DEF RoundEnds, WalkRound
  <1>2. ASSUME ~RoundEnds(place, w), RoundMounts(place, w)
        PROVE  WalkRound(place, w) = [w EXCEPT !.onPoint = TRUE]
    BY <1>2 DEF RoundEnds, RoundMounts, WalkRound
  <1>3. ASSUME ~RoundEnds(place, w), ~RoundMounts(place, w)
        PROVE  WalkRound(place, w) =
                  [w EXCEPT !.i = w.i - 1, !.onPoint = FALSE, !.depth = w.depth + 1,
                            !.top = Pushed(place.comps[w.i].name, w.top)]
    BY <1>3 DEF RoundEnds, RoundMounts, WalkRound, Pushed
  <1>4. WalkRound(place, w) \in WalkSet(n, S)
    <2>1. CASE RoundEnds(place, w)
      BY <1>1, <2>1 DEF WalkSet
    <2>2. CASE ~RoundEnds(place, w) /\ RoundMounts(place, w)
      BY <1>2, <2>2 DEF WalkSet
    <2>3. CASE ~RoundEnds(place, w) /\ ~RoundMounts(place, w)
      <3>1. w.i \in 1 .. n /\ w.top \in Seq(S) /\ w.depth \in Nat /\ n \in Nat
        BY <2>3 DEF RoundEnds, WalkSet, PlaceOf
      <3>2. place.comps[w.i].name \in S
        BY <3>1 DEF PlaceOf
      <3>3. PICK p : p = Pushed(place.comps[w.i].name, w.top)
        OBVIOUS
      <3>4. p \in Seq(S)
        BY <3>1, <3>2, <3>3, PushedIs
      <3>5. w.i - 1 \in 0 .. n /\ w.depth + 1 \in Nat
        BY <3>1
      <3> QED  BY <1>3, <2>3, <3>3, <3>4, <3>5 DEF WalkSet
    <2> QED  BY <2>1, <2>2, <2>3
  <1>5. RoundIs(place, w)
    BY <1>1, <1>2, <1>3 DEF RoundIs
  <1> QED  BY <1>4, <1>5

WalkStart(n) == [i |-> n, onPoint |-> FALSE, atRoot |-> FALSE, depth |-> 0, top |-> <<>>]

WalkFold(it, place) ==
    it = [s \in SUBSET DOMAIN [k \in 1 .. WALK_MAX |-> k] |->
            IF s = {} THEN [i |-> Len(place.comps), onPoint |-> FALSE, atRoot |-> FALSE,
                            depth |-> 0, top |-> <<>>]
            ELSE WalkRound(place, it[s \ {Max(s)}])]

\* The rounds one after the other, and what DentryDepth makes of the last.
LEMMA WalkSteps ==
    ASSUME NEW S, NEW n, NEW place, PlaceOf(place, n, S)
    PROVE  \E v \in [0 .. WALK_MAX -> WalkSet(n, S)] :
              /\ v[0] = WalkStart(n)
              /\ \A k \in 1 .. WALK_MAX : v[k] = WalkRound(place, v[k - 1])
              /\ DentryDepth(place) = [depth |-> v[WALK_MAX].depth,
                                       top |-> IF v[WALK_MAX].atRoot THEN v[WALK_MAX].top ELSE <<>>]
  <1>0. PICK N \in Nat : N = WALK_MAX
    BY PathSizesAssumption
  <1> DEFINE V == WalkSet(n, S)
             g == [x \in V \X (1 .. N) |-> WalkRound(place, x[1])]
  <1>1. IsStep(g, N, V, WalkStart(n))
    <2>1. WalkStart(n) \in V
      <3>1. n \in 0 .. n /\ <<>> \in Seq(S)
        BY DEF PlaceOf
      <3> QED  BY <3>1 DEF WalkStart, WalkSet
    <2>2. \A w \in V : WalkRound(place, w) \in V
      BY WalkRoundIs
    <2> HIDE DEF V
    <2> QED  BY <2>1, <2>2 DEF IsStep
  <1>2. \A w \in V, k \in 1 .. N : g[<<w, k>>] = WalkRound(place, w)
    OBVIOUS
  <1> HIDE DEF g, V
  <1>3. ASSUME NEW s \in SUBSET (1 .. N), s # {} PROVE Max(s) \in 1 .. N
    <2>1. s \subseteq 0 .. N
      OBVIOUS
    <2> QED  BY <1>3, <2>1, MaxIs
  <1>4. PICK h \in [SUBSET (1 .. N) -> V] : IsFold(h, N, WalkStart(n), g)
    BY <1>1, FoldExists
  <1>d. DOMAIN [k \in 1 .. WALK_MAX |-> k] = 1 .. N
    BY <1>0
  <1>s. WalkStart(n) = [i |-> Len(place.comps), onPoint |-> FALSE, atRoot |-> FALSE,
                        depth |-> 0, top |-> <<>>]
    BY DEF WalkStart, PlaceOf
  <1>5. WalkFold(h, place)
    <2>1. ASSUME NEW s \in SUBSET (1 .. N), s # {}
          PROVE  h[s] = WalkRound(place, h[s \ {Max(s)}])
      <3>1. h[s \ {Max(s)}] \in V
        OBVIOUS
      <3>2. h[s] = g[<<h[s \ {Max(s)}], Max(s)>>]
        BY <1>4, <2>1 DEF IsFold
      <3> QED  BY <1>2, <1>3, <2>1, <3>1, <3>2
    <2>2. h[{}] = WalkStart(n)
      BY <1>4 DEF IsFold
    <2> QED  BY <1>4, <1>d, <1>s, <2>1, <2>2 DEF WalkFold
  <1>6. PICK it : it = CHOOSE i0 : WalkFold(i0, place)
    OBVIOUS
  <1>7. WalkFold(it, place)
    BY <1>5, <1>6
  <1>8. DentryDepth(place) = [depth |-> it[1 .. N].depth,
                              top |-> IF it[1 .. N].atRoot THEN it[1 .. N].top ELSE <<>>]
    <2>1. DentryDepth(place) = [depth |-> it[DOMAIN [k \in 1 .. WALK_MAX |-> k]].depth,
                                top |-> IF it[DOMAIN [k \in 1 .. WALK_MAX |-> k]].atRoot
                                        THEN it[DOMAIN [k \in 1 .. WALK_MAX |-> k]].top ELSE <<>>]
      BY <1>6 DEF DentryDepth, FoldLeft, MapThenFoldSet, WalkFold
    <2> QED  BY <1>d, <2>1
  <1>9. it[{}] = WalkStart(n)
    BY <1>7, <1>s DEF WalkFold
  <1>10. ASSUME NEW s \in SUBSET (1 .. N), s # {}, it[s \ {Max(s)}] \in V
         PROVE  it[s] = g[<<it[s \ {Max(s)}], Max(s)>>]
    <2>1. it[s] = WalkRound(place, it[s \ {Max(s)}])
      BY <1>7, <1>d, <1>10 DEF WalkFold
    <2> QED  BY <1>2, <1>3, <1>10, <2>1
  <1>11. PICK v : IsWalk(v, N, V, WalkStart(n), g) /\ v[N] = it[1 .. N]
    <2>1. Unrolls(it, N, V, WalkStart(n), g)
      BY <1>9, <1>10 DEF Unrolls
    <2> QED  BY <1>1, <2>1, FoldSteps
  <1>12. ASSUME NEW k \in 1 .. N PROVE v[k] = WalkRound(place, v[k - 1])
    <2>1. v[k - 1] \in V
      <3>1. k - 1 \in 0 .. N
        OBVIOUS
      <3> QED  BY <1>11, <3>1 DEF IsWalk
    <2>2. v[k] = g[<<v[k - 1], k>>]
      BY <1>11 DEF IsWalk
    <2> QED  BY <1>2, <2>1, <2>2
  <1>13. v \in [0 .. WALK_MAX -> V] /\ v[0] = WalkStart(n)
    BY <1>0, <1>11 DEF IsWalk
  <1> QED  BY <1>0, <1>8, <1>11, <1>12, <1>13 DEF V

\* The level above a path's first component, and the mounts a walk has stepped down from.
Base(place) == IF place.root = Elsewhere THEN 0 ELSE place.root
Met(place, w) == {m \in place.mounts : m > w.i \/ (m = w.i /\ w.onPoint)}

\* Where a walk is after k rounds.
WalkAt(place, n, k, w) ==
    /\ Base(place) <= w.i
    /\ w.depth = n - w.i
    /\ Len(w.top) = IF n - w.i <= 3 THEN n - w.i ELSE 3
    /\ \A j \in 1 .. Len(w.top) : w.top[j] = place.comps[w.i + j].name
    /\ w.atRoot => w.i = Base(place)
    /\ w.onPoint => w.i \in place.mounts /\ w.i > Base(place)
    /\ ~w.atRoot => k = (n - w.i) + Cardinality(Met(place, w))

LEMMA WalkKept ==
    ASSUME NEW S, NEW n, NEW place, PlaceOf(place, n, S), NEW w \in WalkSet(n, S),
           NEW k \in Nat \ {0}, WalkAt(place, n, k - 1, w)
    PROVE  WalkAt(place, n, k, WalkRound(place, w))
  <1>0. RoundIs(place, w)
    BY WalkRoundIs
  <1>1. PICK u : u = WalkRound(place, w)
    OBVIOUS
  <1>2. PICK b \in 0 .. n : b = Base(place)
    BY DEF Base, PlaceOf, IsPlace
  <1>3. PICK i \in 0 .. n, p \in BOOLEAN, r \in BOOLEAN, d \in Nat, t \in Seq(S) :
            w = [i |-> i, onPoint |-> p, atRoot |-> r, depth |-> d, top |-> t]
    BY DEF WalkSet
  <1>4. n \in Nat \ {0} /\ place.mounts \subseteq 1 .. n
    BY DEF PlaceOf, IsPlace
  <1>5. /\ b <= i /\ d = n - i
        /\ Len(t) = IF n - i <= 3 THEN n - i ELSE 3
        /\ \A j \in 1 .. Len(t) : t[j] = place.comps[i + j].name
        /\ r => i = b
        /\ p => i \in place.mounts /\ i > b
        /\ ~r => k - 1 = (n - i) + Cardinality(Met(place, w))
    BY <1>2, <1>3 DEF WalkAt
  <1>6. Met(place, w) = {m \in place.mounts : m > i \/ (m = i /\ p)}
    BY <1>3 DEF Met
  <1>7. IsFiniteSet(Met(place, w)) /\ Cardinality(Met(place, w)) \in Nat
    <2>1. IsFiniteSet(1 .. n)
      BY <1>4, FS_Interval
    <2>2. Met(place, w) \in SUBSET (1 .. n)
      BY <1>4, <1>6
    <2> QED  BY <2>1, <2>2, FS_Subset, FS_CardinalityType
  <1>8. CASE RoundEnds(place, w)
    <2>1. u = [i |-> i, onPoint |-> p, atRoot |-> TRUE, depth |-> d, top |-> t]
      <3>1. u = [w EXCEPT !.atRoot = TRUE]
        BY <1>0, <1>1, <1>8 DEF RoundIs
      <3> QED  BY <1>3, <3>1
    <2>2. i = b
      BY <1>2, <1>3, <1>5, <1>8 DEF RoundEnds, Base, PlaceOf, IsPlace, Elsewhere
    <2>3. u.i = i /\ u.onPoint = p /\ u.atRoot = TRUE /\ u.depth = d /\ u.top = t
      BY <2>1
    <2> QED  BY <1>1, <1>2, <1>5, <2>2, <2>3 DEF WalkAt
  <1>9. CASE ~RoundEnds(place, w) /\ RoundMounts(place, w)
    <2>1. u = [i |-> i, onPoint |-> TRUE, atRoot |-> r, depth |-> d, top |-> t]
      <3>1. u = [w EXCEPT !.onPoint = TRUE]
        BY <1>0, <1>1, <1>9 DEF RoundIs
      <3> QED  BY <1>3, <3>1
    <2>2. u.i = i /\ u.onPoint = TRUE /\ u.atRoot = r /\ u.depth = d /\ u.top = t
      BY <2>1
    <2>3. ~r /\ ~p /\ i \in place.mounts
      BY <1>3, <1>9 DEF RoundEnds, RoundMounts
    <2>4. i > b
      <3>1. i # 0 /\ i # place.root
        BY <1>3, <1>9, <2>3 DEF RoundEnds
      <3> QED  BY <1>2, <1>5, <3>1 DEF Base
    <2>5. Met(place, u) = Met(place, w) \cup {i} /\ i \notin Met(place, w)
      <3>1. Met(place, u) = {m \in place.mounts : m > i \/ m = i}
        BY <2>2 DEF Met
      <3> QED  BY <1>4, <1>6, <2>3, <3>1
    <2>6. Cardinality(Met(place, u)) = Cardinality(Met(place, w)) + 1
      BY <1>7, <2>5, FS_AddElement
    <2>7. k = (n - i) + Cardinality(Met(place, u))
      <3>1. PICK c \in Nat : c = Cardinality(Met(place, w))
        BY <1>7
      <3>2. k - 1 = (n - i) + c
        BY <1>5, <2>3, <3>1
      <3> QED  BY <1>4, <2>6, <3>1, <3>2
    <2> QED  BY <1>1, <1>2, <1>5, <2>2, <2>3, <2>4, <2>7 DEF WalkAt
  <1>10. CASE ~RoundEnds(place, w) /\ ~RoundMounts(place, w)
    <2>1. PICK x : x = place.comps[i].name
      OBVIOUS
    <2>2. PICK q : q = Pushed(x, t)
      OBVIOUS
    <2>3. u = [i |-> i - 1, onPoint |-> FALSE, atRoot |-> r, depth |-> d + 1, top |-> q]
      <3>1. u = [w EXCEPT !.i = w.i - 1, !.onPoint = FALSE, !.depth = w.depth + 1,
                          !.top = Pushed(place.comps[w.i].name, w.top)]
        BY <1>0, <1>1, <1>10 DEF RoundIs
      <3>2. w.i = i /\ w.depth = d /\ w.top = t
        BY <1>3
      <3> QED  BY <1>3, <2>1, <2>2, <3>1, <3>2
    <2>4. u.i = i - 1 /\ u.onPoint = FALSE /\ u.atRoot = r /\ u.depth = d + 1 /\ u.top = q
      BY <2>3
    <2>5. ~r /\ i # 0 /\ (i = place.root => p) /\ (i \in place.mounts => p)
      BY <1>3, <1>10 DEF RoundEnds, RoundMounts
    <2>6. i > b
      <3>1. CASE p
        BY <1>5, <3>1
      <3>2. CASE ~p
        BY <1>2, <1>5, <2>5, <3>2 DEF Base
      <3> QED  BY <3>1, <3>2
    <2>7. x \in S
      BY <2>1, <2>5 DEF PlaceOf
    <2>8. /\ Len(q) = IF Len(t) + 1 <= 3 THEN Len(t) + 1 ELSE 3
          /\ \A j \in 1 .. Len(q) : q[j] = IF j = 1 THEN x ELSE t[j - 1]
      BY <2>2, <2>7, PushedIs
    <2>9. Len(q) = IF n - (i - 1) <= 3 THEN n - (i - 1) ELSE 3
      <3>1. PICK l \in Nat : l = Len(t)
        BY LenProperties
      <3>2. PICK a \in Nat : a = n - i
        BY <1>4
      <3>3. l = IF a <= 3 THEN a ELSE 3
        BY <1>5, <3>1, <3>2
      <3>4. Len(q) = IF l + 1 <= 3 THEN l + 1 ELSE 3
        BY <2>8, <3>1
      <3>5. n - (i - 1) = a + 1
        BY <1>4, <3>2
      <3> QED  BY <3>3, <3>4, <3>5
    <2>10. ASSUME NEW j \in 1 .. Len(q) PROVE q[j] = place.comps[(i - 1) + j].name
      <3>1. PICK l \in Nat : l = Len(t) /\ Len(q) <= l + 1
        <4>1. PICK l \in Nat : l = Len(t)
          BY LenProperties
        <4> QED  BY <2>8, <4>1
      <3>2. PICK m \in Nat : m = Len(q)
        <4>1. q \in Seq(S)
          BY <2>2, <2>7, PushedIs
        <4> QED  BY <4>1, LenProperties
      <3>3. j \in Nat /\ 1 <= j /\ j <= l + 1
        BY <3>1, <3>2
      <3>4. CASE j = 1
        <4>1. (i - 1) + j = i
          BY <3>4
        <4> QED  BY <2>1, <2>8, <3>4, <4>1
      <3>5. CASE j # 1
        <4>1. j - 1 \in 1 .. l
          BY <3>3, <3>5
        <4>2. q[j] = t[j - 1]
          BY <2>8, <3>5
        <4>3. t[j - 1] = place.comps[i + (j - 1)].name
          BY <1>5, <3>1, <4>1
        <4>4. i + (j - 1) = (i - 1) + j
          BY <3>3
        <4> QED  BY <4>2, <4>3, <4>4
      <3> QED  BY <3>4, <3>5
    <2>11. Met(place, u) = Met(place, w)
      <3>1. Met(place, u) = {m \in place.mounts : m > i - 1}
        BY <2>4 DEF Met
      <3>2. \A m \in 1 .. n : m > i - 1 <=> m > i \/ m = i
        OBVIOUS
      <3> QED  BY <1>4, <1>6, <2>5, <3>1, <3>2
    <2>12. k = (n - (i - 1)) + Cardinality(Met(place, u))
      <3>1. PICK c \in Nat : c = Cardinality(Met(place, w))
        BY <1>7
      <3>2. k - 1 = (n - i) + c
        BY <1>5, <2>5, <3>1
      <3>3. k = (n - (i - 1)) + c
        BY <1>4, <3>2
      <3> QED  BY <2>11, <3>1, <3>3
    <2>13. b <= i - 1 /\ d + 1 = n - (i - 1)
      BY <1>4, <1>5, <2>6
    <2> QED  BY <1>1, <1>2, <2>4, <2>5, <2>9, <2>10, <2>12, <2>13 DEF WalkAt
  <1> QED  BY <1>8, <1>9, <1>10

\* A walk that gets to the root has counted the path, and knows its first components; it gets
\* there when it has rounds enough.
LEMMA DentryDepthIs ==
    ASSUME NEW S, NEW n, NEW place, PlaceOf(place, n, S)
    PROVE  \E d, t, r :
              /\ DentryDepth(place) = [depth |-> d, top |-> t] /\ r \in BOOLEAN
              /\ t \in Seq(S) /\ (~r => t = <<>>)
              /\ r => /\ d = n - Base(place)
                      /\ Len(t) = IF d <= 3 THEN d ELSE 3
                      /\ \A j \in 1 .. Len(t) : t[j] = place.comps[Base(place) + j].name
              /\ (n - Base(place)) + Cardinality({m \in place.mounts : m > Base(place)}) < WALK_MAX
                    => r
  <1>1. PICK v \in [0 .. WALK_MAX -> WalkSet(n, S)] :
            /\ v[0] = WalkStart(n)
            /\ \A k \in 1 .. WALK_MAX : v[k] = WalkRound(place, v[k - 1])
            /\ DentryDepth(place) = [depth |-> v[WALK_MAX].depth,
                                     top |-> IF v[WALK_MAX].atRoot THEN v[WALK_MAX].top ELSE <<>>]
    BY WalkSteps
  <1>2. PICK N \in Nat : N = WALK_MAX
    BY PathSizesAssumption
  <1>3. n \in Nat \ {0} /\ place.mounts \subseteq 1 .. n
    BY DEF PlaceOf, IsPlace
  <1>4. PICK b \in 0 .. n : b = Base(place)
    BY DEF Base, PlaceOf, IsPlace
  <1>5. WalkAt(place, n, 0, v[0])
    <2>1. /\ v[0].i = n /\ v[0].onPoint = FALSE /\ v[0].atRoot = FALSE /\ v[0].depth = 0
          /\ v[0].top = <<>>
      BY <1>1 DEF WalkStart
    <2>2. Met(place, v[0]) = {}
      BY <1>3, <2>1 DEF Met
    <2>3. Cardinality({}) = 0
      BY FS_EmptySet
    <2>4. Len(<<>>) = 0 /\ n - n = 0
      BY <1>3
    <2> QED  BY <1>3, <1>4, <2>1, <2>2, <2>3, <2>4 DEF WalkAt
  <1>6. \A k \in 0 .. N : WalkAt(place, n, k, v[k])
    <2> DEFINE B == {k \in 0 .. N : WalkAt(place, n, k, v[k])}
    <2>1. 0 \in B
      BY <1>5
    <2>2. ASSUME NEW k \in 1 .. N, k - 1 \in B PROVE k \in B
      <3>1. v[k - 1] \in WalkSet(n, S) /\ k \in Nat \ {0} /\ WalkAt(place, n, k - 1, v[k - 1])
        BY <1>2, <2>2
      <3>2. WalkAt(place, n, k, WalkRound(place, v[k - 1]))
        BY <3>1, WalkKept
      <3>3. v[k] = WalkRound(place, v[k - 1])
        BY <1>1, <1>2
      <3> QED  BY <3>2, <3>3
    <2> HIDE DEF B
    <2>3. \A k \in 0 .. N : k \in B
      BY <2>1, <2>2, NatUp
    <2> QED  BY <2>3 DEF B
  <1>7. PICK w \in WalkSet(n, S) : w = v[N]
    BY <1>1, <1>2
  <1>8. WalkAt(place, n, N, w)
    BY <1>6, <1>7
  <1>9. w.i \in 0 .. n /\ w.depth \in Nat /\ w.atRoot \in BOOLEAN /\ w.top \in Seq(S)
    BY <1>7 DEF WalkSet
  <1>10. ASSUME ~w.atRoot PROVE ~((n - b) + Cardinality({m \in place.mounts : m > b}) < N)
    <2> DEFINE M == {m \in place.mounts : m > b}
    <2>1. IsFiniteSet(M)
      <3>1. IsFiniteSet(1 .. n)
        BY <1>3, FS_Interval
      <3>2. M \in SUBSET (1 .. n)
        BY <1>3
      <3> QED  BY <3>1, <3>2, FS_Subset
    <2>2. Met(place, w) \in SUBSET M
      <3>1. b <= w.i /\ (w.onPoint => w.i > b)
        BY <1>4, <1>8 DEF WalkAt
      <3> QED  BY <1>3, <1>9, <3>1 DEF Met
    <2>3. Cardinality(Met(place, w)) <= Cardinality(M)
      BY <2>1, <2>2, FS_Subset
    <2>4. Cardinality(Met(place, w)) \in Nat /\ Cardinality(M) \in Nat
      BY <2>1, <2>2, FS_Subset, FS_CardinalityType
    <2>5. N = (n - w.i) + Cardinality(Met(place, w)) /\ b <= w.i
      BY <1>4, <1>8, <1>10 DEF WalkAt
    <2> HIDE DEF M
    <2>6. ~((n - b) + Cardinality(M) < N)
      BY <1>3, <1>9, <2>3, <2>4, <2>5
    <2> QED  BY <2>6 DEF M
  <1>11. CASE w.atRoot
    <2>1. DentryDepth(place) = [depth |-> w.depth, top |-> w.top]
      BY <1>1, <1>2, <1>7, <1>11
    <2>2. w.i = b /\ w.depth = n - b
      BY <1>4, <1>8, <1>11 DEF WalkAt
    <2>3. /\ Len(w.top) = IF w.depth <= 3 THEN w.depth ELSE 3
          /\ \A j \in 1 .. Len(w.top) : w.top[j] = place.comps[b + j].name
      BY <1>8, <2>2 DEF WalkAt
    <2> WITNESS w.depth, w.top, TRUE
    <2> QED  BY <1>4, <1>9, <2>1, <2>2, <2>3
  <1>12. CASE ~w.atRoot
    <2>1. DentryDepth(place) = [depth |-> w.depth, top |-> <<>>]
      BY <1>1, <1>2, <1>7, <1>12
    <2>2. <<>> \in Seq(S)
      BY EmptySeq
    <2> WITNESS w.depth, <<>>, FALSE
    <2> QED  BY <1>2, <1>4, <1>10, <1>12, <2>1, <2>2
  <1> QED  BY <1>11, <1>12

\* The path of a place is its components below the root.
LEMMA PathIs ==
    ASSUME NEW S, NEW n, NEW place, PlaceOf(place, n, S)
    PROVE  /\ PathOf(place) \in Seq(Range(place.comps))
           /\ Len(PathOf(place)) = n - Base(place)
           /\ DOMAIN PathOf(place) = 1 .. n - Base(place)
           /\ \A j \in 1 .. n - Base(place) : PathOf(place)[j] = place.comps[Base(place) + j]
  <1> DEFINE T == Range(place.comps)
  <1>1. /\ n \in Nat \ {0} /\ place.comps \in Seq(T) /\ Len(place.comps) = n
        /\ DOMAIN place.comps = 1 .. n
    BY DEF PlaceOf, IsPlace
  <1>2. PICK b \in 0 .. n : b = Base(place)
    BY DEF Base, PlaceOf, IsPlace
  <1> HIDE DEF T
  <1>3. PICK p : p = SubSeq(place.comps, b + 1, n)
    OBVIOUS
  <1>4. PathOf(place) = p
    <2>1. CASE place.root = Elsewhere
      <3>1. b = 0 /\ b + 1 = 1
        BY <1>2, <2>1 DEF Base
      <3>2. SubSeq(place.comps, 1, n) = place.comps
        BY <1>1, SubSeqFull
      <3> QED  BY <1>3, <2>1, <3>1, <3>2 DEF PathOf
    <2>2. CASE place.root # Elsewhere
      BY <1>1, <1>2, <1>3, <2>2 DEF Base, PathOf
    <2> QED  BY <2>1, <2>2
  <1>5. \A i \in b + 1 .. n : place.comps[i] \in T
    <2>1. \A i \in b + 1 .. n : i \in 1 .. n
      OBVIOUS
    <2> QED  BY <1>1, <2>1, ElementOfSeq
  <1>6. /\ p \in Seq(T) /\ Len(p) = IF b + 1 <= n THEN (n - (b + 1)) + 1 ELSE 0
        /\ \A j \in 1 .. (n - (b + 1)) + 1 : p[j] = place.comps[((b + 1) + j) - 1]
    <2>1. b + 1 \in Int /\ n \in Int
      BY <1>1
    <2> QED  BY <1>3, <1>5, <2>1, SubSeqProperties
  <1>7. Len(p) = n - b
    <2>1. n \in Nat
      BY <1>1
    <2> QED  BY <1>6, <2>1
  <1>8. ASSUME NEW j \in 1 .. n - b PROVE p[j] = place.comps[b + j]
    <2>1. j \in 1 .. (n - (b + 1)) + 1 /\ ((b + 1) + j) - 1 = b + j
      BY <1>1
    <2> QED  BY <1>6, <2>1
  <1>9. DOMAIN p = 1 .. n - b
    BY <1>6, <1>7, LenProperties
  <1> QED  BY <1>2, <1>4, <1>6, <1>7, <1>8, <1>9 DEF T

\* Outside /dev, a write is dropped in a user's cache and in root's.
LEMMA QuietIs ==
    ASSUME NEW T, NEW path \in Seq(T), NEW N \in Nat \ {0, 1}, N = Len(path), path[1].name # "dev",
           path[2].len <= USER_MAX
    PROVE  "W" \in QuietMask(path) <=>
              \/ N > 3 /\ path[1].name = "home" /\ path[3].name = ".cache"
              \/ N > 2 /\ path[1].name = "root" /\ path[2].name = ".cache"
  <1>1. DOMAIN path = 1 .. N
    BY LenProperties
  <1>2. Name(path, 1) = path[1].name
    <2>1. 1 \in 1 .. N
      OBVIOUS
    <2> QED  BY <1>1, <2>1 DEF Name
  <1>3. N > 3 => Name(path, 3) = path[3].name
    <2>1. N > 3 => 3 \in 1 .. N
      OBVIOUS
    <2> QED  BY <1>1, <2>1 DEF Name
  <1>4. InHomeCache(path) <=> N > 3 /\ path[1].name = "home" /\ path[3].name = ".cache"
    BY <1>2, <1>3 DEF InHomeCache
  <1>5. Below(path, <<"root", ".cache">>) <=>
            N > 2 /\ path[1].name = "root" /\ path[2].name = ".cache"
    <2>1. PICK dir : dir = <<"root", ".cache">>
      OBVIOUS
    <2>2. DOMAIN dir = {1, 2} /\ Len(dir) = 2 /\ dir[1] = "root" /\ dir[2] = ".cache"
      BY <2>1
    <2>3. Below(path, dir) <=> N > 2 /\ path[1].name = dir[1] /\ path[2].name = dir[2]
      BY <2>2 DEF Below
    <2> QED  BY <2>1, <2>2, <2>3
  <1>6. ~Below(path, <<"dev", "pts">>)
    <2>1. PICK dir : dir = <<"dev", "pts">>
      OBVIOUS
    <2>2. 1 \in DOMAIN dir /\ dir[1] = "dev"
      BY <2>1
    <2>3. ~Below(path, dir)
      BY <2>2 DEF Below
    <2> QED  BY <2>1, <2>3
  <1>7. CASE InHomeCache(path) \/ Below(path, <<"root", ".cache">>)
    <2>1. QuietMask(path) = {"R", "W"}
      BY <1>7 DEF QuietMask
    <2> QED  BY <1>4, <1>5, <1>7, <2>1
  <1>8. CASE ~InHomeCache(path) /\ ~Below(path, <<"root", ".cache">>)
    <2>1. QuietMask(path) = {"R"} \/ QuietMask(path) = {}
      BY <1>2, <1>6, <1>8 DEF QuietMask
    <2> QED  BY <1>4, <1>5, <1>8, <2>1
  <1> QED  BY <1>7, <1>8

\* Neither line is logged, or both, of the same file.
Agree(place, ws, logged, c) ==
    \/ logged = Dropped /\ c = Dropped
    \/ /\ logged # Dropped /\ c # Dropped
       /\ SameFile(PathOf(place), ws, c[1], logged[1])

\* What a removal says is what a create of the same file says, but for the workspace.
LEMMA RemoveLineIs ==
    ASSUME NEW S, NEW n, NEW place, PlaceOf(place, n, S), NEW ws, IsWs(ws)
    PROVE  /\ Comparable(place) => Agree(place, ws, RemoveLine(place), CreateLine(place, ws))
           /\ RemoveLine(place) # Dropped =>
                 RemoveLine(place)[1].root \in {RootOf(Name(PathOf(place), 1)), "OTHER"}
  <1>1. PICK d, t, r :
            /\ DentryDepth(place) = [depth |-> d, top |-> t] /\ r \in BOOLEAN
            /\ t \in Seq(S) /\ (~r => t = <<>>)
            /\ r => /\ d = n - Base(place)
                    /\ Len(t) = IF d <= 3 THEN d ELSE 3
                    /\ \A j \in 1 .. Len(t) : t[j] = place.comps[Base(place) + j].name
            /\ (n - Base(place)) + Cardinality({m \in place.mounts : m > Base(place)}) < WALK_MAX
                  => r
    BY DentryDepthIs, ZenonT(30)
  <1>2. PICK b \in 0 .. n : b = Base(place) /\ n \in Nat \ {0}
    BY DEF Base, PlaceOf, IsPlace
  <1>3. PICK N \in Nat : N = n - b
    BY <1>2
  <1>4. PICK p : p = PathOf(place)
    OBVIOUS
  <1>5. /\ p \in Seq(Range(place.comps)) /\ Len(p) = N /\ DOMAIN p = 1 .. N
        /\ \A j \in 1 .. N : p[j] = place.comps[b + j]
    BY <1>2, <1>3, <1>4, PathIs
  <1>6. PICK leaf : leaf = place.comps[n] /\ leaf.len \in Nat /\ leaf.dot \in 0 .. leaf.len
    <2>1. n \in 1 .. n
      BY <1>2
    <2> QED  BY <2>1 DEF PlaceOf, IsPlace, Range
  <1>7. PICK root : root = RootOf(IF t = <<>> THEN "" ELSE t[1])
    OBVIOUS
  <1>8. RemoveLine(place) = IF RemoveQuiet(t) THEN Dropped
                            ELSE <<[root |-> root, depth |-> d, ext |-> ExtSeen(leaf, leaf.len, 0)]>>
    <2>1. Len(place.comps) = n
      BY DEF PlaceOf
    <2>2. DentryDepth(place).depth = d /\ DentryDepth(place).top = t
      BY <1>1
    <2> QED  BY <1>6, <1>7, <2>1, <2>2 DEF RemoveLine
  <1>9. ASSUME r
        PROVE  /\ t # <<>> <=> N >= 1
               /\ N >= 1 => t[1] = p[1].name
               /\ N >= 2 => t[2] = p[2].name
               /\ N >= 3 => t[3] = p[3].name
               /\ Len(t) = IF N <= 3 THEN N ELSE 3
    <2>1. Len(t) = IF N <= 3 THEN N ELSE 3
      BY <1>1, <1>2, <1>3, <1>9
    <2>2. \A j \in 1 .. 3 : j <= N => t[j] = p[j].name
      <3>1. ASSUME NEW j \in 1 .. 3, j <= N PROVE j \in 1 .. Len(t) /\ j \in 1 .. N
        BY <2>1, <3>1
      <3> QED  BY <1>1, <1>2, <1>5, <1>9, <3>1
    <2>3. N >= 1 => t # <<>>
      <3>1. Len(<<>>) = 0
        OBVIOUS
      <3> QED  BY <2>1, <3>1
    <2>4. N = 0 => t = <<>>
      BY <1>1, <2>1, EmptySeq
    <2> QED  BY <2>1, <2>2, <2>3, <2>4
  <1>10. RemoveLine(place) # Dropped =>
            RemoveLine(place)[1].root \in {RootOf(Name(p, 1)), "OTHER"}
    <2>1. root \in {RootOf(Name(p, 1)), "OTHER"}
      <3>1. RootOf("") = "OTHER"
        BY DEF RootOf
      <3>2. CASE r /\ N >= 1
        <4>1. t # <<>> /\ t[1] = p[1].name /\ 1 \in 1 .. N
          BY <1>9, <3>2
        <4>2. Name(p, 1) = p[1].name
          BY <1>5, <4>1 DEF Name
        <4> QED  BY <1>7, <4>1, <4>2
      <3>3. CASE r /\ ~(N >= 1)
        <4>1. t = <<>>
          BY <1>9, <3>3
        <4> QED  BY <1>7, <3>1, <4>1
      <3>4. CASE ~r
        BY <1>1, <1>7, <3>1, <3>4
      <3> QED  BY <1>1, <3>2, <3>3, <3>4
    <2>2. CASE RemoveQuiet(t)
      BY <1>8, <2>2
    <2>3. CASE ~RemoveQuiet(t)
      <3>1. PICK line : line = [root |-> root, depth |-> d, ext |-> ExtSeen(leaf, leaf.len, 0)]
        OBVIOUS
      <3>2. RemoveLine(place) = <<line>> /\ line.root = root
        BY <1>8, <2>3, <3>1
      <3>3. RemoveLine(place)[1] = line
        BY <3>2
      <3> QED  BY <2>1, <3>2, <3>3
    <2> QED  BY <2>2, <2>3
  <1>11. ASSUME Comparable(place) PROVE Agree(place, ws, RemoveLine(place), CreateLine(place, ws))
    <2>1. /\ N > 1 /\ p[1].name # "dev" /\ Chars(p) < PATH_MAX
          /\ N + Cardinality({m \in place.mounts : m > place.root}) < WALK_MAX
          /\ p[2].len <= USER_MAX /\ Name(p, N) # ".cache"
      BY <1>4, <1>5, <1>11 DEF Comparable
    <2>2. \A i \in 1 .. N : p[i].len \in Nat \ {0} /\ p[i].dot \in 0 .. p[i].len
      <3>1. ASSUME NEW i \in 1 .. N PROVE p[i].len \in Nat \ {0} /\ p[i].dot \in 0 .. p[i].len
        <4>1. p[i] \in Range(place.comps)
          BY <1>5, ElementOfSeq
        <4> QED  BY <4>1 DEF PlaceOf, IsPlace
      <3> QED  BY <3>1
    <2>3. p[N] = leaf /\ Name(p, N) = leaf.name
      <3>1. N \in 1 .. N /\ b + N = n
        BY <1>2, <1>3, <2>1
      <3> QED  BY <1>5, <1>6, <3>1 DEF Name
    <2>4. r
      <3>1. {m \in place.mounts : m > place.root} = {m \in place.mounts : m > Base(place)}
        <4>1. place.mounts \subseteq 1 .. n
          BY DEF PlaceOf, IsPlace
        <4>2. \A m \in 1 .. n : m > -1 /\ m > 0
          BY <1>2
        <4> QED  BY <4>1, <4>2 DEF Base, Elsewhere
      <3> QED  BY <1>1, <1>2, <1>3, <2>1, <3>1
    <2>5. d = N
      BY <1>1, <1>2, <1>3, <2>4
    <2>6. /\ t # <<>> /\ t[1] = p[1].name /\ t[2] = p[2].name /\ (N >= 3 => t[3] = p[3].name)
          /\ Len(t) = IF N <= 3 THEN N ELSE 3
      BY <1>9, <2>1, <2>4
    <2>7. "W" \in QuietMask(p) <=>
              \/ N > 3 /\ p[1].name = "home" /\ p[3].name = ".cache"
              \/ N > 2 /\ p[1].name = "root" /\ p[2].name = ".cache"
      <3>1. N \in Nat \ {0, 1}
        BY <2>1
      <3> QED  BY <1>5, <2>1, <3>1, QuietIs
    <2>8. /\ Name(p, 1) = p[1].name
          /\ N = 2 => p[2].name # ".cache"
          /\ N = 3 => p[3].name # ".cache"
      <3>1. 1 \in 1 .. N /\ N \in 1 .. N
        BY <2>1
      <3> QED  BY <1>5, <2>1, <3>1 DEF Name
    <2>9. RemoveQuiet(t) <=> "W" \in QuietMask(p)
      <3>1. RemoveQuiet(t) <=> \/ N > 2 /\ p[1].name = "home" /\ p[3].name = ".cache"
                               \/ N > 1 /\ p[1].name = "root" /\ p[2].name = ".cache"
        <4>1. (Len(t) > 2 <=> N > 2) /\ (Len(t) > 1 <=> N > 1)
          BY <2>6
        <4> QED  BY <2>6, <4>1 DEF RemoveQuiet
      <3>2. (N > 2 <=> N > 3 \/ N = 3) /\ (N > 1 <=> N > 2 \/ N = 2)
        OBVIOUS
      <3> QED  BY <2>7, <2>8, <3>1, <3>2
    <2>10. Chars(p) \in Nat /\ Chars(p) >= 2 + p[1].len + leaf.len
      <3>1. N \in Nat \ {0}
        BY <2>1
      <3> QED  BY <1>5, <2>1, <2>2, <2>3, <3>1, CharsAtLeast
    <2>11. ~(Chars(p) + 1 > PATH_MAX)
      BY <2>1, <2>10, PathSizesAssumption
    <2>12. PICK x, y : x = ExtSeen(leaf, Chars(p), 4) /\ y = ExtSeen(leaf, leaf.len, 0)
      OBVIOUS
    <2>13. x = y \/ (p[1].len < 3 /\ x = "")
      <3>1. p[1].len \in Nat
        BY <2>1, <2>2
      <3>2. PICK ch \in Nat, l \in Nat, o \in Nat, a \in Nat :
                ch = Chars(p) /\ l = leaf.len /\ o = leaf.dot /\ o <= l /\ a = p[1].len
        BY <1>6, <2>10, <3>1
      <3>3. ch >= 2 + a + l
        BY <2>10, <3>2
      <3>4. l - o >= 0 /\ (a >= 3 => ch - o >= 4)
        BY <3>2, <3>3
      <3>5. x \in {leaf.ext, ""} /\ (x = "" \/ o \in 1 .. 10) /\ y = (IF o \in 1 .. 10 THEN leaf.ext ELSE "")
        BY <2>12, <3>2, <3>4 DEF ExtSeen
      <3>6. a >= 3 => x = (IF o \in 1 .. 10 THEN leaf.ext ELSE "")
        BY <2>12, <3>2, <3>4 DEF ExtSeen
      <3>7. a >= 3 \/ a < 3
        BY <3>2
      <3> QED  BY <3>2, <3>5, <3>6, <3>7
    <2>14. ScanDepth(p) = IF p[1].len >= 3 THEN N ELSE N - 1
      <3>1. p # <<>> /\ Len(p) = N /\ N # 1
        BY <1>5, <2>1, EmptySeq
      <3>2. \A j \in 1 .. Len(p) : p[j].len \in Nat \ {0}
        BY <2>2, <3>1
      <3>3. ScanDepth(p) = IF p[1].len >= 3 \/ Len(p) = 1 THEN Len(p) ELSE Len(p) - 1
        BY <1>5, <3>1, <3>2, ScanDepthIs
      <3> QED  BY <3>1, <3>3
    <2>15. root = RootOf(Name(p, 1))
      BY <1>7, <2>6, <2>8
    <2>16. PICK i, k, c : /\ i = InWs(p, ws) /\ k = ScanDepth(p) - (IF i THEN WsDepth(ws) ELSE 0)
                          /\ c = [root |-> IF i THEN "WS" ELSE root, depth |-> k, ext |-> x]
      OBVIOUS
    <2>17. CreateLine(place, ws) = IF "W" \in QuietMask(p) THEN Dropped ELSE <<c>>
      <3>1. CreateLine(place, ws) =
                IF Chars(p) + 1 > PATH_MAX \/ "W" \in QuietMask(p) THEN Dropped
                ELSE <<[root |-> IF InWs(p, ws) THEN "WS" ELSE RootOf(Name(p, 1)),
                        depth |-> ScanDepth(p) - (IF InWs(p, ws) THEN WsDepth(ws) ELSE 0),
                        ext |-> ExtSeen(p[N], Chars(p), 4)]>>
        BY <1>4, <1>5, Zenon DEF CreateLine
      <3> QED  BY <2>3, <2>11, <2>12, <2>15, <2>16, <3>1
    <2>18. N = k + (IF i THEN Len(ws) ELSE IF p[1].len < 3 THEN 1 ELSE 0)
      <3>1. p[1].len \in Nat
        BY <2>1, <2>2
      <3>2. PICK a \in Nat : a = p[1].len
        BY <3>1
      <3>3. CASE InWs(p, ws)
        <4>1. ws # <<>> /\ ws[1] = p[1] /\ Len(ws) \in Nat
          <5>1. ws \in Seq(Range(ws)) /\ ws # <<>>
            BY <3>3 DEF InWs, IsWs
          <5>2. Len(ws) \in Nat \ {0} /\ DOMAIN ws = 1 .. Len(ws)
            BY <5>1, LenProperties, EmptySeq
          <5>3. 1 \in DOMAIN ws
            BY <5>2
          <5> QED  BY <3>3, <5>1, <5>2, <5>3 DEF InWs
        <4>2. WsDepth(ws) = IF a >= 3 THEN Len(ws) ELSE Len(ws) - 1
          BY <3>2, <4>1, WsDepthIs
        <4>3. PICK m \in Nat : m = Len(ws)
          BY <4>1
        <4>4. k = (IF a >= 3 THEN N ELSE N - 1) - (IF a >= 3 THEN m ELSE m - 1)
          BY <2>14, <2>16, <3>2, <3>3, <4>2, <4>3
        <4>5. N = k + m
          BY <4>4
        <4> QED  BY <2>16, <3>3, <4>3, <4>5
      <3>4. CASE ~InWs(p, ws)
        <4>1. k = (IF a >= 3 THEN N ELSE N - 1) - 0
          BY <2>14, <2>16, <3>2, <3>4
        <4>2. N = k + (IF a < 3 THEN 1 ELSE 0)
          BY <4>1
        <4> QED  BY <2>16, <3>2, <3>4, <4>2
      <3> QED  BY <3>3, <3>4
    <2>19. CASE "W" \in QuietMask(p)
      BY <1>8, <2>9, <2>17, <2>19 DEF Agree
    <2>20. CASE ~("W" \in QuietMask(p))
      <3>1. PICK l : l = [root |-> root, depth |-> N, ext |-> y]
        OBVIOUS
      <3>2. RemoveLine(place) = <<l>>
        BY <1>8, <2>5, <2>9, <2>12, <2>20, <3>1
      <3>3. CreateLine(place, ws) = <<c>>
        BY <2>17, <2>20
      <3>4. l.root = root /\ l.depth = N /\ l.ext = y
        BY <3>1
      <3>5. c.root = (IF i THEN "WS" ELSE root) /\ c.depth = k /\ c.ext = x
        BY <2>16
      <3>6. SameFile(p, ws, c, l)
        BY <2>13, <2>15, <2>16, <2>18, <3>4, <3>5 DEF SameFile
      <3>7. \A z : <<z>> # Dropped /\ <<z>>[1] = z
        BY DEF Dropped
      <3> QED  BY <1>4, <3>2, <3>3, <3>6, <3>7 DEF Agree
    <2> QED  BY <2>19, <2>20
  <1> QED  BY <1>4, <1>10, <1>11

\* A call of any task is right.
LEMMA RemoveRightIs ==
    ASSUME NEW c \in Calls, c.kind = "remove"
    PROVE  RemoveRight(c, RemoveLogged(c))
  <1> DEFINE S == {x.name : x \in Range(c.place.comps)}
             n == Len(c.place.comps)
  <1>1. IsPlace(c.place)
    BY CallsAssumption
  <1>2. n \in Nat \ {0} /\ DOMAIN c.place.comps = 1 .. n
    BY <1>1, LenProperties, EmptySeq DEF IsPlace
  <1>3. PlaceOf(c.place, n, S)
    BY <1>1, <1>2 DEF PlaceOf, Range
  <1> HIDE DEF S, n
  <1>4. /\ Comparable(c.place) => Agree(c.place, c.ws, RemoveLine(c.place), CreateLine(c.place, c.ws))
        /\ RemoveLine(c.place) # Dropped =>
              RemoveLine(c.place)[1].root \in {RootOf(Name(PathOf(c.place), 1)), "OTHER"}
    <2>1. IsWs(c.ws)
      BY CallsAssumption
    <2> QED  BY <1>3, <2>1, RemoveLineIs
  <1> QED  BY <1>4, Zenon DEF RemoveLogged, RemoveRight, Agree

LEMMA NextRemove == Inv /\ RemoveExact /\ [Next]_vars => RemoveExact'
  <1> SUFFICES ASSUME Inv, RemoveExact, [Next]_vars PROVE RemoveExact'
    OBVIOUS
  <1>1. ASSUME NEW c \in Calls, Call(c) PROVE RemoveExact'
    <2>1. call'.kind = c.kind /\ call'.of = c /\ call'.served = (phase = "serving")
      BY <1>1 DEF Call
    <2>2. ASSUME c.kind = "remove", phase = "serving" PROVE RemoveRight(call'.of, call'.logged)
      <3>1. call'.logged = RemoveLogged(c)
        BY <1>1, <2>2, CallLogged DEF Logged
      <3> QED  BY <2>1, <2>2, <3>1, RemoveRightIs
    <2> QED  BY <2>1, <2>2 DEF RemoveExact
  <1>2. CASE Return
    BY <1>2 DEF Return, NoCall, RemoveExact
  <1>3. CASE UNCHANGED call
    BY <1>3 DEF RemoveExact
  <1> QED
    BY <1>1, <1>2, <1>3
       DEF Next, Loading, Dropping, Load, LoadPattern, LoadRule, Attach, FillJmp, Bind, Leave,
           DropLink, DropObjects, Restart, Track, vars

\* Wherever the file lies that a tracked task removes, under any mounts and any root, and whatever
\* workspace its creation met: the D line is dropped where the C line is, at every place that both
\* hooks can see; it names the root the file is in and counts all its levels, where the C of a file in
\* the workspace reads WS and counts those below it; otherwise the two agree, but for a first
\* folder of one or two letters.  No D is put under a root the file is not in.
THEOREM RemoveCorrect == Spec => []RemoveExact
  <1>1. Init => Inv /\ RemoveExact
    <2>1. Init => RemoveExact
      BY DEF Init, NoCall, RemoveExact
    <2> QED  BY <2>1, InitInv
  <1>2. (Inv /\ RemoveExact) /\ [Next]_vars => (Inv /\ RemoveExact)'
    BY NextInv, NextRemove
  <1> QED  BY <1>1, <1>2, PTL DEF Spec

(***************************************************************************)
(* DNS queries.                                                            *)
(***************************************************************************)

\* Every step function has its walk.
LEMMA WalkExists ==
    ASSUME NEW N \in Nat, NEW V, NEW base, NEW g, IsStep(g, N, V, base)
    PROVE  \E v : IsWalk(v, N, V, base, g)
  <1>1. PICK h \in [SUBSET (1 .. N) -> V] : IsFold(h, N, base, g)
    BY FoldExists
  <1>2. Unrolls(h, N, V, base, g)
    BY <1>1 DEF IsFold, Unrolls
  <1> QED  BY <1>2, FoldSteps

\* A list of lists, laid end to end.
Flattening(it, ss) ==
    it = [i \in 1 .. Len(ss) |-> IF i = 1 THEN ss[i] ELSE it[i - 1] \o ss[i]]

EndToEnd(f, ss, n, S) ==
    /\ f \in [0 .. n -> Seq(S)] /\ f[0] = <<>> /\ f[n] = FlattenSeq(ss)
    /\ \A k \in 1 .. n : f[k] = f[k - 1] \o ss[k]

LEMMA FlattenSteps ==
    ASSUME NEW S, NEW n \in Nat \ {0}, NEW ss \in Seq(Seq(S)), Len(ss) = n
    PROVE  \E f : EndToEnd(f, ss, n, S)
  <1> DEFINE V == Seq(S)
             g == [x \in V \X (1 .. n) |-> x[1] \o ss[x[2]]]
  <1>0. \A k \in 1 .. n : ss[k] \in V
    BY ElementOfSeq
  <1>1. IsStep(g, n, V, <<>>)
    <2>1. \A x \in V \X (1 .. n) : x[1] \o ss[x[2]] \in V
      BY <1>0, ConcatProperties
    <2> QED  BY <2>1, EmptySeq DEF IsStep
  <1>2. \A s \in V, k \in 1 .. n : g[<<s, k>>] = s \o ss[k]
    OBVIOUS
  <1> HIDE DEF g
  <1>3. n \in Nat
    OBVIOUS
  <1>4. PICK f : IsWalk(f, n, V, <<>>, g)
    BY <1>1, <1>3, WalkExists
  <1>5. f \in [0 .. n -> V] /\ f[0] = <<>>
    BY <1>4 DEF IsWalk
  <1>6. ASSUME NEW k \in 1 .. n PROVE f[k] = f[k - 1] \o ss[k]
    <2>1. k - 1 \in 0 .. n
      OBVIOUS
    <2>2. f[k - 1] \in V
      BY <1>5, <2>1
    <2>3. f[k] = g[<<f[k - 1], k>>]
      BY <1>4 DEF IsWalk
    <2> QED  BY <1>2, <2>2, <2>3
  <1>7. PICK it : it = CHOOSE i0 : Flattening(i0, ss)
    OBVIOUS
  <1> DEFINE h == [i \in 1 .. n |-> f[i]]
  <1>8. Flattening(h, ss)
    <2>1. ASSUME NEW i \in 1 .. n PROVE f[i] = IF i = 1 THEN ss[i] ELSE h[i - 1] \o ss[i]
      <3>1. CASE i = 1
        <4>1. 1 \in 1 .. n /\ 1 - 1 = 0
          OBVIOUS
        <4>2. f[1] = <<>> \o ss[1] /\ ss[1] \in V
          BY <1>0, <1>5, <1>6, <4>1
        <4>3. <<>> \o ss[1] = ss[1]
          BY <4>2, ConcatEmptySeq
        <4> QED  BY <3>1, <4>2, <4>3
      <3>2. CASE i # 1
        <4>1. i - 1 \in 1 .. n
          BY <3>2
        <4> QED  BY <1>6, <3>2, <4>1
      <3> QED  BY <3>1, <3>2
    <2> QED  BY <2>1 DEF Flattening
  <1>9. Flattening(it, ss)
    BY <1>7, <1>8
  <1>10. FlattenSeq(ss) = it[n]
    BY <1>7 DEF FlattenSeq, Flattening
  <1>11. \A k \in 0 .. n : k > 0 => it[k] = f[k]
    <2> DEFINE B == {k \in 0 .. n : k > 0 => it[k] = f[k]}
    <2>1. 0 \in B
      OBVIOUS
    <2>2. ASSUME NEW k \in 1 .. n, k - 1 \in B PROVE k \in B
      <3>1. it[k] = IF k = 1 THEN ss[k] ELSE it[k - 1] \o ss[k]
        BY <1>9 DEF Flattening
      <3>2. f[k] = IF k = 1 THEN ss[k] ELSE h[k - 1] \o ss[k]
        BY <1>8 DEF Flattening
      <3>3. CASE k = 1
        BY <3>1, <3>2, <3>3
      <3>4. CASE k # 1
        <4>1. k - 1 \in 1 .. n /\ k - 1 > 0
          BY <3>4
        <4>2. it[k - 1] = f[k - 1] /\ h[k - 1] = f[k - 1]
          BY <2>2, <4>1
        <4>3. it[k] = f[k]
          <5> HIDE DEF h, B
          <5> QED  BY <3>1, <3>2, <3>4, <4>2
        <4> QED  BY <4>3
      <3> QED  BY <3>3, <3>4
    <2>3. \A k \in 0 .. n : k \in B
      <3> HIDE DEF B
      <3> QED  BY <1>3, <2>1, <2>2, NatUp
    <2> QED  BY <2>3
  <1>12. f[n] = FlattenSeq(ss)
    <2>1. n \in 0 .. n /\ n > 0
      OBVIOUS
    <2> QED  BY <1>10, <1>11, <2>1
  <1> HIDE DEF h
  <1>13. EndToEnd(f, ss, n, S)
    BY <1>5, <1>6, <1>12 DEF EndToEnd
  <1> QED  BY <1>13

\* Lower case, byte by byte; a '.' and a NUL stay the only ones of their kind.
LEMMA LowerByteIs ==
    ASSUME NEW b \in Octet
    PROVE  /\ LowerByte(b) \in Octet
           /\ b # 0 => LowerByte(b) # 0
           /\ b # Dot => LowerByte(b) # Dot
  BY DEF LowerByte, UpperLetters, Octet, Dot

LEMMA LowerTextIs ==
    ASSUME NEW s \in Seq(Octet)
    PROVE  /\ LowerText(s) \in Seq(Octet) /\ Len(LowerText(s)) = Len(s)
           /\ \A i \in 1 .. Len(s) : LowerText(s)[i] = LowerByte(s[i])
  <1>1. PICK n \in Nat : n = Len(s) /\ DOMAIN s = 1 .. n
    BY LenProperties
  <1>2. PICK t : t = LowerText(s)
    OBVIOUS
  <1>3. t = [i \in 1 .. n |-> LowerByte(s[i])]
    BY <1>1, <1>2 DEF LowerText
  <1>4. \A i \in 1 .. n : LowerByte(s[i]) \in Octet
    <2>1. ASSUME NEW i \in 1 .. n PROVE LowerByte(s[i]) \in Octet
      <3>1. s[i] \in Octet
        BY <1>1, ElementOfSeq
      <3> QED  BY <3>1, LowerByteIs
    <2> QED  BY <2>1
  <1>5. t \in [1 .. n -> Octet]
    BY <1>3, <1>4
  <1>6. t \in Seq(Octet) /\ Len(t) = n
    BY <1>5, FunSeq
  <1> QED  BY <1>1, <1>2, <1>3, <1>6

\* A label behind a name.
WithLabel(s, l) == IF s = <<>> THEN LowerText(l) ELSE s \o <<Dot>> \o LowerText(l)

DottedFold(it, labels) ==
    it = [s \in SUBSET DOMAIN labels |->
            IF s = {} THEN <<>>
            ELSE IF it[s \ {Max(s)}] = <<>> THEN LowerText(labels[Max(s)])
                 ELSE it[s \ {Max(s)}] \o <<Dot>> \o LowerText(labels[Max(s)])]

\* The names of the first labels, of more and more of them.
Spelling(D, labels, n) ==
    /\ D \in [0 .. n -> Seq(Octet)] /\ D[0] = <<>> /\ D[n] = Dotted(labels)
    /\ \A k \in 1 .. n : D[k] = WithLabel(D[k - 1], labels[k])

LEMMA DottedSteps ==
    ASSUME NEW n \in Nat, NEW labels \in Seq(Seq(Octet)), Len(labels) = n
    PROVE  \E D : Spelling(D, labels, n)
  <1> DEFINE V == Seq(Octet)
             g == [x \in V \X (1 .. n) |-> WithLabel(x[1], labels[x[2]])]
  <1>d. DOMAIN labels = 1 .. n /\ \A k \in 1 .. n : labels[k] \in V
    BY LenProperties, ElementOfSeq
  <1>0. \A s \in V, k \in 1 .. n : WithLabel(s, labels[k]) \in V
    <2>1. ASSUME NEW s \in V, NEW k \in 1 .. n PROVE WithLabel(s, labels[k]) \in V
      <3>1. LowerText(labels[k]) \in V
        BY <1>d, LowerTextIs
      <3>2. <<Dot>> \in V
        BY DEF Dot, Octet
      <3>3. PICK d : d = <<Dot>>
        OBVIOUS
      <3>4. s \o d \in V
        BY <3>2, <3>3, ConcatProperties
      <3>5. (s \o d) \o LowerText(labels[k]) \in V
        BY <3>1, <3>4, ConcatProperties
      <3> QED  BY <3>1, <3>3, <3>5 DEF WithLabel
    <2> QED  BY <2>1
  <1>1. IsStep(g, n, V, <<>>)
    <2>1. <<>> \in V
      BY EmptySeq
    <2> HIDE DEF V
    <2> QED  BY <1>0, <2>1 DEF IsStep
  <1>2. \A s \in V, k \in 1 .. n : g[<<s, k>>] = WithLabel(s, labels[k])
    OBVIOUS
  <1> HIDE DEF g, V
  <1>3. ASSUME NEW s \in SUBSET (1 .. n), s # {} PROVE Max(s) \in 1 .. n
    <2>1. s \subseteq 0 .. n
      OBVIOUS
    <2> QED  BY <1>3, <2>1, MaxIs
  <1>4. PICK h \in [SUBSET (1 .. n) -> V] : IsFold(h, n, <<>>, g)
    BY <1>1, FoldExists
  <1>5. DottedFold(h, labels)
    <2>1. ASSUME NEW s \in SUBSET (1 .. n), s # {}
          PROVE  h[s] = WithLabel(h[s \ {Max(s)}], labels[Max(s)])
      <3>1. h[s \ {Max(s)}] \in V
        OBVIOUS
      <3>2. h[s] = g[<<h[s \ {Max(s)}], Max(s)>>]
        BY <1>4, <2>1 DEF IsFold
      <3> QED  BY <1>2, <1>3, <2>1, <3>1, <3>2
    <2>2. h[{}] = <<>>
      BY <1>4 DEF IsFold
    <2> QED  BY <1>4, <1>d, <2>1, <2>2 DEF DottedFold, WithLabel
  <1>6. PICK it : it = CHOOSE i0 : DottedFold(i0, labels)
    OBVIOUS
  <1>7. DottedFold(it, labels)
    BY <1>5, <1>6
  <1>8. Dotted(labels) = it[1 .. n]
    BY <1>6, <1>d DEF Dotted, FoldLeft, MapThenFoldSet, DottedFold
  <1>9. it[{}] = <<>>
    BY <1>7 DEF DottedFold
  <1>10. ASSUME NEW s \in SUBSET (1 .. n), s # {}, it[s \ {Max(s)}] \in V
         PROVE  it[s] = g[<<it[s \ {Max(s)}], Max(s)>>]
    <2>1. it[s] = WithLabel(it[s \ {Max(s)}], labels[Max(s)])
      BY <1>7, <1>d, <1>10 DEF DottedFold, WithLabel
    <2> QED  BY <1>2, <1>3, <1>10, <2>1
  <1>11. PICK D : IsWalk(D, n, V, <<>>, g) /\ D[n] = it[1 .. n]
    <2>1. Unrolls(it, n, V, <<>>, g)
      BY <1>9, <1>10 DEF Unrolls
    <2> QED  BY <1>1, <2>1, FoldSteps
  <1>12. ASSUME NEW k \in 1 .. n PROVE D[k] = WithLabel(D[k - 1], labels[k])
    <2>1. D[k - 1] \in V
      <3>1. k - 1 \in 0 .. n
        OBVIOUS
      <3> QED  BY <1>11, <3>1 DEF IsWalk
    <2>2. D[k] = g[<<D[k - 1], k>>]
      BY <1>11 DEF IsWalk
    <2> QED  BY <1>2, <2>1, <2>2
  <1>13. D \in [0 .. n -> V] /\ D[0] = <<>>
    BY <1>11 DEF IsWalk
  <1>14. Spelling(D, labels, n)
    BY <1>8, <1>11, <1>12, <1>13 DEF V, Spelling
  <1> QED  BY <1>14

\* Where the labels of a name end: each takes a byte more than it is long, in the wire for its
\* length and in the text for the '.' behind it.
Offsets(E, labels, n) ==
    /\ n \in Nat \ {0} /\ labels \in Seq(Seq(Octet \ {0, Dot})) /\ Len(labels) = n
    /\ E \in [0 .. n -> Nat] /\ E[0] = 0
    /\ \A k \in 1 .. n : Len(labels[k]) \in 1 .. 63 /\ E[k] = E[k - 1] + Len(labels[k]) + 1

LEMMA OffsetsGrow ==
    ASSUME NEW E, NEW labels, NEW n, Offsets(E, labels, n)
    PROVE  \A m \in 0 .. n :
              /\ \A k \in 0 .. m : E[k] <= E[m]
              /\ \A p \in 1 .. E[m] : \E k \in 1 .. m : E[k - 1] < p /\ p <= E[k]
  <1> DEFINE B == {m \in 0 .. n : /\ \A k \in 0 .. m : E[k] <= E[m]
                                  /\ \A p \in 1 .. E[m] : \E k \in 1 .. m : E[k - 1] < p /\ p <= E[k]}
  <1>1. 0 \in B
    BY DEF Offsets
  <1>2. ASSUME NEW m \in 1 .. n, m - 1 \in B PROVE m \in B
    <2>1. m - 1 \in 0 .. n /\ m \in 0 .. n
      BY DEF Offsets
    <2>2. PICK a \in Nat, l \in 1 .. 63 : a = E[m - 1] /\ l = Len(labels[m]) /\ E[m] = a + l + 1
      BY <2>1 DEF Offsets
    <2>3. ASSUME NEW k \in 0 .. m PROVE E[k] <= E[m]
      <3>1. CASE k = m
        BY <2>2, <3>1
      <3>2. CASE k # m
        <4>1. k \in 0 .. m - 1 /\ k \in 0 .. n
          BY <3>2 DEF Offsets
        <4>2. E[k] <= a /\ E[k] \in Nat
          BY <1>2, <2>2, <4>1 DEF Offsets
        <4> QED  BY <2>2, <4>2
      <3> QED  BY <3>1, <3>2
    <2>4. ASSUME NEW p \in 1 .. E[m] PROVE \E k \in 1 .. m : E[k - 1] < p /\ p <= E[k]
      <3>1. CASE p <= a
        <4>1. p \in 1 .. E[m - 1]
          BY <2>2, <3>1
        <4>2. PICK k \in 1 .. m - 1 : E[k - 1] < p /\ p <= E[k]
          BY <1>2, <4>1
        <4>3. k \in 1 .. m
          OBVIOUS
        <4> QED  BY <4>2, <4>3
      <3>2. CASE ~(p <= a)
        <4>1. E[m - 1] < p /\ p <= E[m] /\ m \in 1 .. m
          BY <2>2, <3>2
        <4> QED  BY <4>1
      <3> QED  BY <3>1, <3>2
    <2> QED  BY <2>1, <2>3, <2>4
  <1>3. \A m \in 0 .. n : m \in B
    <2>1. n \in Nat
      BY DEF Offsets
    <2> HIDE DEF B
    <2> QED  BY <1>1, <1>2, <2>1, NatUp
  <1> QED  BY <1>3

\* The text of the first m labels.
TextOf(T, E, labels, m) ==
    /\ T \in Seq(Octet) /\ Len(T) = E[m] - 1
    /\ \A k \in 1 .. m : \A j \in 1 .. Len(labels[k]) : T[E[k - 1] + j] = LowerByte(labels[k][j])
    /\ \A k \in 1 .. m - 1 : T[E[k]] = Dot

\* Two sequences, byte by byte.
LEMMA JoinIs ==
    ASSUME NEW S, NEW s \in Seq(S), NEW t \in Seq(S), NEW m \in Nat, NEW n \in Nat,
           m = Len(s), n = Len(t), NEW u, u = s \o t
    PROVE  /\ u \in Seq(S) /\ Len(u) = m + n
           /\ \A i \in 1 .. m : u[i] = s[i]
           /\ \A j \in 1 .. n : u[m + j] = t[j]
  <1>1. /\ u \in Seq(S) /\ Len(u) = m + n
        /\ \A i \in 1 .. m + n : u[i] = IF i <= m THEN s[i] ELSE t[i - m]
    BY ConcatProperties
  <1>2. ASSUME NEW i \in 1 .. m PROVE u[i] = s[i]
    <2>1. i \in 1 .. m + n /\ i <= m
      OBVIOUS
    <2> QED  BY <1>1, <2>1
  <1>3. ASSUME NEW j \in 1 .. n PROVE u[m + j] = t[j]
    <2>1. m + j \in 1 .. m + n /\ ~(m + j <= m) /\ (m + j) - m = j
      OBVIOUS
    <2> QED  BY <1>1, <2>1
  <1> QED  BY <1>1, <1>2, <1>3

\* One more label of b bytes behind a text of a bytes, byte by byte.
Longer(u, s, a, l, b) ==
    /\ u \in Seq(Octet) /\ Len(u) = a + 1 + b
    /\ \A i \in 1 .. a : u[i] = s[i]
    /\ u[a + 1] = Dot
    /\ \A j \in 1 .. b : u[a + 1 + j] = LowerByte(l[j])

LEMMA WithLabelIs ==
    ASSUME NEW s \in Seq(Octet), s # <<>>, NEW l \in Seq(Octet), NEW a \in Nat, NEW b \in Nat,
           a = Len(s), b = Len(l), NEW u, u = WithLabel(s, l)
    PROVE  Longer(u, s, a, l, b)
  <1>1. PICK d, o : d = <<Dot>> /\ o = Len(d)
    OBVIOUS
  <1>2. d \in Seq(Octet) /\ o = 1 /\ d[1] = Dot
    BY <1>1 DEF Dot, Octet
  <1>3. PICK t : t = LowerText(l)
    OBVIOUS
  <1>4. t \in Seq(Octet) /\ Len(t) = b /\ \A j \in 1 .. b : t[j] = LowerByte(l[j])
    BY <1>3, LowerTextIs
  <1>5. PICK v : v = s \o d
    OBVIOUS
  <1>6. /\ v \in Seq(Octet) /\ Len(v) = a + o
        /\ \A i \in 1 .. a : v[i] = s[i]
        /\ \A i \in 1 .. o : v[a + i] = d[i]
    <2>1. o \in Nat
      BY <1>2
    <2> QED  BY <1>1, <1>2, <1>5, <2>1, JoinIs
  <1>7. u = v \o t
    BY <1>1, <1>3, <1>5 DEF WithLabel
  <1>8. PICK m \in Nat : m = a + 1
    OBVIOUS
  <1>9. /\ u \in Seq(Octet) /\ Len(u) = m + b
        /\ \A i \in 1 .. m : u[i] = v[i]
        /\ \A j \in 1 .. b : u[m + j] = t[j]
    <2>1. m = Len(v) /\ v \in Seq(Octet)
      BY <1>2, <1>6, <1>8
    <2>2. b = Len(t) /\ t \in Seq(Octet)
      BY <1>4
    <2> QED  BY <1>7, <2>1, <2>2, JoinIs
  <1>10. \A i \in 1 .. a : i \in 1 .. m
    BY <1>8
  <1>11. u[m] = Dot
    <2>1. m \in 1 .. m /\ 1 \in 1 .. o
      BY <1>2, <1>8
    <2> QED  BY <1>2, <1>6, <1>8, <1>9, <2>1
  <1> QED  BY <1>4, <1>6, <1>8, <1>9, <1>10, <1>11 DEF Longer

LEMMA TextIs ==
    ASSUME NEW E, NEW labels, NEW n, Offsets(E, labels, n), NEW D, Spelling(D, labels, n)
    PROVE  \A m \in 1 .. n : TextOf(D[m], E, labels, m)
  <1> DEFINE B == {m \in 0 .. n : m > 0 => TextOf(D[m], E, labels, m)}
  <1>. n \in Nat
    BY DEF Offsets
  <1>0. \A k \in 1 .. n : labels[k] \in Seq(Octet)
    <2>1. ASSUME NEW k \in 1 .. n PROVE labels[k] \in Seq(Octet)
      <3>1. labels[k] \in Seq(Octet \ {0, Dot})
        BY ElementOfSeq DEF Offsets
      <3>2. Octet \ {0, Dot} \subseteq Octet
        OBVIOUS
      <3> QED  BY <3>1, <3>2, SeqMonotonic
    <2> QED  BY <2>1
  <1>1. 0 \in B
    BY DEF Offsets
  <1>2. ASSUME NEW m \in 1 .. n, m - 1 \in B PROVE m \in B
    <2>1. m - 1 \in 0 .. n /\ m \in 0 .. n /\ m \in Nat /\ m > 0
      BY DEF Offsets
    <2>2. PICK a \in Nat, l \in 1 .. 63 : a = E[m - 1] /\ l = Len(labels[m]) /\ E[m] = a + l + 1
      BY <2>1 DEF Offsets
    <2>3. D[m] = WithLabel(D[m - 1], labels[m]) /\ D[m - 1] \in Seq(Octet)
      BY <2>1 DEF Spelling
    <2>4. labels[m] \in Seq(Octet)
      BY <1>0
    <2>5. CASE m = 1
      <3>1. D[0] = <<>> /\ E[0] = 0
        BY DEF Spelling, Offsets
      <3>2. D[m] = LowerText(labels[m]) /\ a = 0
        BY <2>2, <2>3, <2>5, <3>1 DEF WithLabel
      <3>3. /\ D[m] \in Seq(Octet) /\ Len(D[m]) = l
            /\ \A j \in 1 .. l : D[m][j] = LowerByte(labels[m][j])
        BY <2>2, <2>4, <3>2, LowerTextIs
      <3>4. \A k \in 1 .. m : k = m /\ E[k - 1] = 0
        BY <2>5, <3>1
      <3>5. \A j \in 1 .. l : 0 + j = j
        OBVIOUS
      <3>6. TextOf(D[m], E, labels, m)
        <4>1. Len(D[m]) = E[m] - 1
          BY <2>2, <3>2, <3>3
        <4>2. ASSUME NEW k \in 1 .. m, NEW j \in 1 .. Len(labels[k])
              PROVE  D[m][E[k - 1] + j] = LowerByte(labels[k][j])
          BY <2>2, <3>3, <3>4, <3>5
        <4>3. 1 .. m - 1 = {}
          BY <2>5
        <4> QED  BY <3>3, <4>1, <4>2, <4>3 DEF TextOf
      <3> QED  BY <2>1, <3>6
    <2>6. CASE m # 1
      <3>1. m - 1 > 0 /\ m - 1 \in 1 .. n
        BY <2>1, <2>6
      <3>2. TextOf(D[m - 1], E, labels, m - 1)
        BY <1>2, <3>1
      <3>3. PICK s : s = D[m - 1]
        OBVIOUS
      <3>4. s \in Seq(Octet) /\ Len(s) = a - 1
        BY <2>2, <3>2, <3>3 DEF TextOf
      <3>5. a >= 2
        <4>1. (m - 1) - 1 \in 0 .. n
          BY <3>1
        <4>2. PICK x \in Nat, y \in 1 .. 63 :
                  x = E[(m - 1) - 1] /\ y = Len(labels[m - 1]) /\ E[m - 1] = x + y + 1
          BY <3>1, <4>1, ZenonT(30) DEF Offsets
        <4>3. a = x + y + 1
          BY <2>2, <4>2
        <4> QED  BY <4>3
      <3>6. s # <<>>
        <4>1. Len(s) # 0
          BY <3>4, <3>5
        <4> QED  BY <4>1, EmptySeq
      <3>7. PICK u : u = D[m]
        OBVIOUS
      <3>8. PICK b \in Nat : b = a - 1 /\ b + 1 = a
        BY <3>5
      <3>9. /\ u \in Seq(Octet) /\ Len(u) = b + 1 + l
            /\ \A i \in 1 .. b : u[i] = s[i]
            /\ u[b + 1] = Dot
            /\ \A j \in 1 .. l : u[b + 1 + j] = LowerByte(labels[m][j])
        <4>1. u = WithLabel(s, labels[m]) /\ b = Len(s) /\ l \in Nat
          BY <2>3, <3>3, <3>4, <3>7, <3>8
        <4>2. PICK t : t = labels[m]
          OBVIOUS
        <4>3. s \in Seq(Octet) /\ t \in Seq(Octet) /\ l = Len(t) /\ u = WithLabel(s, t)
          BY <2>2, <2>4, <3>4, <4>1, <4>2
        <4>4. PICK c \in Nat : c = l
          OBVIOUS
        <4>5. Longer(u, s, b, t, c)
          BY <3>6, <4>1, <4>3, <4>4, WithLabelIs
        <4> QED  BY <4>2, <4>4, <4>5 DEF Longer
      <3>10. ASSUME NEW k \in 1 .. m, NEW j \in 1 .. Len(labels[k])
             PROVE  u[E[k - 1] + j] = LowerByte(labels[k][j])
        <4>1. CASE k = m
          BY <2>2, <3>8, <3>9, <4>1
        <4>2. CASE k # m
          <5>1. k \in 1 .. m - 1 /\ k - 1 \in 0 .. n /\ k \in 1 .. n /\ k \in 0 .. m - 1
            BY <4>2, <2>1
          <5>2. PICK x \in Nat, y \in 1 .. 63 : x = E[k - 1] /\ y = Len(labels[k]) /\ E[k] = x + y + 1
            BY <5>1, ZenonT(30) DEF Offsets
          <5>3. E[k] <= a
            BY <2>1, <2>2, <5>1, OffsetsGrow
          <5>4. x + j \in 1 .. a - 1
            <6>1. j \in 1 .. y /\ x + y + 1 <= a
              BY <5>2, <5>3
            <6> QED  BY <6>1
          <5>5. u[x + j] = s[x + j]
            BY <3>8, <3>9, <5>4
          <5>6. s[E[k - 1] + j] = LowerByte(labels[k][j])
            BY <3>2, <3>3, <5>1 DEF TextOf
          <5> QED  BY <5>2, <5>5, <5>6
        <4> QED  BY <4>1, <4>2
      <3>11. ASSUME NEW k \in 1 .. m - 1 PROVE u[E[k]] = Dot
        <4>1. CASE k = m - 1
          BY <2>2, <3>8, <3>9, <4>1
        <4>2. CASE k # m - 1
          <5>1. k \in 1 .. (m - 1) - 1 /\ k + 1 \in 1 .. n /\ k \in 0 .. n /\ k + 1 \in 0 .. m - 1 /\ (k + 1) - 1 = k
                /\ k \in 1 .. n /\ k - 1 \in 0 .. n
            BY <4>2, <2>1
          <5>2. PICK x \in Nat, y \in 1 .. 63 :
                    x = E[k] /\ y = Len(labels[k + 1]) /\ E[k + 1] = x + y + 1
            BY <5>1, ZenonT(30) DEF Offsets
          <5>3. E[k + 1] <= a
            BY <2>1, <2>2, <5>1, OffsetsGrow
          <5>4. x >= 1
            <6>1. PICK v \in Nat, w \in 1 .. 63 :
                      v = E[k - 1] /\ w = Len(labels[k]) /\ E[k] = v + w + 1
              BY <5>1, ZenonT(30) DEF Offsets
            <6> QED  BY <5>2, <6>1
          <5>5. x \in 1 .. a - 1
            BY <5>2, <5>3, <5>4
          <5>6. u[x] = s[x]
            BY <3>8, <3>9, <5>5
          <5>7. s[E[k]] = Dot
            BY <3>2, <3>3, <5>1 DEF TextOf
          <5> QED  BY <5>2, <5>6, <5>7
        <4> QED  BY <4>1, <4>2
      <3>12. Len(u) = E[m] - 1
        BY <2>2, <3>8, <3>9
      <3>13. TextOf(u, E, labels, m)
        BY <3>9, <3>10, <3>11, <3>12 DEF TextOf
      <3> QED  BY <2>1, <3>7, <3>13
    <2> QED  BY <2>5, <2>6
  <1>3. \A m \in 0 .. n : m \in B
    <2>1. n \in Nat
      BY DEF Offsets
    <2> HIDE DEF B
    <2> QED  BY <1>1, <1>2, <2>1, NatUp
  <1>4. ASSUME NEW m \in 1 .. n PROVE m \in 0 .. n /\ m > 0
    BY DEF Offsets
  <1> QED  BY <1>3, <1>4

LEMMA OffsetsExist ==
    ASSUME NEW n \in Nat \ {0}, NEW labels \in Seq(Seq(Octet \ {0, Dot})), Len(labels) = n,
           \A k \in 1 .. n : Len(labels[k]) \in 1 .. 63
    PROVE  \E E : Offsets(E, labels, n)
  <1> DEFINE g == [x \in Nat \X (1 .. n) |-> x[1] + Len(labels[x[2]]) + 1]
  <1>0. \A k \in 1 .. n : Len(labels[k]) \in Nat
    OBVIOUS
  <1>1. IsStep(g, n, Nat, 0)
    BY <1>0 DEF IsStep
  <1>2. \A x \in Nat, k \in 1 .. n : g[<<x, k>>] = x + Len(labels[k]) + 1
    OBVIOUS
  <1> HIDE DEF g
  <1>3. PICK E : IsWalk(E, n, Nat, 0, g)
    <2>1. n \in Nat
      OBVIOUS
    <2> QED  BY <1>1, <2>1, WalkExists
  <1>4. ASSUME NEW k \in 1 .. n PROVE E[k] = E[k - 1] + Len(labels[k]) + 1
    <2>1. k - 1 \in 0 .. n
      OBVIOUS
    <2>2. E[k - 1] \in Nat /\ E[k] = g[<<E[k - 1], k>>]
      BY <1>3, <2>1 DEF IsWalk
    <2> QED  BY <1>2, <2>2
  <1>5. E \in [0 .. n -> Nat] /\ E[0] = 0
    BY <1>3 DEF IsWalk
  <1>6. Offsets(E, labels, n)
    BY <1>4, <1>5 DEF Offsets
  <1> QED  BY <1>6

\* The bytes of the first m labels, each behind its length.
BytesOf(w, E, labels, m) ==
    \A k \in 1 .. m :
        /\ w[E[k - 1] + 1] = Len(labels[k])
        /\ \A j \in 1 .. Len(labels[k]) : w[E[k - 1] + 1 + j] = labels[k][j]

LEMMA LengthIsOctet == 1 .. 63 \subseteq Octet
  BY DEF Octet

\* A label's own bytes.
LabelBytes(s, b, l) ==
    /\ s \in Seq(Octet) /\ Len(s) = b + 1
    /\ s[1] = b /\ \A j \in 1 .. b : s[1 + j] = l[j]

LEMMA LabelBytesIs ==
    ASSUME NEW l \in Seq(Octet), NEW b \in 1 .. 63, b = Len(l), NEW s, s = <<b>> \o l
    PROVE  LabelBytes(s, b, l)
  <1>1. PICK d, o : d = <<b>> /\ o = 1
    OBVIOUS
  <1>2. d \in Seq(Octet) /\ Len(d) = o /\ d[1] = b /\ o \in Nat /\ b \in Nat
    <2>1. b \in Octet
      BY LengthIsOctet
    <2> QED  BY <1>1, <2>1
  <1>3. /\ s \in Seq(Octet) /\ Len(s) = o + b
        /\ \A i \in 1 .. o : s[i] = d[i]
        /\ \A j \in 1 .. b : s[o + j] = l[j]
    <2>1. s = d \o l
      BY <1>1
    <2> QED  BY <1>2, <2>1, JoinIs
  <1>4. 1 \in 1 .. o /\ o + b = b + 1
    BY <1>1
  <1> QED  BY <1>1, <1>2, <1>3, <1>4 DEF LabelBytes

LEMMA WireIs ==
    ASSUME NEW E, NEW labels, NEW n, Offsets(E, labels, n), NEW ss,
           ss = [i \in DOMAIN labels |-> <<Len(labels[i])>> \o labels[i]],
           NEW f \in [0 .. n -> Seq(Octet)], f[0] = <<>>,
           \A k \in 1 .. n : f[k] = f[k - 1] \o ss[k]
    PROVE  \A m \in 0 .. n : Len(f[m]) = E[m] /\ BytesOf(f[m], E, labels, m)
  <1> DEFINE B == {m \in 0 .. n : Len(f[m]) = E[m] /\ BytesOf(f[m], E, labels, m)}
  <1>. n \in Nat
    BY DEF Offsets
  <1>0. \A k \in 1 .. n : labels[k] \in Seq(Octet)
    <2>1. ASSUME NEW k \in 1 .. n PROVE labels[k] \in Seq(Octet)
      <3>1. labels[k] \in Seq(Octet \ {0, Dot})
        BY ElementOfSeq DEF Offsets
      <3>2. Octet \ {0, Dot} \subseteq Octet
        OBVIOUS
      <3> QED  BY <3>1, <3>2, SeqMonotonic
    <2> QED  BY <2>1
  <1>1. 0 \in B
    <2>1. Len(f[0]) = 0 /\ E[0] = 0
      BY DEF Offsets
    <2> QED  BY <2>1 DEF BytesOf
  <1>2. ASSUME NEW m \in 1 .. n, m - 1 \in B PROVE m \in B
    <2>1. m - 1 \in 0 .. n /\ m \in 0 .. n
      OBVIOUS
    <2>2. PICK a \in Nat, l \in 1 .. 63 : a = E[m - 1] /\ l = Len(labels[m]) /\ E[m] = a + l + 1
      BY <2>1 DEF Offsets
    <2>3. PICK t : t = labels[m] /\ t \in Seq(Octet) /\ l = Len(t)
      BY <1>0, <2>2
    <2>4. PICK v : v = ss[m]
      OBVIOUS
    <2>5. v = <<l>> \o t
      <3>1. m \in DOMAIN labels
        BY LenProperties DEF Offsets
      <3> QED  BY <2>3, <2>4, <3>1
    <2>6. v \in Seq(Octet) /\ Len(v) = l + 1 /\ v[1] = l /\ \A j \in 1 .. l : v[1 + j] = t[j]
      <3>1. LabelBytes(v, l, t)
        BY <2>3, <2>5, LabelBytesIs
      <3> QED  BY <3>1 DEF LabelBytes
    <2>7. PICK s, u : s = f[m - 1] /\ u = f[m]
      OBVIOUS
    <2>8. s \in Seq(Octet) /\ Len(s) = a /\ BytesOf(s, E, labels, m - 1) /\ u = s \o v
      BY <1>2, <2>1, <2>2, <2>4, <2>7
    <2>9. PICK b \in Nat : b = l + 1
      OBVIOUS
    <2>10. /\ u \in Seq(Octet) /\ Len(u) = a + b
           /\ \A i \in 1 .. a : u[i] = s[i]
           /\ \A j \in 1 .. b : u[a + j] = v[j]
      <3>1. b = Len(v) /\ v \in Seq(Octet)
        BY <2>6, <2>9
      <3>2. s \in Seq(Octet) /\ a = Len(s) /\ u = s \o v
        BY <2>8
      <3> QED  BY <3>1, <3>2, JoinIs
    <2>11. Len(u) = E[m]
      <3>1. Len(u) = a + b
      BY <2>10
    <3>2. E[m] = a + l + 1
      BY <2>2
    <3> QED  BY <2>9, <3>1, <3>2
    <2>12. ASSUME NEW k \in 1 .. m
           PROVE  /\ u[E[k - 1] + 1] = Len(labels[k])
                  /\ \A j \in 1 .. Len(labels[k]) : u[E[k - 1] + 1 + j] = labels[k][j]
      <3>1. CASE k = m
        <4>1. u[a + 1] = l
          BY <2>6, <2>9, <2>10
        <4>2. ASSUME NEW j \in 1 .. l PROVE u[a + 1 + j] = t[j]
          <5>1. 1 + j \in 1 .. b /\ a + (1 + j) = a + 1 + j
            BY <2>9
          <5> QED  BY <2>6, <2>10, <5>1
        <4> QED  BY <2>2, <2>3, <3>1, <4>1, <4>2
      <3>2. CASE k # m
        <4>1. k \in 1 .. m - 1 /\ k - 1 \in 0 .. n /\ k \in 1 .. n /\ k \in 0 .. m - 1
          BY <3>2
        <4>2. PICK x \in Nat, y \in 1 .. 63 : x = E[k - 1] /\ y = Len(labels[k]) /\ E[k] = x + y + 1
          BY <4>1, ZenonT(30) DEF Offsets
        <4>3. x + y + 1 <= a
          BY <2>1, <2>2, <4>1, <4>2, OffsetsGrow
        <4>4. s[x + 1] = y /\ \A j \in 1 .. y : s[x + 1 + j] = labels[k][j]
          BY <2>8, <4>1, <4>2 DEF BytesOf
        <4>5. x + 1 \in 1 .. a /\ \A j \in 1 .. y : x + 1 + j \in 1 .. a
          BY <4>3
        <4> QED  BY <2>10, <4>2, <4>4, <4>5
      <3> QED  BY <3>1, <3>2
    <2>13. BytesOf(u, E, labels, m)
      BY <2>12 DEF BytesOf
    <2> QED  BY <2>1, <2>7, <2>11, <2>13
  <1>3. \A m \in 0 .. n : m \in B
    <2> HIDE DEF B
    <2> QED  BY <1>1, <1>2, NatUp
  <1> QED  BY <1>3

\* A question's wire: its name, the byte that ends it, and four more at least.
Encodes(w, E, labels, n) ==
    /\ w \in Seq(Octet) /\ Len(w) >= E[n] + 5
    /\ BytesOf(w, E, labels, n) /\ w[E[n] + 1] = 0

LEMMA SpelledOut ==
    ASSUME NEW labels, NEW w \in Seq(Octet), labels # <<>>, Spells(labels, w)
    PROVE  \E n, E, D : Offsets(E, labels, n) /\ Spelling(D, labels, n) /\ Encodes(w, E, labels, n)
  <1>1. PICK n \in Nat \ {0} : n = Len(labels)
    BY EmptySeq DEF Spells
  <1>2. /\ labels \in Seq(Seq(Octet \ {0, Dot})) /\ DOMAIN labels = 1 .. n
        /\ \A k \in 1 .. n : Len(labels[k]) \in 1 .. 63
        /\ IsPrefix(LabelsBytes(labels), w) /\ Len(w) >= Len(LabelsBytes(labels)) + 4
    <2>1. labels \in Seq(Seq(Octet \ {0, Dot})) /\ \A l \in Range(labels) : Len(l) \in 1 .. 63
      BY DEF Spells
    <2>2. DOMAIN labels = 1 .. n
      BY <1>1, <2>1, LenProperties
    <2> QED  BY <2>1, <2>2 DEF Spells, Range
  <1>3. PICK E : Offsets(E, labels, n)
    BY <1>1, <1>2, OffsetsExist
  <1>4. labels \in Seq(Seq(Octet))
    <2>1. Seq(Octet \ {0, Dot}) \subseteq Seq(Octet)
      <3>1. Octet \ {0, Dot} \subseteq Octet
        OBVIOUS
      <3> QED  BY <3>1, SeqMonotonic
    <2> QED  BY <1>2, <2>1, SeqMonotonic
  <1>5. PICK D : Spelling(D, labels, n)
    BY <1>1, <1>4, DottedSteps
  <1>6. PICK ss : ss = [i \in DOMAIN labels |-> <<Len(labels[i])>> \o labels[i]]
    OBVIOUS
  <1>7. ss \in Seq(Seq(Octet)) /\ Len(ss) = n
    <2>1. ASSUME NEW i \in 1 .. n PROVE <<Len(labels[i])>> \o labels[i] \in Seq(Octet)
      <3>1. labels[i] \in Seq(Octet)
        BY <1>1, <1>4, ElementOfSeq
      <3>2. PICK b, l : b \in 1 .. 63 /\ b = Len(labels[i]) /\ l = labels[i]
        BY <1>2
      <3> QED  BY <3>1, <3>2, LabelBytesIs DEF LabelBytes
    <2>2. ss \in [1 .. n -> Seq(Octet)]
      BY <1>2, <1>6, <2>1
    <2>3. n \in Nat
      OBVIOUS
    <2> QED  BY <2>2, <2>3, FunSeq
  <1>8. PICK f \in [0 .. n -> Seq(Octet)] :
            /\ f[0] = <<>> /\ f[n] = FlattenSeq(ss)
            /\ \A k \in 1 .. n : f[k] = f[k - 1] \o ss[k]
    <2>1. n \in Nat \ {0} /\ ss \in Seq(Seq(Octet)) /\ Len(ss) = n
      BY <1>7
    <2>2. PICK f : EndToEnd(f, ss, n, Octet)
      BY <2>1, FlattenSteps
    <2> QED  BY <2>2 DEF EndToEnd
  <1>9. Len(f[n]) = E[n] /\ BytesOf(f[n], E, labels, n)
    <2>1. n \in 0 .. n
      OBVIOUS
    <2> QED  BY <1>3, <1>6, <1>8, <2>1, WireIs, ZenonT(30)
  <1>10. PICK s, z, u : s = f[n] /\ z = <<0>> /\ u = s \o z
    OBVIOUS
  <1>11. PICK e \in Nat, o \in Nat : e = E[n] /\ o = 1
    <2>1. n \in 0 .. n /\ E \in [0 .. n -> Nat]
      BY <1>3, SMTT(30) DEF Offsets
    <2> QED  BY <2>1
  <1>12. /\ u \in Seq(Octet) /\ Len(u) = e + o
         /\ \A i \in 1 .. e : u[i] = s[i]
         /\ \A j \in 1 .. o : u[e + j] = z[j]
    <2>1. s \in Seq(Octet) /\ Len(s) = e
      BY <1>8, <1>9, <1>10, <1>11
    <2>2. z \in Seq(Octet) /\ Len(z) = o
      BY <1>10, <1>11 DEF Octet
    <2> QED  BY <1>10, <2>1, <2>2, JoinIs
  <1>13. LabelsBytes(labels) = u
    BY <1>6, <1>8, <1>10 DEF LabelsBytes
  <1>14. e + o <= Len(w) /\ \A i \in 1 .. e + o : w[i] = u[i]
    <2>1. IsPrefix(u, w) /\ u \in Seq(Octet)
      BY <1>2, <1>12, <1>13
    <2>2. Len(u) <= Len(w) /\ \A i \in 1 .. Len(u) : u[i] = w[i]
      BY <2>1, PrefixIs
    <2> QED  BY <1>12, <2>2
  <1>15. w[e + 1] = 0
    <2>1. 1 \in 1 .. o /\ e + 1 \in 1 .. e + o
      BY <1>11
    <2> QED  BY <1>10, <1>11, <1>12, <1>14, <2>1
  <1>16. Len(w) >= e + 5
    BY <1>2, <1>11, <1>12, <1>13, LenProperties, SMTT(30)
  <1>17. BytesOf(w, E, labels, n)
    <2>1. ASSUME NEW k \in 1 .. n
          PROVE  /\ w[E[k - 1] + 1] = Len(labels[k])
                 /\ \A j \in 1 .. Len(labels[k]) : w[E[k - 1] + 1 + j] = labels[k][j]
      <3>1. k - 1 \in 0 .. n /\ k \in 0 .. n /\ n \in 0 .. n
        OBVIOUS
      <3>2. PICK x \in Nat, y \in 1 .. 63 : x = E[k - 1] /\ y = Len(labels[k]) /\ E[k] = x + y + 1
        BY <1>3, <3>1, ZenonT(30) DEF Offsets
      <3>3. x + y + 1 <= e
        BY <1>3, <1>11, <3>1, <3>2, OffsetsGrow
      <3>4. s[x + 1] = y /\ \A j \in 1 .. y : s[x + 1 + j] = labels[k][j]
        BY <1>9, <1>10, <3>2 DEF BytesOf
      <3>5. /\ x + 1 \in 1 .. e /\ x + 1 \in 1 .. e + o
            /\ \A j \in 1 .. y : x + 1 + j \in 1 .. e /\ x + 1 + j \in 1 .. e + o
        BY <3>3
      <3> QED  BY <1>12, <1>14, <3>2, <3>4, <3>5
    <2> QED  BY <2>1 DEF BytesOf
  <1>18. Encodes(w, E, labels, n)
    BY <1>11, <1>15, <1>16, <1>17 DEF Encodes
  <1> QED  BY <1>3, <1>5, <1>18

\* What the name's loop holds.
Holds(r, s, d, t) == [remain |-> r, name |-> s, done |-> d, stop |-> t]
Holding == [remain : Nat, name : Seq(Octet), done : BOOLEAN, stop : BOOLEAN]

\* What a byte makes of it, case by case.
ByteFrom(r, s, d, t, ch) ==
    /\ t = TRUE => Byte(Holds(r, s, d, t), ch) = Holds(r, s, d, t)
    /\ t = FALSE /\ r # 0 /\ Len(s) >= NAME_MAX_LEN => Byte(Holds(r, s, d, t), ch) = Holds(r, s, d, TRUE)
    /\ t = FALSE /\ r # 0 /\ ~(Len(s) >= NAME_MAX_LEN) =>
          Byte(Holds(r, s, d, t), ch) = Holds(r - 1, Append(s, LowerByte(ch)), d, FALSE)
    /\ t = FALSE /\ r = 0 /\ ch = 0 => Byte(Holds(r, s, d, t), ch) = Holds(r, s, TRUE, TRUE)
    /\ t = FALSE /\ r = 0 /\ ch >= 64 => Byte(Holds(r, s, d, t), ch) = Holds(r, s, d, TRUE)
    /\ t = FALSE /\ r = 0 /\ ch \in 1 .. 63 /\ s = <<>> =>
          Byte(Holds(r, s, d, t), ch) = Holds(ch, s, d, FALSE)
    /\ t = FALSE /\ r = 0 /\ ch \in 1 .. 63 /\ s # <<>> /\ Len(s) >= NAME_MAX_LEN =>
          Byte(Holds(r, s, d, t), ch) = Holds(ch, s, d, TRUE)
    /\ t = FALSE /\ r = 0 /\ ch \in 1 .. 63 /\ s # <<>> /\ ~(Len(s) >= NAME_MAX_LEN) =>
          Byte(Holds(r, s, d, t), ch) = Holds(ch, Append(s, Dot), d, FALSE)

LEMMA ByteIs ==
    ASSUME NEW r \in Nat, NEW s, NEW d, NEW t, NEW ch \in Nat
    PROVE  ByteFrom(r, s, d, t, ch)
  <1>1. PICK c : c = Holds(r, s, d, t)
    OBVIOUS
  <1>2. c = [remain |-> r, name |-> s, done |-> d, stop |-> t]
    BY <1>1 DEF Holds
  <1>3. c.remain = r /\ c.name = s /\ c.done = d /\ c.stop = t
    BY <1>2
  <1>4. ASSUME NEW x
        PROVE  /\ Emit(c, x) = IF Len(s) >= NAME_MAX_LEN THEN Holds(r, s, d, TRUE)
                               ELSE Holds(r, Append(s, x), d, t)
    <2>1. PICK u : u = Append(s, x)
      OBVIOUS
    <2>2. CASE Len(s) >= NAME_MAX_LEN
      <3>1. Emit(c, x) = [c EXCEPT !.stop = TRUE]
        BY <1>3, <2>2 DEF Emit
      <3> QED  BY <1>2, <2>2, <3>1 DEF Holds
    <2>3. CASE ~(Len(s) >= NAME_MAX_LEN)
      <3>1. Emit(c, x) = [c EXCEPT !.name = u]
        BY <1>3, <2>1, <2>3 DEF Emit
      <3> QED  BY <1>2, <2>1, <2>3, <3>1 DEF Holds
    <2> QED  BY <2>2, <2>3
  <1>5. t = TRUE => Byte(c, ch) = c
    BY <1>3 DEF Byte
  <1>6. ASSUME t = FALSE, r # 0
        PROVE  Byte(c, ch) = IF Len(s) >= NAME_MAX_LEN THEN Holds(r, s, d, TRUE)
                             ELSE Holds(r - 1, Append(s, LowerByte(ch)), d, FALSE)
    <2>1. PICK e : e = Emit(c, LowerByte(ch))
      OBVIOUS
    <2>2. /\ e.stop => Byte(c, ch) = e
          /\ ~e.stop => Byte(c, ch) = [e EXCEPT !.remain = e.remain - 1]
      BY <1>3, <1>6, <2>1 DEF Byte
    <2>3. CASE Len(s) >= NAME_MAX_LEN
      <3>1. e = Holds(r, s, d, TRUE)
        BY <1>4, <2>1, <2>3
      <3>2. e.stop = TRUE
        BY <3>1 DEF Holds
      <3> QED  BY <2>2, <2>3, <3>1, <3>2
    <2>4. CASE ~(Len(s) >= NAME_MAX_LEN)
      <3>1. PICK u, q : u = Append(s, LowerByte(ch)) /\ q = r - 1
        OBVIOUS
      <3>2. e = [remain |-> r, name |-> u, done |-> d, stop |-> FALSE]
        BY <1>4, <1>6, <2>1, <2>4, <3>1 DEF Holds
      <3>3. e.stop = FALSE /\ e.remain = r
        BY <3>2
      <3>4. Byte(c, ch) = [e EXCEPT !.remain = q]
        BY <2>2, <3>1, <3>3
      <3>5. Byte(c, ch) = [remain |-> q, name |-> u, done |-> d, stop |-> FALSE]
        BY <3>2, <3>4
      <3> QED  BY <2>4, <3>1, <3>5 DEF Holds
    <2> QED  BY <2>3, <2>4
  <1>7. ASSUME t = FALSE, r = 0, ch = 0 PROVE Byte(c, ch) = Holds(r, s, TRUE, TRUE)
    <2>1. Byte(c, ch) = [c EXCEPT !.done = TRUE, !.stop = TRUE]
      BY <1>3, <1>7 DEF Byte
    <2> QED  BY <1>2, <2>1 DEF Holds
  <1>8. ASSUME t = FALSE, r = 0, ch >= 64 PROVE Byte(c, ch) = Holds(r, s, d, TRUE)
    <2>1. Byte(c, ch) = [c EXCEPT !.stop = TRUE]
      BY <1>3, <1>8 DEF Byte
    <2> QED  BY <1>2, <2>1 DEF Holds
  <1>9. ASSUME t = FALSE, r = 0, ch \in 1 .. 63
        PROVE  Byte(c, ch) = IF s = <<>> THEN Holds(ch, s, d, FALSE)
                             ELSE IF Len(s) >= NAME_MAX_LEN THEN Holds(ch, s, d, TRUE)
                             ELSE Holds(ch, Append(s, Dot), d, FALSE)
    <2>1. PICK e : e = [c EXCEPT !.remain = ch]
      OBVIOUS
    <2>2. e = [remain |-> ch, name |-> s, done |-> d, stop |-> FALSE]
      BY <1>2, <1>9, <2>1
    <2>3. Byte(c, ch) = IF s = <<>> THEN e ELSE Emit(e, Dot)
      <3>1. ch # 0 /\ ~(ch >= 64)
        BY <1>9
      <3> QED  BY <1>3, <1>9, <2>1, <3>1 DEF Byte
    <2>4. Emit(e, Dot) = IF Len(s) >= NAME_MAX_LEN THEN Holds(ch, s, d, TRUE)
                         ELSE Holds(ch, Append(s, Dot), d, FALSE)
      <3>1. PICK u : u = Append(s, Dot)
        OBVIOUS
      <3>2. e.name = s
        BY <2>2
      <3>3. CASE Len(s) >= NAME_MAX_LEN
        <4>1. Emit(e, Dot) = [e EXCEPT !.stop = TRUE]
          BY <3>2, <3>3 DEF Emit
        <4> QED  BY <2>2, <3>3, <4>1 DEF Holds
      <3>4. CASE ~(Len(s) >= NAME_MAX_LEN)
        <4>1. Emit(e, Dot) = [e EXCEPT !.name = u]
          BY <3>1, <3>2, <3>4 DEF Emit
        <4> QED  BY <2>2, <3>1, <3>4, <4>1 DEF Holds
      <3> QED  BY <3>3, <3>4
    <2> QED  BY <2>2, <2>3, <2>4 DEF Holds
  <1> QED  BY <1>1, <1>5, <1>6, <1>7, <1>8, <1>9 DEF ByteFrom

\* It keeps its types.
LEMMA ByteTyped ==
    ASSUME NEW c \in Holding, NEW ch \in Octet
    PROVE  Byte(c, ch) \in Holding
  <1>1. PICK r \in Nat, s \in Seq(Octet), d \in BOOLEAN, t \in BOOLEAN : c = Holds(r, s, d, t)
    BY DEF Holding, Holds
  <1>2. ch \in Nat /\ (ch = 0 \/ ch >= 64 \/ ch \in 1 .. 63)
    BY DEF Octet
  <1>3. ByteFrom(r, s, d, t, ch)
    <2>1. ch \in Nat
      BY <1>2
    <2> QED  BY <2>1, ByteIs
  <1>4. LowerByte(ch) \in Octet /\ Dot \in Octet
    <2>1. LowerByte(ch) \in Octet
      BY LowerByteIs
    <2> QED  BY <2>1 DEF Dot, Octet
  <1>5. Append(s, LowerByte(ch)) \in Seq(Octet) /\ Append(s, Dot) \in Seq(Octet)
    BY <1>4, AppendProperties
  <1>6. \A r0 \in Nat, s0 \in Seq(Octet), d0 \in BOOLEAN, t0 \in BOOLEAN :
            Holds(r0, s0, d0, t0) \in Holding
    BY DEF Holds, Holding
  <1>7. r # 0 => r - 1 \in Nat
    OBVIOUS
  <1>8. PICK u, v, b : u = Append(s, LowerByte(ch)) /\ v = Append(s, Dot) /\ b = Byte(c, ch)
    OBVIOUS
  <1>9. \/ b = Holds(r, s, d, t) \/ b = Holds(r, s, d, TRUE) \/ (r # 0 /\ b = Holds(r - 1, u, d, FALSE))
        \/ b = Holds(r, s, TRUE, TRUE) \/ b = Holds(ch, s, d, FALSE) \/ b = Holds(ch, s, d, TRUE)
        \/ b = Holds(ch, v, d, FALSE)
    BY <1>1, <1>2, <1>3, <1>8 DEF ByteFrom
  <1>10. u \in Seq(Octet) /\ v \in Seq(Octet)
    BY <1>5, <1>8
  <1>11. b \in Holding
    BY <1>2, <1>6, <1>7, <1>9, <1>10
  <1> QED  BY <1>8, <1>11

\* The bytes one after the other.
QnameFold(it, x) ==
    it = [s \in SUBSET DOMAIN x |-> IF s = {} THEN Start ELSE Byte(it[s \ {Max(s)}], x[Max(s)])]

Reads(v, w, M) ==
    /\ v \in [0 .. M -> Holding] /\ v[0] = Start
    /\ \A p \in 1 .. M : v[p] = Byte(v[p - 1], w[p])

LEMMA ByteSteps ==
    ASSUME NEW x \in Seq(Octet), NEW M \in Nat, DOMAIN x = 1 .. M, \A k \in 1 .. M : x[k] \in Octet
    PROVE  \E v : Reads(v, x, M) /\ FoldLeft(Byte, Start, x) = v[M]
  <1> DEFINE V == Holding
             g == [y \in V \X (1 .. M) |-> Byte(y[1], x[y[2]])]
  <1>0. ASSUME NEW c \in V, NEW k \in 1 .. M PROVE Byte(c, x[k]) \in V
    BY ByteTyped
  <1>3. Start \in V
    BY EmptySeq DEF Start, Holding
  <1> HIDE DEF V
  <1>4. IsStep(g, M, V, Start)
    BY <1>0, <1>3 DEF IsStep
  <1>5. \A c \in V, k \in 1 .. M : g[<<c, k>>] = Byte(c, x[k])
    OBVIOUS
  <1> HIDE DEF g
  <1>6. ASSUME NEW s \in SUBSET (1 .. M), s # {} PROVE Max(s) \in 1 .. M
    <2>1. s \subseteq 0 .. M
      OBVIOUS
    <2> QED  BY <1>6, <2>1, MaxIs
  <1>7. PICK h \in [SUBSET (1 .. M) -> V] : IsFold(h, M, Start, g)
    BY <1>4, FoldExists
  <1>8. QnameFold(h, x)
    <2>1. ASSUME NEW s \in SUBSET (1 .. M), s # {}
          PROVE  h[s] = Byte(h[s \ {Max(s)}], x[Max(s)])
      <3>1. h[s \ {Max(s)}] \in V
        OBVIOUS
      <3>2. h[s] = g[<<h[s \ {Max(s)}], Max(s)>>]
        BY <1>7, <2>1 DEF IsFold
      <3> QED  BY <1>5, <1>6, <2>1, <3>1, <3>2
    <2>2. h[{}] = Start
      BY <1>7 DEF IsFold
    <2> QED  BY <1>7, <2>1, <2>2 DEF QnameFold
  <1>9. PICK it : it = CHOOSE i0 : QnameFold(i0, x)
    OBVIOUS
  <1>10. QnameFold(it, x)
    BY <1>8, <1>9
  <1>11. FoldLeft(Byte, Start, x) = it[1 .. M]
    BY <1>9 DEF FoldLeft, MapThenFoldSet, QnameFold
  <1>12. it[{}] = Start
    BY <1>10 DEF QnameFold
  <1>13. ASSUME NEW s \in SUBSET (1 .. M), s # {}, it[s \ {Max(s)}] \in V
         PROVE  it[s] = g[<<it[s \ {Max(s)}], Max(s)>>]
    <2>1. it[s] = Byte(it[s \ {Max(s)}], x[Max(s)])
      BY <1>10, <1>13 DEF QnameFold
    <2> QED  BY <1>5, <1>6, <1>13, <2>1
  <1>14. PICK v : IsWalk(v, M, V, Start, g) /\ v[M] = it[1 .. M]
    <2>1. Unrolls(it, M, V, Start, g)
      BY <1>12, <1>13 DEF Unrolls
    <2> QED  BY <1>4, <2>1, FoldSteps
  <1>15. ASSUME NEW k \in 1 .. M PROVE v[k] = Byte(v[k - 1], x[k])
    <2>1. v[k - 1] \in V
      <3>1. k - 1 \in 0 .. M
        OBVIOUS
      <3> QED  BY <1>14, <3>1 DEF IsWalk
    <2>2. v[k] = g[<<v[k - 1], k>>]
      BY <1>14 DEF IsWalk
    <2> QED  BY <1>5, <2>1, <2>2
  <1>16. v \in [0 .. M -> V] /\ v[0] = Start
    BY <1>14 DEF IsWalk
  <1>17. Reads(v, x, M)
    BY <1>15, <1>16 DEF V, Reads
  <1> QED  BY <1>11, <1>14, <1>17

\* The beginning of a sequence.
LEMMA CutIs ==
    ASSUME NEW S, NEW s \in Seq(S), NEW n \in Nat, n = Len(s), NEW m \in 0 .. n, NEW u, u = SubSeq(s, 1, m)
    PROVE  u \in Seq(S) /\ Len(u) = m /\ \A i \in 1 .. m : u[i] = s[i]
  <1>1. \A i \in 1 .. m : s[i] \in S
    <2>1. ASSUME NEW i \in 1 .. m PROVE i \in 1 .. n
      OBVIOUS
    <2> QED  BY <2>1, ElementOfSeq
  <1>2. m \in Nat
    OBVIOUS
  <1> QED  BY <1>1, <1>2, SubSeqProperties

LEMMA QnameSteps ==
    ASSUME NEW w \in Seq(Octet), NEW n \in Nat, n = Len(w), NEW M \in 0 .. n,
           M = Min({Len(w), PKT_BUF, NAME_MAX_LEN + 3})
    PROVE  \E v : Reads(v, w, M) /\ Qname(w) = v[M]
  <1>1. PICK x : x = SubSeq(w, 1, M)
    OBVIOUS
  <1>2. Qname(w) = FoldLeft(Byte, Start, x)
    BY <1>1 DEF Qname
  <1>3. PICK m \in 0 .. n : m = M
    OBVIOUS
  <1>4. x \in Seq(Octet) /\ Len(x) = m /\ \A i \in 1 .. m : x[i] = w[i]
    <2>1. x = SubSeq(w, 1, m)
      BY <1>1, <1>3
    <2> QED  BY <2>1, CutIs
  <1>5. DOMAIN x = 1 .. m /\ m \in Nat /\ \A k \in 1 .. m : x[k] \in Octet
    BY <1>4, LenProperties, ElementOfSeq
  <1>6. PICK v : Reads(v, x, m) /\ FoldLeft(Byte, Start, x) = v[m]
    BY <1>4, <1>5, ByteSteps
  <1>7. Reads(v, w, m)
    BY <1>4, <1>6 DEF Reads
  <1> QED  BY <1>2, <1>3, <1>6, <1>7

\* The name's loop has read a bytes of the text T and waits for r more of a label; or it has given
\* up; or it has seen the name's end.
Going(c, T, r, a) ==
    /\ c.remain = r /\ c.done = FALSE /\ c.stop = FALSE
    /\ c.name \in Seq(Octet) /\ Len(c.name) = a /\ \A i \in 1 .. a : c.name[i] = T[i]
Broken(c) == c.done = FALSE /\ c.stop = TRUE
Ended(c, T) == c.done = TRUE /\ c.stop = TRUE /\ c.name = T

LEMMA MoreIs ==
    ASSUME NEW s \in Seq(Octet), NEW a \in Nat, a = Len(s), NEW T, \A i \in 1 .. a : s[i] = T[i],
           NEW x \in Octet, x = T[a + 1], NEW u, u = Append(s, x)
    PROVE  u \in Seq(Octet) /\ Len(u) = a + 1 /\ \A i \in 1 .. a + 1 : u[i] = T[i]
  <1>1. u \in Seq(Octet) /\ Len(u) = a + 1 /\ u[a + 1] = x /\ \A i \in 1 .. a : u[i] = s[i]
    BY AppendProperties
  <1>2. ASSUME NEW i \in 1 .. a + 1 PROVE u[i] = T[i]
    <2>1. i = a + 1 \/ i \in 1 .. a
      OBVIOUS
    <2> QED  BY <1>1, <2>1
  <1> QED  BY <1>1, <1>2

LEMMA GoingIs ==
    ASSUME NEW c \in Holding, NEW T, NEW r, NEW a, Going(c, T, r, a)
    PROVE  c = Holds(r, c.name, FALSE, FALSE)
  <1>1. PICK r0 \in Nat, s \in Seq(Octet), d \in BOOLEAN, t \in BOOLEAN :
            c = [remain |-> r0, name |-> s, done |-> d, stop |-> t]
    BY DEF Holding
  <1>2. r0 = r /\ d = FALSE /\ t = FALSE /\ s = c.name
    BY <1>1 DEF Going
  <1> QED  BY <1>1, <1>2 DEF Holds

\* Another byte of a label.
LEMMA ReadLabel ==
    ASSUME NEW c \in Holding, NEW T, NEW r \in Nat, r # 0, NEW a \in Nat, Going(c, T, r, a),
           NEW ch \in Octet
    PROVE  /\ a < NAME_MAX_LEN /\ T[a + 1] = LowerByte(ch) => Going(Byte(c, ch), T, r - 1, a + 1)
           /\ ~(a < NAME_MAX_LEN) => Broken(Byte(c, ch))
  <1>1. PICK s \in Seq(Octet) : s = c.name
    BY DEF Going
  <1>2. c = Holds(r, s, FALSE, FALSE)
    BY <1>1, GoingIs
  <1>3. ByteFrom(r, s, FALSE, FALSE, ch)
    <2>1. ch \in Nat
      BY DEF Octet
    <2> QED  BY <2>1, ByteIs
  <1>4. Len(s) = a /\ \A i \in 1 .. a : s[i] = T[i]
    BY <1>1 DEF Going
  <1>5. NAME_MAX_LEN \in Nat
    BY DnsSizesAssumption
  <1>6. ASSUME a < NAME_MAX_LEN, T[a + 1] = LowerByte(ch) PROVE Going(Byte(c, ch), T, r - 1, a + 1)
    <2>1. PICK x, u : x = LowerByte(ch) /\ u = Append(s, x)
      OBVIOUS
    <2>2. ~(Len(s) >= NAME_MAX_LEN)
      BY <1>4, <1>5, <1>6
    <2>3. Byte(c, ch) = Holds(r - 1, u, FALSE, FALSE)
      BY <1>2, <1>3, <2>1, <2>2 DEF ByteFrom
    <2>4. x \in Octet
      BY <2>1, LowerByteIs
    <2>5. u \in Seq(Octet) /\ Len(u) = a + 1 /\ \A i \in 1 .. a + 1 : u[i] = T[i]
      <3>1. a = Len(s) /\ x = T[a + 1]
        BY <1>4, <1>6, <2>1
      <3> QED  BY <1>4, <2>1, <2>4, <3>1, MoreIs
    <2> QED  BY <2>3, <2>5 DEF Going, Holds
  <1>7. ASSUME ~(a < NAME_MAX_LEN) PROVE Broken(Byte(c, ch))
    <2>1. Len(s) >= NAME_MAX_LEN
      BY <1>4, <1>5, <1>7
    <2>2. Byte(c, ch) = Holds(r, s, FALSE, TRUE)
      BY <1>2, <1>3, <2>1 DEF ByteFrom
    <2> QED  BY <2>2 DEF Broken, Holds
  <1> QED  BY <1>6, <1>7

\* A label's length: the first, and those that put a '.' before their label.
LEMMA ReadLength ==
    ASSUME NEW c \in Holding, NEW T, NEW a \in Nat, Going(c, T, 0, a), NEW ch \in 1 .. 63
    PROVE  /\ a = 0 => Going(Byte(c, ch), T, ch, 0)
           /\ a # 0 /\ a < NAME_MAX_LEN /\ T[a + 1] = Dot => Going(Byte(c, ch), T, ch, a + 1)
           /\ a # 0 /\ ~(a < NAME_MAX_LEN) => Broken(Byte(c, ch))
  <1>1. PICK s \in Seq(Octet) : s = c.name
    BY DEF Going
  <1>2. c = Holds(0, s, FALSE, FALSE)
    BY <1>1, GoingIs
  <1>3. ByteFrom(0, s, FALSE, FALSE, ch)
    <2>1. ch \in Nat
      OBVIOUS
    <2> QED  BY <2>1, ByteIs
  <1>4. Len(s) = a /\ (\A i \in 1 .. a : s[i] = T[i]) /\ (a = 0 <=> s = <<>>)
    BY <1>1, EmptySeq DEF Going
  <1>5. NAME_MAX_LEN \in Nat
    BY DnsSizesAssumption
  <1>6. ASSUME a = 0 PROVE Going(Byte(c, ch), T, ch, 0)
    <2>1. Byte(c, ch) = Holds(ch, s, FALSE, FALSE)
      BY <1>2, <1>3, <1>4, <1>6 DEF ByteFrom
    <2> QED  BY <1>4, <1>6, <2>1 DEF Going, Holds
  <1>7. ASSUME a # 0, a < NAME_MAX_LEN, T[a + 1] = Dot PROVE Going(Byte(c, ch), T, ch, a + 1)
    <2>1. PICK x, u : x = Dot /\ u = Append(s, x)
      OBVIOUS
    <2>2. ~(Len(s) >= NAME_MAX_LEN)
      BY <1>4, <1>5, <1>7
    <2>3. Byte(c, ch) = Holds(ch, u, FALSE, FALSE)
      BY <1>2, <1>3, <1>4, <1>7, <2>1, <2>2 DEF ByteFrom
    <2>4. x \in Octet
      BY <2>1 DEF Dot, Octet
    <2>5. u \in Seq(Octet) /\ Len(u) = a + 1 /\ \A i \in 1 .. a + 1 : u[i] = T[i]
      <3>1. a = Len(s) /\ x = T[a + 1]
        BY <1>4, <1>7, <2>1
      <3> QED  BY <1>4, <2>1, <2>4, <3>1, MoreIs
    <2> QED  BY <2>3, <2>5 DEF Going, Holds
  <1>8. ASSUME a # 0, ~(a < NAME_MAX_LEN) PROVE Broken(Byte(c, ch))
    <2>1. Len(s) >= NAME_MAX_LEN
      BY <1>4, <1>5, <1>8
    <2>2. Byte(c, ch) = Holds(ch, s, FALSE, TRUE)
      BY <1>2, <1>3, <1>4, <1>8, <2>1 DEF ByteFrom
    <2> QED  BY <2>2 DEF Broken, Holds
  <1> QED  BY <1>6, <1>7, <1>8

\* The byte that ends the name, and the bytes behind it.
LEMMA ReadEnd ==
    ASSUME NEW c \in Holding, NEW T \in Seq(Octet), NEW a \in Nat, a = Len(T), Going(c, T, 0, a)
    PROVE  Ended(Byte(c, 0), T)
  <1>1. PICK s \in Seq(Octet) : s = c.name
    BY DEF Going
  <1>2. c = Holds(0, s, FALSE, FALSE)
    BY <1>1, GoingIs
  <1>3. ByteFrom(0, s, FALSE, FALSE, 0)
    BY ByteIs
  <1>4. s = T
    <2>1. Len(s) = a /\ \A i \in 1 .. a : s[i] = T[i]
      BY <1>1 DEF Going
    <2> QED  BY <2>1, SeqEqual
  <1>5. Byte(c, 0) = Holds(0, s, TRUE, TRUE)
    BY <1>2, <1>3 DEF ByteFrom
  <1> QED  BY <1>4, <1>5 DEF Ended, Holds

LEMMA ReadOn ==
    ASSUME NEW c \in Holding, c.stop = TRUE, NEW ch PROVE Byte(c, ch) = c
  BY DEF Byte

\* The loop has read a bytes of the name, or gives up for want of room.
Within(c, T, r, a) == IF a <= NAME_MAX_LEN THEN Going(c, T, r, a) ELSE Broken(c)

LEMMA StartGoes ==
    ASSUME NEW T PROVE Start \in Holding /\ Going(Start, T, 0, 0)
  BY EmptySeq DEF Start, Holding, Going

LEMMA StaysBroken ==
    ASSUME NEW c \in Holding, Broken(c), NEW ch PROVE Broken(Byte(c, ch))
  <1>1. c.stop = TRUE
    BY DEF Broken
  <1> QED  BY <1>1, ReadOn

LEMMA StaysEnded ==
    ASSUME NEW c \in Holding, NEW T, Ended(c, T), NEW ch PROVE Ended(Byte(c, ch), T)
  <1>1. c.stop = TRUE
    BY DEF Ended
  <1> QED  BY <1>1, ReadOn

LEMMA WithinLabel ==
    ASSUME NEW c \in Holding, NEW T, NEW r \in Nat, NEW a \in Nat, NEW r1 \in Nat, NEW a1 \in Nat,
           r = r1 + 1, a1 = a + 1, Within(c, T, r, a), NEW ch \in Octet, T[a1] = LowerByte(ch)
    PROVE  Within(Byte(c, ch), T, r1, a1)
  <1>1. NAME_MAX_LEN \in Nat
    BY DnsSizesAssumption
  <1>2. r # 0 /\ r - 1 = r1 /\ a + 1 = a1
    OBVIOUS
  <1>3. CASE a < NAME_MAX_LEN
    <2>1. Going(c, T, r, a)
      BY <1>1, <1>3 DEF Within
    <2>2. Going(Byte(c, ch), T, r - 1, a + 1)
      BY <1>2, <1>3, <2>1, ReadLabel
    <2>3. Going(Byte(c, ch), T, r1, a1) /\ a1 <= NAME_MAX_LEN
      BY <1>1, <1>2, <1>3, <2>2
    <2> QED  BY <2>3 DEF Within
  <1>4. CASE a = NAME_MAX_LEN
    <2>1. Going(c, T, r, a) /\ ~(a < NAME_MAX_LEN)
      BY <1>1, <1>4 DEF Within
    <2>2. Broken(Byte(c, ch))
      BY <1>2, <2>1, ReadLabel
    <2>3. ~(a1 <= NAME_MAX_LEN)
      BY <1>1, <1>4
    <2> QED  BY <2>2, <2>3 DEF Within
  <1>5. CASE a > NAME_MAX_LEN
    <2>1. Broken(c) /\ ~(a1 <= NAME_MAX_LEN)
      BY <1>1, <1>5 DEF Within
    <2> QED  BY <2>1, StaysBroken DEF Within
  <1> QED  BY <1>1, <1>3, <1>4, <1>5

LEMMA WithinFirst ==
    ASSUME NEW c \in Holding, NEW T, Going(c, T, 0, 0), NEW ch \in 1 .. 63
    PROVE  Within(Byte(c, ch), T, ch, 0)
  <1>1. 0 <= NAME_MAX_LEN
    BY DnsSizesAssumption
  <1>2. Going(Byte(c, ch), T, ch, 0)
    BY ReadLength
  <1> QED  BY <1>1, <1>2 DEF Within

LEMMA WithinNext ==
    ASSUME NEW c \in Holding, NEW T, NEW a \in Nat, a # 0, NEW a1 \in Nat, a1 = a + 1,
           Within(c, T, 0, a), NEW ch \in 1 .. 63, T[a1] = Dot
    PROVE  Within(Byte(c, ch), T, ch, a1)
  <1>1. NAME_MAX_LEN \in Nat
    BY DnsSizesAssumption
  <1>2. CASE a < NAME_MAX_LEN
    <2>1. Going(c, T, 0, a) /\ T[a + 1] = Dot
      BY <1>1, <1>2 DEF Within
    <2>2. Going(Byte(c, ch), T, ch, a + 1)
      BY <1>2, <2>1, ReadLength
    <2>3. Going(Byte(c, ch), T, ch, a1) /\ a1 <= NAME_MAX_LEN
      BY <1>1, <1>2, <2>2
    <2> QED  BY <2>3 DEF Within
  <1>3. CASE a = NAME_MAX_LEN
    <2>1. Going(c, T, 0, a) /\ ~(a < NAME_MAX_LEN)
      BY <1>1, <1>3 DEF Within
    <2>2. Broken(Byte(c, ch))
      BY <2>1, ReadLength
    <2>3. ~(a1 <= NAME_MAX_LEN)
      BY <1>1, <1>3
    <2> QED  BY <2>2, <2>3 DEF Within
  <1>4. CASE a > NAME_MAX_LEN
    <2>1. Broken(c) /\ ~(a1 <= NAME_MAX_LEN)
      BY <1>1, <1>4 DEF Within
    <2> QED  BY <2>1, StaysBroken DEF Within
  <1> QED  BY <1>1, <1>2, <1>3, <1>4

\* What the name's loop holds after p bytes of a question's wire.
InLabel(c, T, E, n, p) ==
    \A k \in 1 .. n : E[k - 1] < p /\ p <= E[k] => Within(c, T, E[k] - p, p - 1)
PastName(c, T, E, n) == IF E[n] - 1 <= NAME_MAX_LEN THEN Ended(c, T) ELSE Broken(c)

\* One label in the wire: its length, then its bytes.
LabelAt(T, w, k, n, x, y, z) ==
    /\ x \in Nat /\ y \in 1 .. 63 /\ z = x + y + 1 /\ z >= 2
    /\ w[x + 1] = y
    /\ \A j \in 1 .. y : T[x + j] = LowerByte(w[x + 1 + j])
    /\ k < n => T[z] = Dot
    /\ k = 1 => x = 0

LEMMA OneLabel ==
    ASSUME NEW E, NEW labels, NEW n, Offsets(E, labels, n), NEW k \in 1 .. n,
           NEW T, TextOf(T, E, labels, n), NEW w, BytesOf(w, E, labels, n),
           NEW x, x = E[k - 1], NEW z, z = E[k], NEW y, y = Len(labels[k])
    PROVE  LabelAt(T, w, k, n, x, y, z)
  <1>1. n \in Nat /\ k - 1 \in 0 .. n /\ k \in 0 .. n
    BY DEF Offsets
  <1>2. x \in Nat /\ y \in 1 .. 63 /\ z = x + y + 1
    BY <1>1 DEF Offsets
  <1>3. z >= 2
    <2>1. \A a \in Nat, b \in 1 .. 63 : a + b + 1 >= 2
      OBVIOUS
    <2>2. x + y + 1 >= 2
      BY <1>2, <2>1
    <2> QED  BY <1>2, <2>2
  <1>4. w[x + 1] = y /\ \A j \in 1 .. y : w[x + 1 + j] = labels[k][j]
    BY DEF BytesOf
  <1>5. \A j \in 1 .. y : T[x + j] = LowerByte(labels[k][j])
    BY DEF TextOf
  <1>6. k < n => T[z] = Dot
    <2>1. k < n => k \in 1 .. n - 1
      BY <1>1
    <2> QED  BY <2>1 DEF TextOf
  <1>7. k = 1 => x = 0
    BY DEF Offsets
  <1> QED  BY <1>2, <1>3, <1>4, <1>5, <1>6, <1>7 DEF LabelAt

LEMMA LabelStep ==
    ASSUME NEW E, NEW labels, NEW n, Offsets(E, labels, n), NEW T, TextOf(T, E, labels, n),
           NEW w, BytesOf(w, E, labels, n), NEW p \in Nat, p >= 1,
           NEW c \in Holding, p = 1 => Going(c, T, 0, 0), InLabel(c, T, E, n, p - 1),
           NEW ch \in Octet, ch = w[p]
    PROVE  InLabel(Byte(c, ch), T, E, n, p)
  <1>. n \in Nat \ {0}
    BY DEF Offsets
  <1>1. ASSUME NEW k \in 1 .. n, E[k - 1] < p, p <= E[k]
        PROVE  Within(Byte(c, ch), T, E[k] - p, p - 1)
    <2>1. PICK x, y, z : x = E[k - 1] /\ z = E[k] /\ y = Len(labels[k])
      OBVIOUS
    <2>2. /\ x \in Nat /\ y \in 1 .. 63 /\ z = x + y + 1
          /\ w[x + 1] = y
          /\ \A j \in 1 .. y : T[x + j] = LowerByte(w[x + 1 + j])
          /\ k = 1 => x = 0
      <3>1. LabelAt(T, w, k, n, x, y, z)
        BY <2>1, OneLabel
      <3> QED  BY <3>1 DEF LabelAt
    <2>3. x < p /\ p <= z
      BY <1>1, <2>1
    <2>4. CASE p = x + 1
      <3>1. ch = y /\ ch \in 1 .. 63 /\ p - 1 = x
        BY <2>2, <2>4
      <3>2. z - p = ch
        BY <2>2, <2>4, <3>1
      <3>3. CASE k = 1
        <4>1. x = 0 /\ p = 1
          BY <2>2, <2>4, <3>3
        <4>2. Within(Byte(c, ch), T, ch, 0)
          BY <3>1, <4>1, WithinFirst
        <4> QED  BY <2>1, <3>1, <3>2, <4>1, <4>2
      <3>4. CASE k # 1
        <4>1. PICK i \in 1 .. n : i = k - 1 /\ i < n
          <5>1. k - 1 \in 1 .. n /\ k - 1 < n
            BY <3>4
          <5> QED  BY <5>1
        <4>2. PICK u, t : u = E[i - 1] /\ t = Len(labels[i])
          OBVIOUS
        <4>3. u \in Nat /\ t \in 1 .. 63 /\ x = u + t + 1 /\ x >= 2 /\ T[x] = Dot
          <5>1. LabelAt(T, w, i, n, u, t, x)
            <6>1. x = E[i]
              BY <2>1, <4>1
            <6> QED  BY <4>2, <6>1, OneLabel
          <5> QED  BY <4>1, <5>1 DEF LabelAt
        <4>4. PICK a \in Nat : x = a + 1 /\ a # 0
          <5>1. x - 1 \in Nat /\ x = (x - 1) + 1 /\ x - 1 # 0
            BY <2>2, <4>3
          <5> QED  BY <5>1
        <4>5. Within(c, T, 0, a)
          <5>1. E[i - 1] < p - 1 /\ p - 1 <= E[i]
            BY <2>1, <3>1, <4>1, <4>2, <4>3, SMTT(30)
          <5>2. Within(c, T, E[i] - (p - 1), (p - 1) - 1)
            BY <5>1 DEF InLabel
          <5>3. E[i] - (p - 1) = 0 /\ (p - 1) - 1 = a
            BY <2>1, <2>2, <3>1, <4>1, <4>4
          <5> QED  BY <5>2, <5>3
        <4>6. Within(Byte(c, ch), T, ch, x)
          BY <2>2, <3>1, <4>3, <4>4, <4>5, WithinNext
        <4> QED  BY <2>1, <3>1, <3>2, <4>6
      <3> QED  BY <3>3, <3>4
    <2>5. CASE p # x + 1
      <3>1. PICK j \in 1 .. y : p = x + 1 + j
        <4>1. p - x - 1 \in 1 .. y /\ p = x + 1 + (p - x - 1)
          BY <2>2, <2>3, <2>5
        <4> QED  BY <4>1
      <3>2. PICK a \in Nat, r \in Nat, a1 \in Nat, r1 \in Nat :
                /\ a = p - 2 /\ a1 = x + j /\ a1 = a + 1 /\ r1 = z - p /\ r = r1 + 1
                /\ z - (p - 1) = r /\ (p - 1) - 1 = a /\ p - 1 = a1
        <4>1. p - 2 \in Nat /\ x + j \in Nat /\ x + j = (p - 2) + 1 /\ (p - 1) - 1 = p - 2 /\ p - 1 = x + j
          BY <2>2, <3>1
        <4>2. z - p \in Nat /\ (z - p) + 1 \in Nat /\ z - (p - 1) = (z - p) + 1
          BY <2>2, <3>1
        <4> QED  BY <4>1, <4>2
      <3>3. T[a1] = LowerByte(ch)
        BY <2>2, <3>1, <3>2
      <3>4. Within(c, T, r, a)
        <4>1. E[k - 1] < p - 1 /\ p - 1 <= E[k]
          <5>1. x < p - 1 /\ p - 1 <= z
            BY <2>2, <2>3, <3>1
          <5> QED  BY <2>1, <5>1
        <4>2. Within(c, T, E[k] - (p - 1), (p - 1) - 1)
          BY <4>1 DEF InLabel
        <4> QED  BY <2>1, <3>2, <4>2
      <3>5. Within(Byte(c, ch), T, r1, a1)
        BY <3>2, <3>3, <3>4, WithinLabel
      <3> QED  BY <2>1, <3>2, <3>5
    <2> QED  BY <2>4, <2>5
  <1> QED  BY <1>1 DEF InLabel

\* PastName the last label.
LEMMA BehindStep ==
    ASSUME NEW E, NEW labels, NEW n, Offsets(E, labels, n), NEW T, TextOf(T, E, labels, n),
           NEW w, Encodes(w, E, labels, n), NEW p \in Nat, p > E[n],
           NEW c \in Holding, InLabel(c, T, E, n, p - 1), p - 1 > E[n] => PastName(c, T, E, n),
           NEW ch \in Octet, ch = w[p]
    PROVE  PastName(Byte(c, ch), T, E, n)
  <1>. n \in Nat \ {0} /\ NAME_MAX_LEN \in Nat
    BY DnsSizesAssumption DEF Offsets
  <1>1. PICK x, y, z : x = E[n - 1] /\ z = E[n] /\ y = Len(labels[n])
    OBVIOUS
  <1>2. x \in Nat /\ y \in 1 .. 63 /\ z = x + y + 1 /\ z >= 2
    <2>1. n \in 1 .. n /\ BytesOf(w, E, labels, n)
      BY DEF Encodes
    <2>2. LabelAt(T, w, n, n, x, y, z)
      BY <1>1, <2>1, OneLabel
    <2> QED  BY <2>2 DEF LabelAt
  <1>3. CASE p = z + 1
    <2>1. PICK a \in Nat : z = a + 1
      <3>1. z - 1 \in Nat /\ z = (z - 1) + 1
        BY <1>2
      <3> QED  BY <3>1
    <2>2. ch = 0
      BY <1>1, <1>3 DEF Encodes
    <2>3. Within(c, T, 0, a)
      <3>1. E[n - 1] < p - 1 /\ p - 1 <= E[n] /\ n \in 1 .. n
        BY <1>1, <1>2, <1>3, SMTT(30)
      <3>2. Within(c, T, E[n] - (p - 1), (p - 1) - 1)
        BY <3>1 DEF InLabel
      <3>3. E[n] - (p - 1) = 0 /\ (p - 1) - 1 = a
        BY <1>1, <1>2, <1>3, <2>1
      <3> QED  BY <3>2, <3>3
    <2>4. E[n] - 1 = a
      BY <1>1, <2>1
    <2>5. CASE a <= NAME_MAX_LEN
      <3>1. T \in Seq(Octet) /\ a = Len(T)
        BY <2>4 DEF TextOf
      <3>2. Going(c, T, 0, a)
        BY <2>3, <2>5 DEF Within
      <3>3. Ended(Byte(c, 0), T)
        BY <3>1, <3>2, ReadEnd
      <3> QED  BY <2>2, <2>4, <2>5, <3>3 DEF PastName
    <2>6. CASE ~(a <= NAME_MAX_LEN)
      <3>1. Broken(Byte(c, ch))
        BY <2>3, <2>6, StaysBroken DEF Within
      <3> QED  BY <2>4, <2>6, <3>1 DEF PastName
    <2> QED  BY <2>5, <2>6
  <1>4. CASE p # z + 1
    <2>1. PastName(c, T, E, n)
      <3>1. p - 1 > z
        <4>1. p > z
          BY <1>1
        <4> QED  BY <1>2, <1>4, <4>1
      <3> QED  BY <1>1, <3>1
    <2> QED  BY <2>1, StaysBroken, StaysEnded DEF PastName
  <1> QED  BY <1>3, <1>4

\* What the loop holds after p bytes of a question's wire.
NameAt(c, T, E, n, p) ==
    InLabel(c, T, E, n, p) /\ (p > E[n] => PastName(c, T, E, n))

LEMMA NameSteps ==
    ASSUME NEW E, NEW labels, NEW n, Offsets(E, labels, n), NEW T, TextOf(T, E, labels, n),
           NEW w, Encodes(w, E, labels, n), NEW l \in Nat, l = Len(w), NEW M \in 0 .. l,
           NEW v, Reads(v, w, M)
    PROVE  \A p \in 0 .. M : NameAt(v[p], T, E, n, p)
  <1>. n \in Nat \ {0}
    BY DEF Offsets
  <1> DEFINE B == {p \in 0 .. M : NameAt(v[p], T, E, n, p)}
  <1>1. 0 \in B
    <2>1. \A k \in 0 .. n : E[k] \in Nat
      BY DEF Offsets
    <2>2. \A k \in 1 .. n : ~(E[k - 1] < 0)
      BY <2>1
    <2>3. ~(0 > E[n])
      BY <2>1
    <2> QED  BY <2>2, <2>3 DEF NameAt, InLabel
  <1>2. ASSUME NEW p \in 1 .. M, p - 1 \in B PROVE p \in B
    <2>1. PICK c \in Holding : c = v[p - 1]
      <3>1. p - 1 \in 0 .. M
        OBVIOUS
      <3> QED  BY <3>1 DEF Reads
    <2>2. PICK ch \in Octet : ch = w[p]
      <3>1. p \in 1 .. l
        OBVIOUS
      <3> QED  BY <3>1, ElementOfSeq DEF Encodes
    <2>3. v[p] = Byte(c, ch)
      BY <2>1, <2>2 DEF Reads
    <2>4. p = 1 => Going(c, T, 0, 0)
      BY <2>1, StartGoes DEF Reads
    <2>5. InLabel(c, T, E, n, p - 1) /\ (p - 1 > E[n] => PastName(c, T, E, n))
      BY <1>2, <2>1 DEF NameAt
    <2>6. BytesOf(w, E, labels, n)
      BY DEF Encodes
    <2>7. p \in Nat /\ p >= 1
      OBVIOUS
    <2>8. InLabel(v[p], T, E, n, p)
      BY <2>2, <2>3, <2>4, <2>5, <2>6, <2>7, LabelStep
    <2>9. p > E[n] => PastName(v[p], T, E, n)
      BY <2>2, <2>3, <2>5, <2>7, BehindStep
    <2> QED  BY <2>8, <2>9 DEF NameAt
  <1>3. \A p \in 0 .. M : p \in B
    <2>1. M \in Nat
      OBVIOUS
    <2> HIDE DEF B
    <2> QED  BY <1>1, <1>2, <2>1, NatUp
  <1> QED  BY <1>3

\* The whole loop: the name it finds, and none that is too long.
LEMMA QnameIs ==
    ASSUME NEW E, NEW labels, NEW n, Offsets(E, labels, n), NEW T, TextOf(T, E, labels, n),
           NEW w, Encodes(w, E, labels, n)
    PROVE  IF Len(T) <= NAME_MAX_LEN THEN Ended(Qname(w), T) ELSE Qname(w).done = FALSE
  <1>. n \in Nat \ {0} /\ NAME_MAX_LEN \in Nat /\ PKT_BUF \in Nat /\ PKT_BUF >= NAME_MAX_LEN + 3
    BY DnsSizesAssumption DEF Offsets
  <1>1. PICK l \in Nat : l = Len(w)
    BY LenProperties DEF Encodes
  <1>2. PICK e \in Nat : e = E[n]
    BY DEF Offsets
  <1>3. PICK S : S = {Len(w), PKT_BUF, NAME_MAX_LEN + 3}
    OBVIOUS
  <1>4. Min(S) \in S /\ \A i \in S : Min(S) <= i
    <2>1. S \subseteq Nat /\ S # {}
      BY <1>1, <1>3
    <2> QED  BY <2>1, MinIs
  <1>5. PICK M \in Nat : M = Min(S)
    <2>1. Min(S) \in Nat
      BY <1>1, <1>3, <1>4
    <2> QED  BY <2>1
  <1>6. M \in 0 .. l /\ (M = l \/ M = PKT_BUF \/ M = NAME_MAX_LEN + 3)
    <2>1. M <= l
      BY <1>1, <1>3, <1>4, <1>5
    <2>2. M = l \/ M = PKT_BUF \/ M = NAME_MAX_LEN + 3
      BY <1>1, <1>3, <1>4, <1>5
    <2> QED  BY <2>1, <2>2
  <1>7. w \in Seq(Octet) /\ l >= e + 5
    BY <1>1, <1>2 DEF Encodes
  <1>8. PICK v : Reads(v, w, M) /\ Qname(w) = v[M]
    <2>1. M = Min({Len(w), PKT_BUF, NAME_MAX_LEN + 3})
      BY <1>3, <1>5
    <2> QED  BY <1>1, <1>6, <1>7, <2>1, QnameSteps
  <1>9. \A p \in 0 .. M : NameAt(v[p], T, E, n, p)
    BY <1>1, <1>6, <1>8, NameSteps
  <1>10. NameAt(v[M], T, E, n, M)
    <2>1. M \in 0 .. M
      OBVIOUS
    <2> QED  BY <1>9, <2>1
  <1>11. Len(T) = e - 1
    BY <1>2 DEF TextOf
  <1>12. CASE e - 1 <= NAME_MAX_LEN
    <2>1. M > e
      BY <1>6, <1>7, <1>12
    <2>2. PastName(v[M], T, E, n)
      BY <1>2, <1>10, <2>1 DEF NameAt
    <2> QED  BY <1>2, <1>8, <1>11, <1>12, <2>2 DEF PastName
  <1>13. CASE ~(e - 1 <= NAME_MAX_LEN)
    <2>1. CASE M > e
      <3>1. PastName(v[M], T, E, n)
        BY <1>2, <1>10, <2>1 DEF NameAt
      <3> QED  BY <1>2, <1>8, <1>11, <1>13, <3>1 DEF PastName, Broken
    <2>2. CASE M = 0
      <3>1. Qname(w) = Start
        BY <1>8, <2>2 DEF Reads
      <3> QED  BY <1>11, <1>13, <3>1 DEF Start
    <2>3. CASE M # 0 /\ ~(M > e)
      <3>1. PICK k \in 1 .. n : E[k - 1] < M /\ M <= E[k]
        <4>1. M \in 1 .. E[n] /\ n \in 0 .. n
          BY <1>2, <2>3
        <4> QED  BY <4>1, OffsetsGrow
      <3>2. Within(v[M], T, E[k] - M, M - 1)
        BY <1>10, <3>1 DEF NameAt, InLabel
      <3>3. v[M].done = FALSE
        BY <3>2 DEF Within, Going, Broken
      <3> QED  BY <1>8, <1>11, <1>13, <3>3
    <2> QED  BY <2>1, <2>2, <2>3
  <1> QED  BY <1>12, <1>13

\* A wire that holds no name: where the loop waits for a length there is a head, and no name has
\* been completed.
Led(c, p, H, l) ==
    /\ c.done = TRUE => c.name = <<>> /\ c.stop = TRUE
    /\ c.stop = FALSE /\ p + c.remain + 1 \in 1 .. l => p + c.remain + 1 \in H

Heads(H, w, l) ==
    \A p \in H : /\ w[p] = 0 => p = 1
                 /\ w[p] \in 1 .. 63 /\ p + w[p] + 1 \in 1 .. l => p + w[p] + 1 \in H

LEMMA OctetIs ==
    ASSUME NEW b \in Octet PROVE b \in Nat /\ (b = 0 \/ b >= 64 \/ b \in 1 .. 63)
  BY DEF Octet

LEMMA LedStep ==
    ASSUME NEW l \in Nat, NEW H, NEW w, Heads(H, w, l), NEW p \in 1 .. l, NEW q \in Nat, p = q + 1,
           NEW c \in Holding, Led(c, q, H, l), p = 1 => c = Start, NEW ch \in Octet, ch = w[p]
    PROVE  Led(Byte(c, ch), p, H, l)
  <1>1. CASE c.stop = TRUE
    <2>1. Byte(c, ch) = c
      BY <1>1, ReadOn
    <2> QED  BY <1>1, <2>1 DEF Led
  <1>2. CASE c.stop = FALSE
    <2>1. PICK r \in Nat, s \in Seq(Octet), d \in BOOLEAN, t \in BOOLEAN : c = Holds(r, s, d, t)
      BY DEF Holding, Holds
    <2>2. c.remain = r /\ c.name = s /\ c.done = d /\ c.stop = t
      BY <2>1 DEF Holds
    <2>3. t = FALSE /\ d = FALSE
      BY <1>2, <2>2 DEF Led
    <2>4. c = Holds(r, s, FALSE, FALSE)
      BY <2>1, <2>3
    <2>5. ByteFrom(r, s, FALSE, FALSE, ch)
      <3>1. ch \in Nat
        BY OctetIs
      <3> QED  BY <3>1, ByteIs
    <2>6. q + r + 1 \in 1 .. l => q + r + 1 \in H
      BY <1>2, <2>2 DEF Led
    <2>7. \A r0, s0 : Led(Holds(r0, s0, FALSE, TRUE), p, H, l)
      BY DEF Led, Holds
    <2>8. \A r0, s0 : (p + r0 + 1 \in 1 .. l => p + r0 + 1 \in H) => Led(Holds(r0, s0, FALSE, FALSE), p, H, l)
      BY DEF Led, Holds
    <2>9. CASE r # 0
      <3>1. p + (r - 1) + 1 = q + r + 1
        BY <2>9
      <3>2. PICK u, r1 : u = Append(s, LowerByte(ch)) /\ r1 = r - 1
        OBVIOUS
      <3>3. Byte(c, ch) = Holds(r, s, FALSE, TRUE) \/ Byte(c, ch) = Holds(r1, u, FALSE, FALSE)
        BY <2>4, <2>5, <2>9, <3>2 DEF ByteFrom
      <3>4. p + r1 + 1 \in 1 .. l => p + r1 + 1 \in H
        BY <2>6, <3>1, <3>2
      <3> QED  BY <2>7, <2>8, <3>3, <3>4
    <2>10. CASE r = 0
      <3>1. p \in H
        <4>1. q + r + 1 = p
          BY <2>10
        <4> QED  BY <2>6, <4>1
      <3>2. CASE ch = 0
        <4>1. s = <<>>
          <5>1. p = 1
            BY <3>1, <3>2 DEF Heads
          <5>2. c.name = <<>>
            BY <5>1 DEF Start
          <5> QED  BY <2>2, <5>2
        <4>2. Byte(c, ch) = Holds(r, s, TRUE, TRUE)
          BY <2>4, <2>5, <2>10, <3>2 DEF ByteFrom
        <4> QED  BY <4>1, <4>2 DEF Led, Holds
      <3>3. CASE ch >= 64
        <4>1. Byte(c, ch) = Holds(r, s, FALSE, TRUE)
          BY <2>4, <2>5, <2>10, <3>3 DEF ByteFrom
        <4> QED  BY <2>7, <4>1
      <3>4. CASE ch \in 1 .. 63
        <4>1. PICK u : u = Append(s, Dot)
          OBVIOUS
        <4>2. \/ Byte(c, ch) = Holds(ch, s, FALSE, FALSE) \/ Byte(c, ch) = Holds(ch, s, FALSE, TRUE)
              \/ Byte(c, ch) = Holds(ch, u, FALSE, FALSE)
          BY <2>4, <2>5, <2>10, <3>4, <4>1 DEF ByteFrom
        <4>3. p + ch + 1 \in 1 .. l => p + ch + 1 \in H
          BY <3>1, <3>4 DEF Heads
        <4> QED  BY <2>7, <2>8, <4>2, <4>3
      <3>5. ch = 0 \/ ch >= 64 \/ ch \in 1 .. 63
        BY OctetIs
      <3> QED  BY <3>2, <3>3, <3>4, <3>5
    <2> QED  BY <2>9, <2>10
  <1>3. c.stop \in BOOLEAN
    BY DEF Holding
  <1> QED  BY <1>1, <1>2, <1>3

LEMMA NoName ==
    ASSUME NEW w \in Seq(Octet), Spells(<<>>, w)
    PROVE  Qname(w).done = TRUE => Qname(w).name = <<>>
  <1>1. PICK l \in Nat : l = Len(w) /\ DOMAIN w = 1 .. l
    BY LenProperties
  <1>2. PICK H \in SUBSET DOMAIN w :
            /\ w # <<>> => 1 \in H
            /\ \A p \in H : /\ w[p] = 0 => p = 1
                            /\ w[p] \in 1 .. 63 /\ p + w[p] + 1 \in DOMAIN w => p + w[p] + 1 \in H
    BY DEF Spells
  <1>3. Heads(H, w, l)
    BY <1>1, <1>2 DEF Heads
  <1>4. l # 0 => 1 \in H
    BY <1>1, <1>2, EmptySeq
  <1>5. PICK S : S = {Len(w), PKT_BUF, NAME_MAX_LEN + 3}
    OBVIOUS
  <1>6. S \subseteq Nat /\ S # {}
    BY <1>1, <1>5, DnsSizesAssumption
  <1>7. PICK M \in 0 .. l : M = Min(S)
    <2>1. Min(S) \in S /\ \A i \in S : Min(S) <= i
      BY <1>6, MinIs
    <2>2. Min(S) \in Nat /\ Min(S) <= l
      BY <1>1, <1>5, <1>6, <2>1
    <2> QED  BY <2>2
  <1>8. PICK v : Reads(v, w, M) /\ Qname(w) = v[M]
    <2>1. M = Min({Len(w), PKT_BUF, NAME_MAX_LEN + 3})
      BY <1>5, <1>7
    <2> QED  BY <1>1, <2>1, QnameSteps
  <1> DEFINE B == {p \in 0 .. M : Led(v[p], p, H, l)}
  <1>9. 0 \in B
    <2>1. v[0] = Start
      BY <1>8 DEF Reads
    <2>2. Start.done = FALSE /\ Start.remain = 0
      BY DEF Start
    <2>3. 0 + 0 + 1 \in 1 .. l => 0 + 0 + 1 \in H
      BY <1>4
    <2>4. Led(Start, 0, H, l)
      BY <2>2, <2>3 DEF Led
    <2> QED  BY <2>1, <2>4
  <1>10. ASSUME NEW p \in 1 .. M, p - 1 \in B PROVE p \in B
    <2>1. PICK q \in 0 .. M : q = p - 1
      OBVIOUS
    <2>2. PICK c \in Holding : c = v[q]
      BY <1>8 DEF Reads
    <2>3. PICK ch \in Octet : ch = w[p]
      <3>1. p \in 1 .. l
        OBVIOUS
      <3> QED  BY <1>1, <3>1, ElementOfSeq
    <2>4. v[p] = Byte(c, ch)
      BY <1>8, <2>1, <2>2, <2>3 DEF Reads
    <2>5. p = 1 => c = Start
      BY <1>8, <2>1, <2>2 DEF Reads
    <2>6. Led(c, q, H, l)
      BY <1>10, <2>1, <2>2
    <2>7. p \in 1 .. l /\ q \in Nat /\ p = q + 1
      BY <2>1
    <2>8. Led(Byte(c, ch), p, H, l)
      BY <1>3, <2>3, <2>5, <2>6, <2>7, LedStep
    <2> QED  BY <2>4, <2>8
  <1>11. M \in B
    <2>1. M \in Nat
      OBVIOUS
    <2> HIDE DEF B
    <2>2. \A p \in 0 .. M : p \in B
      BY <1>9, <1>10, <2>1, NatUp
    <2> QED  BY <2>1, <2>2
  <1> QED  BY <1>8, <1>11 DEF Led

\* A byte of a text: the '.' behind a label, or a byte of one.
IsDot(i, E, n) == \E k \in 1 .. n - 1 : i = E[k]
InLabelAt(i, E, labels, k, j) == j \in 1 .. Len(labels[k]) /\ i = E[k - 1] + j
IsByte(i, E, labels, n) == \E k \in 1 .. n : \E j \in 1 .. Len(labels[k]) : InLabelAt(i, E, labels, k, j)

LEMMA Places ==
    ASSUME NEW E, NEW labels, NEW n, Offsets(E, labels, n), NEW e, e = E[n], NEW i \in 1 .. e - 1
    PROVE  IsDot(i, E, n) \/ IsByte(i, E, labels, n)
  <1>. n \in Nat \ {0}
    BY DEF Offsets
  <1>0. e \in Nat /\ i \in Nat /\ i < e
    <2>1. e \in Nat
      BY DEF Offsets
    <2> QED  BY <2>1
  <1>1. PICK k \in 1 .. n : E[k - 1] < i /\ i <= E[k]
    <2>1. i \in 1 .. E[n] /\ n \in 0 .. n
      BY <1>0
    <2> QED  BY <2>1, OffsetsGrow
  <1>2. PICK x \in Nat, y \in 1 .. 63, z \in Nat : x = E[k - 1] /\ y = Len(labels[k]) /\ z = E[k] /\ z = x + y + 1
    <2>1. k - 1 \in 0 .. n /\ k \in 0 .. n
      OBVIOUS
    <2> QED  BY <2>1 DEF Offsets
  <1>3. CASE i = z
    <2>1. k # n
      <3>1. k = n => z = e
        BY <1>2
      <3> QED  BY <1>0, <1>3, <3>1
    <2>2. k \in 1 .. n - 1
      BY <2>1
    <2> QED  BY <1>2, <1>3, <2>2 DEF IsDot
  <1>4. CASE i # z
    <2>1. PICK j \in 1 .. y : i = x + j
      <3>1. x < i /\ i <= z
        BY <1>1, <1>2
      <3>2. i - x \in 1 .. y /\ i = x + (i - x)
        <4>1. \A a \in Nat, b \in 1 .. 63, p \in Nat :
                  a < p /\ p <= a + b + 1 /\ p # a + b + 1 => p - a \in 1 .. b /\ p = a + (p - a)
          OBVIOUS
        <4> QED  BY <1>0, <1>2, <1>4, <3>1, <4>1, ZenonT(30)
      <3> QED  BY <3>2
    <2>2. InLabelAt(i, E, labels, k, j)
      BY <1>2, <2>1 DEF InLabelAt
    <2>3. j \in 1 .. Len(labels[k])
      BY <1>2
    <2> QED  BY <2>2, <2>3 DEF IsByte
  <1> QED  BY <1>3, <1>4

\* Only the labels' '.'s are '.'s, and nothing is a NUL.
LEMMA TextChars ==
    ASSUME NEW E, NEW labels, NEW n, Offsets(E, labels, n), NEW T, TextOf(T, E, labels, n),
           NEW e, e = E[n], NEW i \in 1 .. e - 1
    PROVE  T[i] # 0 /\ (T[i] = Dot => IsDot(i, E, n))
  <1>. n \in Nat \ {0}
    BY DEF Offsets
  <1>1. CASE IsDot(i, E, n)
    <2>1. T[i] = Dot
      BY <1>1 DEF IsDot, TextOf
    <2> QED  BY <1>1, <2>1 DEF Dot
  <1>2. CASE IsByte(i, E, labels, n)
    <2>1. PICK k, j : k \in 1 .. n /\ InLabelAt(i, E, labels, k, j)
      BY <1>2 DEF IsByte
    <2>2. PICK l : l = labels[k]
      OBVIOUS
    <2>3. l \in Seq(Octet \ {0, Dot})
      BY <2>1, <2>2, ElementOfSeq DEF Offsets
    <2>4. PICK b \in Octet \ {0, Dot} : b = l[j]
      <3>1. j \in 1 .. Len(l)
        BY <2>1, <2>2 DEF InLabelAt
      <3> QED  BY <2>3, <3>1, ElementOfSeq
    <2>5. T[i] = LowerByte(b)
      BY <2>1, <2>2, <2>4 DEF InLabelAt, TextOf
    <2>6. LowerByte(b) # 0 /\ LowerByte(b) # Dot
      BY LowerByteIs
    <2> QED  BY <2>5, <2>6
  <1> QED  BY <1>1, <1>2, Places

\* The labels from the one behind the q-th on.
RestOf(L, labels, q, m) ==
    /\ L \in Seq(Seq(Octet \ {0, Dot})) /\ Len(L) = m
    /\ \A i \in 1 .. m : L[i] = labels[q + i]

LEMMA RestLabels ==
    ASSUME NEW labels \in Seq(Seq(Octet \ {0, Dot})), NEW n \in Nat, n = Len(labels),
           NEW q \in Nat, NEW m \in Nat \ {0}, n = q + m, NEW L, L = SubSeq(labels, q + 1, n)
    PROVE  RestOf(L, labels, q, m)
  <1>1. ASSUME NEW i \in q + 1 .. n PROVE labels[i] \in Seq(Octet \ {0, Dot})
    <2>1. i \in 1 .. n
      OBVIOUS
    <2> QED  BY <2>1, ElementOfSeq
  <1>2. PICK a \in Nat : a = q + 1
    OBVIOUS
  <1>3. /\ L \in Seq(Seq(Octet \ {0, Dot})) /\ Len(L) = IF a <= n THEN n - a + 1 ELSE 0
        /\ \A i \in 1 .. n - a + 1 : L[i] = labels[a + i - 1]
    <2>1. L = SubSeq(labels, a, n) /\ \A i \in a .. n : labels[i] \in Seq(Octet \ {0, Dot})
      BY <1>1, <1>2
    <2> QED  BY <2>1, SubSeqProperties
  <1>4. n - a + 1 = m /\ a <= n /\ \A i \in 1 .. m : a + i - 1 = q + i
    BY <1>2
  <1> QED  BY <1>3, <1>4 DEF RestOf

Shifted(F, L, m, E, q, e) ==
    e \in Nat /\ Offsets(F, L, m) /\ \A j \in 0 .. m : F[j] + e = E[q + j]

LEMMA RestOffsets ==
    ASSUME NEW E, NEW labels, NEW n, Offsets(E, labels, n), NEW q \in Nat, NEW m \in Nat \ {0},
           n = q + m, NEW L, RestOf(L, labels, q, m), NEW e, e = E[q]
    PROVE  \E F : Shifted(F, L, m, E, q, e)
  <1>. n \in Nat \ {0}
    OBVIOUS
  <1>1. q \in 0 .. n /\ e \in Nat
    BY DEF Offsets
  <1>2. ASSUME NEW j \in 0 .. m PROVE q + j \in 0 .. n /\ E[q + j] \in Nat /\ E[q + j] - e \in Nat
    <2>1. q + j \in 0 .. n /\ q \in 0 .. q + j
      OBVIOUS
    <2>2. PICK x \in Nat : x = E[q + j]
      BY <2>1 DEF Offsets
    <2>3. e <= x
      BY <2>1, <2>2, OffsetsGrow
    <2>4. x - e \in Nat
      BY <1>1, <2>3
    <2> QED  BY <2>1, <2>2, <2>4
  <1>3. PICK F : F = [j \in 0 .. m |-> E[q + j] - e]
    OBVIOUS
  <1>4. F \in [0 .. m -> Nat]
    BY <1>2, <1>3
  <1>5. ASSUME NEW j \in 0 .. m PROVE F[j] + e = E[q + j]
    <2>1. F[j] = E[q + j] - e
      BY <1>3
    <2> QED  BY <1>1, <1>2, <2>1
  <1>6. F[0] = 0
    <2>1. 0 \in 0 .. m /\ q + 0 = q
      OBVIOUS
    <2>2. F[0] = e - e
      BY <1>3, <2>1
    <2> QED  BY <1>1, <2>2
  <1>7. ASSUME NEW k \in 1 .. m PROVE Len(L[k]) \in 1 .. 63 /\ F[k] = F[k - 1] + Len(L[k]) + 1
    <2>1. k \in 0 .. m /\ k - 1 \in 0 .. m /\ q + k \in 1 .. n /\ (q + k) - 1 = q + (k - 1)
      OBVIOUS
    <2>2. PICK y \in 1 .. 63 : y = Len(L[k])
      BY <2>1 DEF Offsets, RestOf
    <2>3. PICK a \in Nat, b \in Nat : a = F[k - 1] /\ b = F[k]
      BY <1>4, <2>1
    <2>4. a + e = E[q + (k - 1)] /\ b + e = E[q + k]
      BY <1>5, <2>1, <2>3
    <2>5. E[q + k] = E[q + (k - 1)] + Len(labels[q + k]) + 1
      BY <2>1 DEF Offsets
    <2>6. b + e = (a + e) + y + 1
      BY <2>2, <2>4, <2>5 DEF RestOf
    <2>7. b = a + y + 1
      BY <1>1, <2>6
    <2> QED  BY <2>2, <2>3, <2>7
  <1>8. Offsets(F, L, m)
    BY <1>4, <1>6, <1>7 DEF Offsets, RestOf
  <1>9. Shifted(F, L, m, E, q, e)
    BY <1>1, <1>5, <1>8 DEF Shifted
  <1> QED  BY <1>9

\* What stands in a text behind the first q labels.
SuffixOf(X, T, t, e) ==
    /\ X \in Seq(Octet) /\ Len(X) = t - e /\ \A i \in 1 .. t - e : X[i] = T[e + i]

LEMMA SuffixText ==
    ASSUME NEW E, NEW labels, NEW n, Offsets(E, labels, n), NEW T, TextOf(T, E, labels, n),
           NEW q \in Nat, NEW m \in Nat \ {0}, n = q + m, NEW L, RestOf(L, labels, q, m),
           NEW e \in Nat, e = E[q], NEW t \in Nat, t = Len(T),
           NEW F, Offsets(F, L, m), \A j \in 0 .. m : F[j] + e = E[q + j],
           NEW X, TextOf(X, F, L, m)
    PROVE  SuffixOf(X, T, t, e)
  <1>1. PICK f \in Nat : f = F[m]
    BY SMTT(30) DEF Offsets
  <1>2. f + e = t + 1
    <2>1. m \in 0 .. m /\ q + m = n
      OBVIOUS
    <2>2. f + e = E[n]
      BY <1>1, <2>1
    <2>3. E[n] \in Nat /\ t = E[n] - 1
      BY DEF Offsets, TextOf
    <2> QED  BY <2>2, <2>3
  <1>3. X \in Seq(Octet) /\ Len(X) = f - 1 /\ f - 1 = t - e
    <2>1. X \in Seq(Octet) /\ Len(X) = F[m] - 1
      BY DEF TextOf
    <2>2. f - 1 = t - e
      BY <1>2
    <2> QED  BY <1>1, <2>1, <2>2
  <1>4. ASSUME NEW i \in 1 .. f - 1 PROVE X[i] = T[e + i]
    <2>1. CASE IsDot(i, F, m)
      <3>1. PICK k \in 1 .. m - 1 : i = F[k]
        BY <2>1 DEF IsDot
      <3>2. X[i] = Dot
        BY <3>1 DEF TextOf
      <3>3. q + k \in 1 .. n - 1 /\ k \in 0 .. m
        OBVIOUS
      <3>4. T[E[q + k]] = Dot
        BY <3>3 DEF TextOf
      <3>5. E[q + k] = e + i
        BY <3>1, <3>3
      <3> QED  BY <3>2, <3>4, <3>5
    <2>2. CASE IsByte(i, F, L, m)
      <3>1. PICK k, j : k \in 1 .. m /\ InLabelAt(i, F, L, k, j)
        BY <2>2 DEF IsByte
      <3>2. PICK l : l = L[k] /\ l = labels[q + k]
        BY <3>1 DEF RestOf
      <3>3. j \in 1 .. Len(l) /\ i = F[k - 1] + j
        BY <3>1, <3>2 DEF InLabelAt
      <3>4. X[i] = LowerByte(l[j])
        BY <3>1, <3>2, <3>3 DEF TextOf
      <3>5. q + k \in 1 .. n /\ k - 1 \in 0 .. m /\ (q + k) - 1 = q + (k - 1)
        BY <3>1
      <3>6. T[E[(q + k) - 1] + j] = LowerByte(l[j])
        <4>1. PICK i2 \in 1 .. n : i2 = q + k
          BY <3>5
        <4>2. j \in 1 .. Len(labels[i2]) /\ l = labels[i2]
          BY <3>2, <3>3, <4>1
        <4>3. T[E[i2 - 1] + j] = LowerByte(l[j])
          BY <4>2 DEF TextOf
        <4> QED  BY <4>1, <4>3
      <3>7. E[(q + k) - 1] + j = e + i
        <4>1. PICK a \in Nat : a = F[k - 1]
          BY <3>5 DEF Offsets
        <4>2. E[(q + k) - 1] = a + e
          BY <3>5, <4>1
        <4>3. PICK b \in Nat : b = Len(l)
          <5>1. Len(l) \in 1 .. 63
            BY <3>1, <3>2 DEF Offsets
          <5> QED  BY <5>1
        <4>4. j \in 1 .. b /\ i = a + j
          BY <3>3, <4>1, <4>3
        <4> QED  BY <4>2, <4>4
      <3> QED  BY <3>4, <3>6, <3>7
    <2> QED  BY <1>1, <2>1, <2>2, Places
  <1> QED  BY <1>3, <1>4 DEF SuffixOf

LEMMA DottedSuffix ==
    ASSUME NEW E, NEW labels, NEW n, Offsets(E, labels, n), NEW T, TextOf(T, E, labels, n),
           NEW q \in Nat, NEW m \in Nat \ {0}, n = q + m, NEW t \in Nat, t = Len(T),
           NEW X, X = Dotted(SubSeq(labels, q + 1, n)), NEW e, e = E[q]
    PROVE  e \in Nat /\ SuffixOf(X, T, t, e)
  <1>0. labels \in Seq(Seq(Octet \ {0, Dot})) /\ n = Len(labels) /\ n \in Nat
    BY DEF Offsets
  <1>1. PICK L : L = SubSeq(labels, q + 1, n)
    OBVIOUS
  <1>2. RestOf(L, labels, q, m)
    BY <1>0, <1>1, RestLabels
  <1>3. PICK F : e \in Nat /\ Offsets(F, L, m) /\ \A j \in 0 .. m : F[j] + e = E[q + j]
    <2>1. PICK F : Shifted(F, L, m, E, q, e)
      BY <1>2, RestOffsets
    <2> QED  BY <2>1 DEF Shifted
  <1>4. L \in Seq(Seq(Octet)) /\ Len(L) = m
    <2>1. Seq(Octet \ {0, Dot}) \subseteq Seq(Octet)
      <3>1. Octet \ {0, Dot} \subseteq Octet
        OBVIOUS
      <3> QED  BY <3>1, SeqMonotonic
    <2>2. L \in Seq(Seq(Octet \ {0, Dot})) /\ Len(L) = m
      BY <1>2 DEF RestOf
    <2> QED  BY <2>1, <2>2, SeqMonotonic
  <1>5. PICK D : Spelling(D, L, m)
    BY <1>4, DottedSteps
  <1>6. TextOf(D[m], F, L, m)
    <2>1. m \in 1 .. m
      OBVIOUS
    <2> QED  BY <1>3, <1>5, <2>1, TextIs
  <1>7. D[m] = X
    BY <1>1, <1>5 DEF Spelling
  <1>8. TextOf(X, F, L, m)
    BY <1>6, <1>7
  <1> QED  BY <1>2, <1>3, <1>8, SuffixText

LEMMA BodyTyped ==
    ASSUME NEW rule \in Seq(Octet) PROVE RuleBody(rule) \in Seq(Octet)
  <1>1. PICK n \in Nat : n = Len(rule) /\ DOMAIN rule = 1 .. n
    BY LenProperties
  <1>2. PICK H : H = {i \in DOMAIN rule : rule[i] # Dot} \cup {0}
    OBVIOUS
  <1>3. PICK m \in 0 .. n : m = Max(H)
    <2>1. H \subseteq 0 .. n /\ H # {}
      BY <1>1, <1>2
    <2>2. Max(H) \in H
      BY <2>1, MaxIs
    <2> QED  BY <2>1, <2>2
  <1>4. PICK s : s = SubSeq(rule, 1, m)
    OBVIOUS
  <1>5. s = TrimDots(rule)
    BY <1>2, <1>3, <1>4 DEF TrimDots
  <1>6. s \in Seq(Octet)
    BY <1>1, <1>4, CutIs
  <1>7. PICK b : b = IF Wildcard(s) THEN Tail(s) ELSE s
    OBVIOUS
  <1>8. b \in Seq(Octet)
    <2>1. Wildcard(s) => Tail(s) \in Seq(Octet)
      BY <1>6, HeadTailProperties DEF Wildcard
    <2> QED  BY <1>6, <1>7, <2>1
  <1>9. RuleBody(rule) = LowerText(b)
    BY <1>5, <1>7 DEF RuleBody
  <1> QED  BY <1>8, <1>9, LowerTextIs

\* A text from its end to its beginning.
Backwards(K, T, t) ==
    K \in Seq(Octet) /\ Len(K) = t /\ \A j \in 1 .. t : K[j] = T[t - j + 1]

\* And with a NUL behind.
Ending(K, T, t) ==
    /\ K \in Seq(Octet) /\ Len(K) = t + 1
    /\ \A j \in 1 .. t : K[j] = T[t - j + 1]
    /\ K[t + 1] = 0

LEMMA BackwardsIs ==
    ASSUME NEW T \in Seq(Octet), NEW t \in Nat, t = Len(T), NEW K, K = Reverse(T)
    PROVE  Backwards(K, T, t)
  BY ReverseIs DEF Backwards

LEMMA EndingIs ==
    ASSUME NEW T \in Seq(Octet), NEW t \in Nat, t = Len(T), NEW K, K = Append(Reverse(T), 0)
    PROVE  Ending(K, T, t)
  <1>1. PICK R : R = Reverse(T)
    OBVIOUS
  <1>2. Backwards(R, T, t)
    BY <1>1, BackwardsIs
  <1>3. 0 \in Octet
    BY DEF Octet
  <1>4. K \in Seq(Octet) /\ Len(K) = t + 1 /\ K[t + 1] = 0 /\ \A i \in 1 .. t : K[i] = R[i]
    BY <1>1, <1>2, <1>3, AppendProperties DEF Backwards
  <1> QED  BY <1>2, <1>4 DEF Backwards, Ending

\* An exact name.
LEMMA ExactMatch ==
    ASSUME NEW T \in Seq(Octet), NEW t \in Nat, t = Len(T), \A i \in 1 .. t : T[i] # 0,
           NEW B \in Seq(Octet), NEW b \in Nat, b = Len(B), NEW K, Ending(K, T, t), NEW R, Ending(R, B, b)
    PROVE  IsPrefix(R, K) <=> B = T
  <1>1. IsPrefix(R, K) <=> b + 1 <= t + 1 /\ \A j \in 1 .. b + 1 : R[j] = K[j]
    <2>1. R \in Seq(Octet) /\ K \in Seq(Octet)
      BY DEF Ending
    <2>2. IsPrefix(R, K) <=> Len(R) <= Len(K) /\ \A j \in 1 .. Len(R) : R[j] = K[j]
      BY <2>1, PrefixIs
    <2>3. Len(R) = b + 1 /\ Len(K) = t + 1
      BY DEF Ending
    <2> QED  BY <2>2, <2>3
  <1>2. ASSUME IsPrefix(R, K) PROVE B = T
    <2>1. b <= t /\ \A j \in 1 .. b + 1 : R[j] = K[j]
      BY <1>1, <1>2
    <2>2. b = t
      <3>1. K[b + 1] = 0
        <4>1. b + 1 \in 1 .. b + 1
          OBVIOUS
        <4> QED  BY <2>1, <4>1 DEF Ending
      <3>2. CASE b < t
        <4>1. PICK j \in 1 .. t, i \in 1 .. t : j = b + 1 /\ i = t - j + 1
          <5>1. b + 1 \in 1 .. t /\ t - (b + 1) + 1 \in 1 .. t
            BY <3>2
          <5> QED  BY <5>1
        <4>2. K[j] = T[i]
          BY <4>1 DEF Ending
        <4> QED  BY <3>1, <4>1, <4>2
      <3> QED  BY <2>1, <3>2
    <2>3. ASSUME NEW i \in 1 .. t PROVE B[i] = T[i]
      <3>1. PICK j \in 1 .. t : i = t - j + 1
        <4>1. t - i + 1 \in 1 .. t /\ i = t - (t - i + 1) + 1
          OBVIOUS
        <4> QED  BY <4>1
      <3>2. R[j] = B[i] /\ K[j] = T[i] /\ j \in 1 .. b + 1
        BY <2>2, <3>1 DEF Ending
      <3> QED  BY <2>1, <3>2
    <2> QED  BY <2>2, <2>3, SeqEqual
  <1>3. ASSUME B = T PROVE IsPrefix(R, K)
    <2>1. b = t
      BY <1>3
    <2>2. ASSUME NEW j \in 1 .. b + 1 PROVE R[j] = K[j]
      <3>1. j = t + 1 \/ j \in 1 .. t
        BY <2>1
      <3> QED  BY <1>3, <2>1, <3>1 DEF Ending
    <2> QED  BY <1>1, <2>1, <2>2
  <1> QED  BY <1>2, <1>3

\* A wildcard: its body begins with a '.', and its text ends a name behind one of its labels.
EndsWith(T, t, B, b) == b <= t /\ \A i \in 1 .. b : B[i] = T[t - b + i]

LEMMA WildMatch ==
    ASSUME NEW T \in Seq(Octet), NEW t \in Nat, t = Len(T),
           NEW B \in Seq(Octet), NEW b \in Nat \ {0}, b = Len(B), B[1] = Dot,
           NEW K, Ending(K, T, t), NEW R, Backwards(R, B, b)
    PROVE  IsPrefix(R, K) <=> EndsWith(T, t, B, b)
  <1>1. IsPrefix(R, K) <=> b <= t + 1 /\ \A j \in 1 .. b : R[j] = K[j]
    <2>1. R \in Seq(Octet) /\ K \in Seq(Octet) /\ Len(R) = b /\ Len(K) = t + 1
      BY DEF Ending, Backwards
    <2> QED  BY <2>1, PrefixIs
  <1>2. ASSUME IsPrefix(R, K) PROVE EndsWith(T, t, B, b)
    <2>1. b <= t + 1 /\ \A j \in 1 .. b : R[j] = K[j]
      BY <1>1, <1>2
    <2>2. b <= t
      <3>1. CASE b = t + 1
        <4>1. b \in 1 .. b /\ b - b + 1 = 1
          OBVIOUS
        <4>2. R[b] = Dot
          BY <4>1 DEF Backwards
        <4>3. R[b] = 0
          BY <2>1, <3>1, <4>1 DEF Ending
        <4> QED  BY <4>2, <4>3 DEF Dot
      <3> QED  BY <2>1, <3>1
    <2>3. ASSUME NEW i \in 1 .. b PROVE B[i] = T[t - b + i]
      <3>1. PICK j \in 1 .. b : i = b - j + 1 /\ t - b + i = t - j + 1 /\ j \in 1 .. t
        <4>1. b - i + 1 \in 1 .. b /\ i = b - (b - i + 1) + 1
          OBVIOUS
        <4>2. t - b + i = t - (b - i + 1) + 1 /\ b - i + 1 \in 1 .. t
          BY <2>2
        <4> QED  BY <4>1, <4>2
      <3>2. R[j] = B[i] /\ K[j] = T[t - b + i]
        BY <3>1 DEF Ending, Backwards
      <3> QED  BY <2>1, <3>1, <3>2
    <2> QED  BY <2>2, <2>3 DEF EndsWith
  <1>3. ASSUME EndsWith(T, t, B, b) PROVE IsPrefix(R, K)
    <2>1. b <= t /\ \A i \in 1 .. b : B[i] = T[t - b + i]
      BY <1>3 DEF EndsWith
    <2>2. ASSUME NEW j \in 1 .. b PROVE R[j] = K[j]
      <3>1. PICK i \in 1 .. b : i = b - j + 1 /\ t - b + i = t - j + 1 /\ j \in 1 .. t
        <4>1. b - j + 1 \in 1 .. b /\ t - b + (b - j + 1) = t - j + 1 /\ j \in 1 .. t
          BY <2>1
        <4> QED  BY <4>1
      <3>2. R[j] = B[i] /\ K[j] = T[t - j + 1]
        BY <3>1 DEF Ending, Backwards
      <3> QED  BY <2>1, <3>1, <3>2
    <2>3. b <= t + 1
      BY <2>1
    <2> QED  BY <1>1, <2>2, <2>3
  <1> QED  BY <1>2, <1>3

\* A wildcard's meaning.
BelowBody(B, labels, n) == \E k \in 2 .. n : Tail(B) = Dotted(SubSeq(labels, k, n))

\* A name that ends with a wildcard's body is one below it, and none else is.
LEMMA WildCovers ==
    ASSUME NEW E, NEW labels, NEW n, Offsets(E, labels, n), NEW T, TextOf(T, E, labels, n),
           NEW t \in Nat, t = Len(T),
           NEW B \in Seq(Octet), NEW b \in Nat \ {0}, b = Len(B), B[1] = Dot
    PROVE  EndsWith(T, t, B, b) <=> BelowBody(B, labels, n)
  <1>. n \in Nat \ {0} /\ T \in Seq(Octet)
    BY DEF Offsets, TextOf
  <1>1. PICK z : z = E[n]
    OBVIOUS
  <1>2. z \in Nat /\ t = z - 1
    BY <1>1 DEF Offsets, TextOf
  <1>3. PICK S \in Seq(Octet) : S = Tail(B) /\ Len(S) = b - 1 /\ \A i \in 1 .. b - 1 : S[i] = B[i + 1]
    <2>1. B # <<>>
      BY EmptySeq
    <2>2. PICK S : S = Tail(B)
      OBVIOUS
    <2>3. S \in Seq(Octet) /\ Len(S) = Len(B) - 1 /\ \A i \in 1 .. Len(S) : S[i] = B[i + 1]
      BY <2>1, <2>2, HeadTailProperties
    <2>4. Len(S) = b - 1
      BY <2>3
    <2> QED  BY <2>2, <2>3, <2>4
  <1>4. ASSUME EndsWith(T, t, B, b)
        PROVE  \E k \in 2 .. n : S = Dotted(SubSeq(labels, k, n))
    <2>1. b <= t /\ \A i \in 1 .. b : B[i] = T[t - b + i]
      BY <1>4 DEF EndsWith
    <2>2. PICK e \in 1 .. t : e = t - b + 1 /\ b = t - e + 1
      <3>1. t - b + 1 \in 1 .. t /\ b = t - (t - b + 1) + 1
        BY <2>1
      <3> QED  BY <3>1
    <2>3. T[e] = Dot
      BY <2>1, <2>2
    <2>4. e \in 1 .. z - 1
      BY <1>2
    <2>5. IsDot(e, E, n)
      BY <1>1, <2>3, <2>4, TextChars
    <2>6. PICK q \in 1 .. n - 1 : e = E[q]
      BY <2>5 DEF IsDot
    <2>7. PICK m \in Nat \ {0} : n = q + m
      <3>1. n - q \in Nat \ {0} /\ n = q + (n - q)
        OBVIOUS
      <3> QED  BY <3>1
    <2>8. PICK X : X = Dotted(SubSeq(labels, q + 1, n))
      OBVIOUS
    <2>9. SuffixOf(X, T, t, e)
      <3>1. q \in Nat
        OBVIOUS
      <3> QED  BY <2>6, <2>7, <2>8, <3>1, DottedSuffix
    <2>10. ASSUME NEW i \in 1 .. b - 1 PROVE X[i] = S[i]
      <3>1. i \in 1 .. t - e /\ i + 1 \in 1 .. b /\ t - b + (i + 1) = e + i
        BY <2>2
      <3>2. X[i] = T[e + i]
        BY <2>9, <3>1 DEF SuffixOf
      <3>3. B[i + 1] = T[t - b + (i + 1)]
        BY <2>1, <3>1
      <3> QED  BY <1>3, <3>1, <3>2, <3>3
    <2>11. X = S
      <3>1. t - e = b - 1
        BY <2>2
      <3>2. X \in Seq(Octet) /\ Len(X) = b - 1
        BY <2>9, <3>1 DEF SuffixOf
      <3>3. Len(X) = Len(S) /\ \A i \in 1 .. Len(X) : X[i] = S[i]
        BY <1>3, <2>10, <3>2
      <3> QED  BY <3>2, <3>3, SeqEqual
    <2>12. q + 1 \in 2 .. n
      OBVIOUS
    <2> QED  BY <2>8, <2>11, <2>12
  <1>5. ASSUME NEW k \in 2 .. n, S = Dotted(SubSeq(labels, k, n))
        PROVE  EndsWith(T, t, B, b)
    <2>1. PICK q \in Nat, m \in Nat \ {0} : q + 1 = k /\ n = q + m /\ q \in 1 .. n - 1
      <3>1. k - 1 \in Nat /\ n - (k - 1) \in Nat \ {0} /\ (k - 1) + 1 = k /\ n = (k - 1) + (n - (k - 1))
            /\ k - 1 \in 1 .. n - 1
        OBVIOUS
      <3> QED  BY <3>1
    <2>2. PICK e \in Nat : e = E[q]
      <3>1. q \in 0 .. n
        BY <2>1
      <3> QED  BY <3>1 DEF Offsets
    <2>3. S = Dotted(SubSeq(labels, q + 1, n))
      BY <1>5, <2>1
    <2>4. e \in Nat /\ SuffixOf(S, T, t, e)
      BY <2>1, <2>2, <2>3, DottedSuffix
    <2>5. T[e] = Dot
      BY <2>1, <2>2 DEF TextOf
    <2>6. e >= 2
      <3>1. q \in 1 .. n /\ q - 1 \in 0 .. n
        BY <2>1
      <3>2. PICK x \in Nat, y \in 1 .. 63 : x = E[q - 1] /\ y = Len(labels[q]) /\ E[q] = x + y + 1
        BY <3>1 DEF Offsets
      <3>3. \A a \in Nat, c \in 1 .. 63 : a + c + 1 >= 2
        OBVIOUS
      <3>4. x + y + 1 >= 2
        BY <3>3
      <3> QED  BY <2>2, <3>2, <3>4
    <2>7. b - 1 = t - e /\ \A i \in 1 .. t - e : S[i] = T[e + i]
      BY <1>3, <2>4 DEF SuffixOf
    <2>8. b <= t /\ t - b + 1 = e
      BY <2>4, <2>6, <2>7
    <2>9. ASSUME NEW i \in 1 .. b PROVE B[i] = T[t - b + i]
      <3>1. CASE i = 1
        BY <2>5, <2>8, <3>1
      <3>2. CASE i # 1
        <4>1. PICK j \in 1 .. b - 1 : i = j + 1
          <5>1. i - 1 \in 1 .. b - 1 /\ i = (i - 1) + 1
            BY <3>2
          <5> QED  BY <5>1
        <4>2. B[i] = S[j]
          BY <1>3, <4>1
        <4>3. S[j] = T[e + j]
          BY <2>7
        <4>4. e + j = t - b + i
          <5>1. e + j = (t - b + 1) + j
            BY <2>8
          <5> QED  BY <4>1, <5>1
        <4> QED  BY <4>2, <4>3, <4>4
      <3> QED  BY <3>1, <3>2
    <2> QED  BY <2>8, <2>9 DEF EndsWith
  <1> QED  BY <1>3, <1>4, <1>5 DEF BelowBody

\* A rule covers a name when the trie's entry of it begins the name's key.
LEMMA CoversIs ==
    ASSUME NEW E, NEW labels, NEW n, Offsets(E, labels, n), NEW T, TextOf(T, E, labels, n),
           T = Dotted(labels), NEW rule \in Seq(Octet), RuleOk(rule),
           NEW K, K = Append(Reverse(T), 0)
    PROVE  RuleCovers(rule, labels) <=> IsPrefix(RuleData(rule), K)
  <1>1. PICK B \in Seq(Octet) : B = RuleBody(rule)
    BY BodyTyped
  <1>2. PICK b \in Nat \ {0} : b = Len(B)
    <2>1. Len(B) \in Nat /\ Len(B) # 0
      <3>1. Len(B) \in Nat
        BY LenProperties
      <3>2. Len(B) \in 1 .. NAME_MAX_LEN
        BY <1>1 DEF RuleOk
      <3> QED  BY <3>1, <3>2
    <2> QED  BY <2>1
  <1>3. T \in Seq(Octet)
    BY DEF TextOf
  <1>4. PICK t \in Nat : t = Len(T)
    BY <1>3, LenProperties
  <1>5. Ending(K, T, t)
    BY <1>3, <1>4, EndingIs
  <1>6. PICK R : R = RuleData(rule)
    OBVIOUS
  <1>7. CASE ~Wildcard(rule)
    <2>1. R = Append(Reverse(B), 0)
      BY <1>1, <1>6, <1>7 DEF RuleData
    <2>2. Ending(R, B, b)
      BY <1>2, <2>1, EndingIs
    <2>3. \A i \in 1 .. t : T[i] # 0
      <3>1. PICK z : z = E[n]
        OBVIOUS
      <3>2. z \in Nat /\ t = z - 1
        BY <1>4, <3>1 DEF Offsets, TextOf
      <3>3. \A i \in 1 .. z - 1 : T[i] # 0
        BY <3>1, TextChars
      <3> QED  BY <3>2, <3>3
    <2>4. IsPrefix(R, K) <=> B = T
      BY <1>2, <1>3, <1>4, <1>5, <2>2, <2>3, ExactMatch
    <2>5. RuleCovers(rule, labels) <=> B = T
      BY <1>1, <1>7 DEF RuleCovers
    <2> QED  BY <1>6, <2>4, <2>5
  <1>8. CASE Wildcard(rule)
    <2>1. R = Reverse(B)
      BY <1>1, <1>6, <1>8 DEF RuleData
    <2>2. Backwards(R, B, b)
      BY <1>2, <2>1, BackwardsIs
    <2>3. B[1] = Dot
      BY <1>1, <1>8 DEF RuleOk
    <2>4. IsPrefix(R, K) <=> EndsWith(T, t, B, b)
      BY <1>2, <1>3, <1>4, <1>5, <2>2, <2>3, WildMatch
    <2>5. EndsWith(T, t, B, b) <=> BelowBody(B, labels, n)
      BY <1>2, <1>4, <2>3, WildCovers
    <2>6. RuleCovers(rule, labels) <=> BelowBody(B, labels, n)
      <3>1. Len(labels) = n
        BY DEF Offsets
      <3> QED  BY <1>1, <1>8, <3>1 DEF RuleCovers, BelowBody
    <2> QED  BY <1>6, <2>4, <2>5, <2>6
  <1> QED  BY <1>7, <1>8

\* The trie's entries are rules of the build, each under its own key.
RuleEntries(t, rs) ==
    \A d \in DOMAIN t : t[d] \in DOMAIN rs /\ RuleOk(rs[t[d]]) /\ RuleData(rs[t[d]]) = d
AllRules(t, rs) ==
    \A i \in DOMAIN rs : rs[i] \in Seq(Octet) /\ RuleOk(rs[i]) /\ RuleData(rs[i]) \in DOMAIN t

LEMMA DataTyped ==
    ASSUME NEW rule \in Seq(Octet) PROVE RuleData(rule) \in Seq(Octet)
  <1>1. PICK B \in Seq(Octet) : B = RuleBody(rule)
    BY BodyTyped
  <1>2. PICK R : R = Reverse(B)
    OBVIOUS
  <1>3. R \in Seq(Octet)
    BY <1>2, ReverseIs
  <1>4. Append(R, 0) \in Seq(Octet)
    <2>1. 0 \in Octet
      BY DEF Octet
    <2> QED  BY <1>3, <2>1, AppendProperties
  <1> QED  BY <1>1, <1>2, <1>3, <1>4 DEF RuleData

\* The line of a name: the rule is the most specific that covers it.
LineRight(x, rs, labels) ==
    IF {i \in DOMAIN rs : RuleCovers(rs[i], labels)} = {} THEN x = NoRule
    ELSE /\ x \in {i \in DOMAIN rs : RuleCovers(rs[i], labels)}
         /\ \A i \in {k \in DOMAIN rs : RuleCovers(rs[k], labels)} :
               Len(RuleData(rs[i])) <= Len(RuleData(rs[x]))

LEMMA RuleFound ==
    ASSUME NEW E, NEW labels, NEW n, Offsets(E, labels, n), NEW T, TextOf(T, E, labels, n),
           T = Dotted(labels), NEW t, NEW rs, NEW N \in Nat, DOMAIN rs = 1 .. N,
           RuleEntries(t, rs), AllRules(t, rs), NEW K, K = Append(Reverse(T), 0)
    PROVE  LineRight(Lookup(t, K), rs, labels)
  <1>1. \A i \in DOMAIN rs : RuleCovers(rs[i], labels) <=> IsPrefix(RuleData(rs[i]), K)
    <2>1. ASSUME NEW i \in DOMAIN rs
          PROVE  RuleCovers(rs[i], labels) <=> IsPrefix(RuleData(rs[i]), K)
      <3>1. PICK rule : rule = rs[i]
        OBVIOUS
      <3>2. rule \in Seq(Octet) /\ RuleOk(rule)
        BY <3>1 DEF AllRules
      <3>3. RuleCovers(rule, labels) <=> IsPrefix(RuleData(rule), K)
        BY <3>2, CoversIs
      <3> QED  BY <3>1, <3>3
    <2> QED  BY <2>1
  <1>2. IsTrie(t, Octet, N)
    <2>1. ASSUME NEW d \in DOMAIN t PROVE d \in Seq(Octet) /\ t[d] \in 1 .. N
      <3>1. PICK i \in DOMAIN rs : i = t[d] /\ RuleData(rs[i]) = d
        BY DEF RuleEntries
      <3>2. rs[i] \in Seq(Octet)
        BY DEF AllRules
      <3> QED  BY <3>1, <3>2, DataTyped
    <2> QED  BY <2>1 DEF IsTrie
  <1>3. K \in Seq(Octet)
    <2>1. T \in Seq(Octet)
      BY DEF TextOf
    <2>2. PICK l \in Nat : l = Len(T)
      BY <2>1, LenProperties
    <2>3. Ending(K, T, l)
      BY <2>1, <2>2, EndingIs
    <2> QED  BY <2>3 DEF Ending
  <1>4. PICK x : x = Lookup(t, K)
    OBVIOUS
  <1>5. \/ x = NoRule /\ \A d \in DOMAIN t : ~IsPrefix(d, K)
        \/ \E d \in DOMAIN t :
              /\ IsPrefix(d, K) /\ x = t[d] /\ t[d] # NoRule
              /\ \A e \in DOMAIN t : IsPrefix(e, K) => Len(e) <= Len(d)
    BY <1>2, <1>3, <1>4, LookupIs
  <1>6. CASE x = NoRule /\ \A d \in DOMAIN t : ~IsPrefix(d, K)
    <2>1. ASSUME NEW i \in DOMAIN rs PROVE ~RuleCovers(rs[i], labels)
      <3>1. RuleData(rs[i]) \in DOMAIN t
        BY DEF AllRules
      <3> QED  BY <1>1, <1>6, <3>1
    <2> QED  BY <1>4, <1>6, <2>1 DEF LineRight
  <1>7. ASSUME NEW d \in DOMAIN t, IsPrefix(d, K), x = t[d],
               \A e \in DOMAIN t : IsPrefix(e, K) => Len(e) <= Len(d)
        PROVE  LineRight(x, rs, labels)
    <2>1. x \in DOMAIN rs /\ RuleData(rs[x]) = d
      BY <1>7 DEF RuleEntries
    <2>2. RuleCovers(rs[x], labels)
      BY <1>1, <1>7, <2>1
    <2>3. ASSUME NEW i \in DOMAIN rs, RuleCovers(rs[i], labels)
          PROVE  Len(RuleData(rs[i])) <= Len(RuleData(rs[x]))
      <3>1. RuleData(rs[i]) \in DOMAIN t
        BY DEF AllRules
      <3> QED  BY <1>1, <1>7, <2>1, <2>3, <3>1
    <2> QED  BY <2>1, <2>2, <2>3 DEF LineRight
  <1> QED  BY <1>4, <1>5, <1>6, <1>7

\* What one hook logs of a query.
LEMMA SendRight ==
    ASSUME NEW q, q.wire \in Seq(Octet), Spells(q.labels, q.wire), NEW t, NEW rs,
           NEW N \in Nat, DOMAIN rs = 1 .. N, RuleEntries(t, rs), AllRules(t, rs)
    PROVE  DnsRight(q, HandleSend(q, t), rs)
  <1>1. PICK labels, w : labels = q.labels /\ w = q.wire
    OBVIOUS
  <1>. w \in Seq(Octet)
    BY <1>1
  <1>2. Spells(labels, w)
    BY <1>1
  <1>3. PICK c : c = Qname(w)
    OBVIOUS
  <1>4. HandleSend(q, t) =
            IF /\ q.port53 /\ q.reads /\ Len(w) >= 5 /\ ~q.resp /\ q.qdcount = 1
               /\ c.done /\ c.name # <<>>
            THEN <<[name |-> c.name, rule |-> Lookup(t, Append(Reverse(c.name), 0))]>>
            ELSE <<>>
    BY <1>1, <1>3 DEF HandleSend
  <1>5. CASE labels = <<>>
    <2>1. c.done = TRUE => c.name = <<>>
      BY <1>2, <1>3, <1>5, NoName
    <2>2. ~Regular(q)
      BY <1>1, <1>5 DEF Regular
    <2>3. HandleSend(q, t) = <<>>
      BY <1>4, <2>1
    <2> QED  BY <2>2, <2>3 DEF DnsRight
  <1>6. CASE labels # <<>>
    <2>1. PICK n, E, D : Offsets(E, labels, n) /\ Spelling(D, labels, n) /\ Encodes(w, E, labels, n)
      BY <1>2, <1>6, SpelledOut
    <2>2. PICK T : T = D[n]
      OBVIOUS
    <2>3. TextOf(T, E, labels, n)
      <3>1. n \in 1 .. n
        BY <2>1 DEF Offsets
      <3> QED  BY <2>1, <2>2, <3>1, TextIs
    <2>4. T = Dotted(labels)
      BY <2>1, <2>2 DEF Spelling
    <2>5. IF Len(T) <= NAME_MAX_LEN THEN Ended(c, T) ELSE c.done = FALSE
      BY <1>3, <2>1, <2>3, QnameIs
    <2>6. CASE Len(T) <= NAME_MAX_LEN
      <3>1. c.done = TRUE /\ c.name = T
        BY <2>5, <2>6 DEF Ended
      <3>2. Len(w) >= 5 /\ T # <<>>
        <4>1. PICK e \in Nat : e = E[n] /\ e >= 2
          <5>1. n \in 1 .. n /\ n - 1 \in 0 .. n
            BY <2>1 DEF Offsets
          <5>2. PICK x \in Nat, y \in 1 .. 63 : x = E[n - 1] /\ y = Len(labels[n]) /\ E[n] = x + y + 1
            BY <2>1, <5>1 DEF Offsets
          <5>3. \A a \in Nat, b \in 1 .. 63 : a + b + 1 \in Nat /\ a + b + 1 >= 2
            OBVIOUS
          <5>4. x + y + 1 \in Nat /\ x + y + 1 >= 2
            BY <5>3
          <5> QED  BY <5>2, <5>4
        <4>2. Len(w) \in Nat /\ Len(w) >= e + 5
          BY <2>1, <4>1, LenProperties DEF Encodes
        <4>3. Len(T) = e - 1
          BY <2>3, <4>1 DEF TextOf
        <4> QED  BY <4>1, <4>2, <4>3
      <3>3. PICK K : K = Append(Reverse(T), 0)
        OBVIOUS
      <3>4. LineRight(Lookup(t, K), rs, labels)
        BY <2>1, <2>3, <2>4, <3>3, RuleFound
      <3>5. CASE Regular(q)
        <4>1. PICK x : x = Lookup(t, K)
          OBVIOUS
        <4>2. HandleSend(q, t) = <<[name |-> T, rule |-> x]>>
          BY <1>4, <3>1, <3>2, <3>3, <3>5, <4>1 DEF Regular
        <4> QED  BY <1>1, <2>4, <3>4, <3>5, <4>1, <4>2 DEF DnsRight, LineRight
      <3>6. CASE ~Regular(q)
        <4>1. ~(q.port53 /\ q.reads /\ ~q.resp /\ q.qdcount = 1)
          BY <1>1, <1>6, <2>4, <2>6, <3>6 DEF Regular
        <4>2. HandleSend(q, t) = <<>>
          BY <1>4, <4>1
        <4> QED  BY <3>6, <4>2 DEF DnsRight
      <3> QED  BY <3>5, <3>6
    <2>7. CASE ~(Len(T) <= NAME_MAX_LEN)
      <3>1. ~Regular(q)
        BY <1>1, <2>4, <2>7 DEF Regular
      <3>2. HandleSend(q, t) = <<>>
        BY <1>4, <2>5, <2>7
      <3> QED  BY <3>1, <3>2 DEF DnsRight
    <2> QED  BY <2>6, <2>7
  <1> QED  BY <1>5, <1>6

\* Nothing of the trie is anything but a rule of the build, and load() refuses a rule there is no
\* room for; so behind its last step the trie holds them all.
DnsInv ==
    /\ \A i \in DOMAIN rules : rules[i] \in Seq(Octet)
    /\ RuleEntries(trie, rules)
    /\ phase \in {"loading", "serving"} =>
          \A i \in 1 .. step - 1 : Steps[i].do = "rule" => RuleOk(rules[Steps[i].of])
    /\ DnsExact

LEMMA UpdateRules ==
    ASSUME NEW t, NEW rs, RuleEntries(t, rs), NEW k \in DOMAIN rs, RuleOk(rs[k])
    PROVE  RuleEntries(Update(t, RuleData(rs[k]), k), rs)
  <1> DEFINE e == RuleData(rs[k])
  <1>1. PICK u : u = Update(t, e, k)
    OBVIOUS
  <1>2. /\ DOMAIN u = DOMAIN t \cup {e}
        /\ \A d \in DOMAIN u : u[d] = IF d = e THEN k ELSE t[d]
    BY <1>1 DEF Update
  <1>3. ASSUME NEW d \in DOMAIN u
        PROVE  u[d] \in DOMAIN rs /\ RuleOk(rs[u[d]]) /\ RuleData(rs[u[d]]) = d
    <2>1. CASE d = e
      BY <1>2, <2>1
    <2>2. CASE d # e
      <3>1. d \in DOMAIN t /\ u[d] = t[d]
        BY <1>2, <2>2
      <3> QED  BY <3>1 DEF RuleEntries
    <2> QED  BY <2>1, <2>2
  <1>4. RuleEntries(u, rs)
    BY <1>3 DEF RuleEntries
  <1> QED  BY <1>1, <1>4

LEMMA RulesLoaded ==
    ASSUME Inv, DnsInv, phase = "serving"
    PROVE  AllRules(trie, rules)
  <1>1. DOMAIN Steps = 1 .. Len(Steps) /\ Len(Steps) \in Nat
    BY StepsSeq, LenProperties DEF Inv
  <1>2. step = Len(Steps) + 1
    BY DEF Inv
  <1>3. ASSUME NEW k \in DOMAIN rules
        PROVE  RuleOk(rules[k]) /\ RuleData(rules[k]) \in DOMAIN trie
    <2>0. Do("rule", k) \in StepSet
      BY DEF StepSet, Do
    <2>1. PICK i \in DOMAIN Steps : Steps[i] = Do("rule", k)
      BY <2>0, StepsSeq DEF Inv, Has
    <2>2. i \in 1 .. step - 1
      BY <1>1, <1>2
    <2>3. Done(Steps[i])
      BY <2>2 DEF Inv
    <2>4. Steps[i].do = "rule" /\ Steps[i].of = k
      BY <2>1 DEF Do
    <2>5. RuleOk(rules[k])
      BY <2>2, <2>4 DEF DnsInv
    <2> QED  BY <2>3, <2>4, <2>5 DEF Done
  <1> QED  BY <1>3 DEF AllRules, DnsInv

\* Whichever of the two functions the kernel takes a send through, one of the hooks handles it.
LEMMA OneHook ==
    ASSUME NEW d \in Dests, NEW q, NEW t, NEW attached,
           "mon_dns_udpv6_sendmsg" \in attached, "mon_dns_udp_sendmsg" \in attached
    PROVE  DnsLogged(d, q, t, attached) = HandleSend(q, t)
  <1>1. PICK h : h = HandleSend(q, t)
    OBVIOUS
  <1>2. h \o <<>> = h /\ <<>> \o h = h
    <2>1. h = <<>> \/ \E x : h = <<x>>
      BY <1>1 DEF HandleSend
    <2>2. PICK S : h \in Seq(S)
      <3>1. CASE h = <<>>
        BY <3>1, EmptySeq
      <3>2. ASSUME NEW x, h = <<x>> PROVE \E S : h \in Seq(S)
        <4>1. h \in Seq({x})
          BY <3>2
        <4> QED  BY <4>1
      <3> QED  BY <2>1, <3>1, <3>2
    <2> QED  BY <2>2, ConcatEmptySeq
  <1>3. PICK a, b \in {h, <<>>} : DnsLogged(d, q, t, attached) = a \o b
           /\ a = (IF "mon_dns_udpv6_sendmsg" \in HooksRun(d) /\ ~V6Skips(d) THEN h ELSE <<>>)
           /\ b = (IF "mon_dns_udp_sendmsg" \in HooksRun(d) THEN h ELSE <<>>)
    BY <1>1 DEF DnsLogged
  <1>4. CASE d.sk = "v4"
    <2>1. a = <<>> /\ b = h
      BY <1>3, <1>4 DEF HooksRun
    <2> QED  BY <1>1, <1>2, <1>3, <2>1
  <1>5. CASE d.sk = "v6"
    <2>2. "mon_dns_udpv6_sendmsg" \in HooksRun(d)
      BY <1>5 DEF HooksRun
    <2>3. "mon_dns_udp_sendmsg" \in HooksRun(d) <=> V6Skips(d)
      BY <1>5 DEF HooksRun, V6Skips
    <2> QED  BY <1>1, <1>2, <1>3, <2>2, <2>3
  <1>6. d.sk = "v4" \/ d.sk = "v6"
    BY DEF Dests
  <1> QED  BY <1>4, <1>5, <1>6

\* The query of a tracked task.
LEMMA QueryCallRight ==
    ASSUME Inv, DnsInv, NEW c \in Calls, Call(c), c.kind = "query", phase = "serving"
    PROVE  DnsRight(c, call'.logged, rules)
  <1>1. call'.logged = DnsLogged(c.dest, c, trie, links)
    BY CallLogged DEF Logged
  <1>2. c.wire \in Seq(Octet) /\ Spells(c.labels, c.wire) /\ c.dest \in Dests
    BY CallsAssumption
  <1>3. ASSUME NEW x \in Names PROVE x \in links
    <2>1. Do("attach", x) \in StepSet
      BY DEF StepSet, Do
    <2>2. Done(Do("attach", x))
      BY <2>1, StepDone
    <2> QED  BY <2>2 DEF Done, Do
  <1>4. "mon_dns_udpv6_sendmsg" \in links /\ "mon_dns_udp_sendmsg" \in links
    <2>1. "mon_dns_udpv6_sendmsg" \in Names /\ "mon_dns_udp_sendmsg" \in Names
      BY DEF Names
    <2> QED  BY <1>3, <2>1
  <1>5. call'.logged = HandleSend(c, trie)
    <2>1. PICK d \in Dests : d = c.dest
      BY <1>2
    <2>2. DnsLogged(d, c, trie, links) = HandleSend(c, trie)
      BY <1>4, OneHook
    <2> QED  BY <1>1, <2>1, <2>2
  <1>6. PICK N \in Nat : DOMAIN rules = 1 .. N
    BY DEF Inv, BuildOK
  <1>7. AllRules(trie, rules) /\ RuleEntries(trie, rules)
    BY RulesLoaded DEF DnsInv
  <1>8. DnsRight(c, HandleSend(c, trie), rules)
    BY <1>2, <1>6, <1>7, SendRight
  <1> QED  BY <1>5, <1>8

LEMMA InitDns == Init => DnsInv
  <1> SUFFICES ASSUME Init PROVE DnsInv
    OBVIOUS
  <1>1. \A i \in DOMAIN rules : rules[i] \in Seq(Octet)
    BY BuildsAssumption DEF Init
  <1>2. trie = Empty /\ DOMAIN Empty = {}
    BY DEF Init, Empty
  <1>3. call.kind # "query"
    BY DEF Init, NoCall
  <1>4. 1 .. step - 1 = {}
    BY DEF Init
  <1> QED  BY <1>1, <1>2, <1>3, <1>4 DEF DnsInv, RuleEntries, DnsExact

LEMMA NextDns == Inv /\ DnsInv /\ [Next]_vars => DnsInv'
  <1> SUFFICES ASSUME Inv, DnsInv, [Next]_vars PROVE DnsInv'
    OBVIOUS
  <1>1. UNCHANGED <<patterns, rules>>
    BY DEF Next, Loading, Dropping, Load, LoadPattern, LoadRule, Attach, FillJmp, Bind, Leave,
           DropLink, DropObjects, Restart, Track, Call, Return, vars
  <1>2. Steps' = Steps
    BY <1>1, SameSteps
  <1>3. (\A i \in DOMAIN rules : rules[i] \in Seq(Octet))'
    BY <1>1 DEF DnsInv
  <1>4. RuleEntries(trie, rules)'
    <2>1. CASE LoadRule
      <3>1. PICK k : k = Steps[step].of
        OBVIOUS
      <3>2. k \in DOMAIN rules
        <4>1. Steps[step] \in StepSet /\ Steps[step].do = "rule"
          BY <2>1, TakeStep DEF LoadRule
        <4> QED  BY <3>1, <4>1 DEF StepSet
      <3>3. RuleOk(rules[k]) /\ trie' = Update(trie, RuleData(rules[k]), k)
        BY <2>1, <3>1 DEF LoadRule
      <3>4. RuleEntries(trie, rules)
        BY DEF DnsInv
      <3>5. RuleEntries(Update(trie, RuleData(rules[k]), k), rules)
        BY <3>2, <3>3, <3>4, UpdateRules
      <3> QED  BY <1>1, <3>3, <3>5 DEF RuleEntries
    <2>2. CASE DropObjects
      <3>1. trie' = Empty /\ DOMAIN Empty = {}
        BY <2>2 DEF DropObjects, Empty
      <3> QED  BY <3>1 DEF RuleEntries
    <2>3. CASE UNCHANGED trie
      BY <1>1, <2>3 DEF DnsInv, RuleEntries
    <2> QED
      BY <2>1, <2>2, <2>3
         DEF Next, Loading, Dropping, Load, LoadPattern, Attach, FillJmp, Bind, Leave,
             DropLink, Restart, Track, Call, Return, vars
  <1>5. ASSUME phase' \in {"loading", "serving"}, NEW i \in 1 .. step' - 1, Steps[i].do = "rule"
        PROVE  RuleOk(rules[Steps[i].of])
    <2>1. Len(Steps) \in Nat /\ step \in 1 .. Len(Steps) + 1
      BY StepsSeq, LenProperties DEF Inv
    <2>2. CASE Loading
      <3>1. phase = "loading" /\ (step' = step + 1 \/ step' = step)
        BY <2>2 DEF Loading, Load, LoadPattern, LoadRule, Attach, FillJmp, Bind, Take
      <3>2. CASE i \in 1 .. step - 1
        BY <1>5, <3>1, <3>2 DEF DnsInv
      <3>3. CASE i = step
        <4>1. step' = step + 1 /\ ~Bind
          BY <2>1, <3>1, <3>3 DEF Bind
        <4>2. LoadRule
          BY <1>5, <2>2, <3>3, <4>1 DEF Loading, Load, LoadPattern, Attach, FillJmp, Take
        <4> QED  BY <3>3, <4>2 DEF LoadRule
      <3> QED  BY <2>1, <3>1, <3>2, <3>3
    <2>3. CASE Restart
      <3>1. step' = 1
        BY <2>3 DEF Restart, Inv
      <3> QED  BY <3>1
    <2>4. CASE UNCHANGED <<phase, step>>
      BY <1>5, <2>4 DEF DnsInv
    <2>5. CASE Leave \/ DropObjects
      BY <1>5, <2>5 DEF Leave, DropObjects
    <2> QED
      BY <2>2, <2>3, <2>4, <2>5 DEF Next, Dropping, DropLink, Track, Call, Return, vars
  <1>6. DnsExact'
    <2>1. ASSUME NEW c \in Calls, Call(c) PROVE DnsExact'
      <3>1. call'.kind = c.kind /\ call'.of = c /\ call'.served = (phase = "serving")
        BY <2>1 DEF Call
      <3>2. ASSUME c.kind = "query", phase = "serving"
            PROVE  DnsRight(call'.of, call'.logged, rules')
        BY <1>1, <2>1, <3>1, <3>2, QueryCallRight
      <3> QED  BY <3>1, <3>2 DEF DnsExact
    <2>2. CASE Return
      BY <2>2 DEF Return, NoCall, DnsExact
    <2>3. CASE UNCHANGED call
      BY <1>1, <2>3 DEF DnsInv, DnsExact
    <2> QED
      BY <2>1, <2>2, <2>3
         DEF Next, Loading, Dropping, Load, LoadPattern, LoadRule, Attach, FillJmp, Bind, Leave,
             DropLink, DropObjects, Restart, Track, vars
  <1>7. (phase \in {"loading", "serving"} =>
            \A i \in 1 .. step - 1 : Steps[i].do = "rule" => RuleOk(rules[Steps[i].of]))'
    BY <1>1, <1>2, <1>5
  <1> HIDE DEF DnsInv
  <1> QED  BY <1>3, <1>4, <1>6, <1>7 DEF DnsInv

\* Whatever rules the daemon is built with and whatever name a tracked task asks for, over whichever
\* of the two hooked functions: a query for a name there is room for is logged once, under that
\* name, with the most specific rule that covers it or as a miss; anything else is not logged.
THEOREM DnsCorrect == Spec => []DnsExact
  <1>1. Init => Inv /\ DnsInv
    BY InitInv, InitDns
  <1>2. (Inv /\ DnsInv) /\ [Next]_vars => (Inv /\ DnsInv)'
    BY NextInv, NextDns
  <1>3. DnsInv => DnsExact
    BY DEF DnsInv
  <1> QED  BY <1>1, <1>2, <1>3, PTL DEF Spec

(***************************************************************************)
(* Packets: what their bytes are.                                          *)
(***************************************************************************)

\* A number in two bytes; as the parsers read it, a low byte from 128 up makes it too large for
\* any packet that is read.
TwoBytesOf(s, n) == s \in Seq(Nat) /\ Len(s) = 2 /\ s[1] = n \div 256 /\ s[2] = n % 256
ReadAs(x, n) == x \in Nat /\ IF n % 256 < 128 THEN x = n ELSE x >= 65408

LEMMA DivMod ==
    ASSUME NEW n \in Nat
    PROVE  n \div 256 \in Nat /\ n % 256 \in 0 .. 255 /\ n = 256 * (n \div 256) + (n % 256)
  OBVIOUS

LEMMA TwoBytesIs ==
    ASSUME NEW n \in Nat PROVE TwoBytesOf(TwoBytes(n), n)
  <1>1. PICK a \in Nat, b \in Nat : a = n \div 256 /\ b = n % 256
    BY DivMod
  <1>2. <<a, b>> \in Seq(Nat) /\ Len(<<a, b>>) = 2 /\ <<a, b>>[1] = a /\ <<a, b>>[2] = b
    OBVIOUS
  <1> QED  BY <1>1, <1>2 DEF TwoBytes, TwoBytesOf

LEMMA U16Is ==
    ASSUME NEW d, NEW i \in Nat, NEW n \in Nat, d[i + 1] = n \div 256, d[i + 2] = n % 256
    PROVE  ReadAs(U16(d, i), n)
  <1>1. PICK a \in Nat, b \in 0 .. 255 : a = n \div 256 /\ b = n % 256 /\ n = 256 * a + b
    BY DivMod
  <1>2. At(d, i) = a /\ At(d, i + 1) = b
    <2>1. (i + 1) + 1 = i + 2
      OBVIOUS
    <2> QED  BY <1>1, <2>1 DEF At
  <1>3. U16(d, i) = IF b >= 128 THEN 65280 + b ELSE 256 * a + b
    BY <1>2 DEF U16
  <1>4. CASE b >= 128
    <2>1. 65280 + b \in Nat /\ 65280 + b >= 65408 /\ ~(b < 128)
      BY <1>4
    <2> QED  BY <1>1, <1>3, <1>4, <2>1 DEF ReadAs
  <1>5. CASE ~(b >= 128)
    <2>1. b < 128
      BY <1>5
    <2> QED  BY <1>1, <1>3, <1>5, <2>1 DEF ReadAs
  <1> QED  BY <1>4, <1>5

\* u is s and t behind it, which are of m and n bytes.
Joined(u, s, m, t, n) ==
    /\ u \in Seq(Nat) /\ Len(u) = m + n
    /\ \A i \in 1 .. m : u[i] = s[i]
    /\ \A j \in 1 .. n : u[m + j] = t[j]

LEMMA ZerosIs ==
    ASSUME NEW n \in Nat
    PROVE  Zeros(n) \in Seq(Nat) /\ Len(Zeros(n)) = n /\ \A i \in 1 .. n : Zeros(n)[i] = 0
  <1>1. Zeros(n) \in [1 .. n -> Nat] /\ \A i \in 1 .. n : Zeros(n)[i] = 0
    BY DEF Zeros
  <1> QED  BY <1>1, FunSeq, LenProperties

\* A list of pieces, laid end to end, and where each ends.
Laid(w, A, ss, n) ==
    /\ A \in [0 .. n -> Nat] /\ A[0] = 0 /\ A[n] = Len(w) /\ w \in Seq(Nat)
    /\ \A k \in 1 .. n : /\ A[k] = A[k - 1] + Len(ss[k])
                         /\ \A j \in 1 .. Len(ss[k]) : w[A[k - 1] + j] = ss[k][j]

LEMMA LaidOut ==
    ASSUME NEW n \in Nat, NEW ss \in Seq(Seq(Nat)), Len(ss) = n, NEW w, w = FlattenSeq(ss)
    PROVE  \E A : Laid(w, A, ss, n)
  <1>1. CASE n = 0
    <2>1. w = <<>>
      <3>1. ss = <<>>
        BY <1>1, EmptySeq
      <3> QED  BY <3>1 DEF FlattenSeq
    <2>2. PICK A : A = [k \in 0 .. 0 |-> 0]
      OBVIOUS
    <2>3. Laid(w, A, ss, n)
      <3>1. w \in Seq(Nat) /\ Len(w) = 0
        BY <2>1
      <3>2. A \in [0 .. 0 -> Nat] /\ A[0] = 0
        BY <2>2
      <3>3. 1 .. 0 = {}
        OBVIOUS
      <3> QED  BY <1>1, <3>1, <3>2, <3>3 DEF Laid
    <2> QED  BY <2>3
  <1>2. CASE n # 0
    <2>1. n \in Nat \ {0}
      BY <1>2
    <2>2. PICK f : EndToEnd(f, ss, n, Nat)
      BY <2>1, FlattenSteps
    <2>3. /\ f \in [0 .. n -> Seq(Nat)] /\ f[0] = <<>> /\ f[n] = w
          /\ \A k \in 1 .. n : f[k] = f[k - 1] \o ss[k]
      BY <2>2 DEF EndToEnd
    <2>4. PICK A : A = [k \in 0 .. n |-> Len(f[k])]
      OBVIOUS
    <2>5. A \in [0 .. n -> Nat] /\ A[0] = 0 /\ \A k \in 0 .. n : A[k] = Len(f[k])
      <3>1. \A k \in 0 .. n : Len(f[k]) \in Nat
        BY <2>3, LenProperties
      <3>2. Len(f[0]) = 0 /\ 0 \in 0 .. n
        BY <2>3
      <3> QED  BY <2>4, <3>1, <3>2
    <2> DEFINE Up(m) == /\ \A k \in 0 .. m : A[k] <= A[m]
                        /\ \A k \in 1 .. m : /\ A[k] = A[k - 1] + Len(ss[k])
                                             /\ \A j \in 1 .. Len(ss[k]) : f[m][A[k - 1] + j] = ss[k][j]
               B == {m \in 0 .. n : Up(m)}
    <2>6. 0 \in B
      <3>1. \A k \in 0 .. 0 : A[k] <= A[0]
        BY <2>5
      <3> QED  BY <3>1
    <2>7. ASSUME NEW m \in 1 .. n, m - 1 \in B PROVE m \in B
      <3>1. m - 1 \in 0 .. n /\ m \in 0 .. n /\ Up(m - 1)
        BY <2>7
      <3>2. PICK s, t, u, a, l : s = f[m - 1] /\ t = ss[m] /\ u = f[m] /\ a = A[m - 1] /\ l = Len(t)
        OBVIOUS
      <3>3. s \in Seq(Nat) /\ t \in Seq(Nat) /\ a \in Nat /\ l \in Nat /\ a = Len(s) /\ u = s \o t
        <4>1. t \in Seq(Nat)
          BY <3>2, ElementOfSeq
        <4> QED  BY <2>3, <2>5, <3>1, <3>2, <4>1, LenProperties
      <3>4. /\ Len(u) = a + l
            /\ \A i \in 1 .. a : u[i] = s[i]
            /\ \A j \in 1 .. l : u[a + j] = t[j]
        BY <3>2, <3>3, JoinIs
      <3>5. A[m] = a + l
        BY <2>5, <3>1, <3>2, <3>4
      <3>6. ASSUME NEW k \in 0 .. m PROVE A[k] <= A[m]
        <4>1. CASE k = m
          BY <3>3, <3>5, <4>1
        <4>2. CASE k # m
          <5>1. k \in 0 .. m - 1 /\ k \in 0 .. n
            BY <4>2
          <5>2. A[k] <= a /\ A[k] \in Nat
            BY <2>5, <3>1, <3>2, <5>1
          <5> QED  BY <3>3, <3>5, <5>2
        <4> QED  BY <4>1, <4>2
      <3>7. ASSUME NEW k \in 1 .. m
            PROVE  /\ A[k] = A[k - 1] + Len(ss[k])
                   /\ \A j \in 1 .. Len(ss[k]) : u[A[k - 1] + j] = ss[k][j]
        <4>1. CASE k = m
          BY <3>2, <3>4, <3>5, <4>1
        <4>2. CASE k # m
          <5>1. k \in 1 .. m - 1 /\ k \in 0 .. m - 1 /\ k - 1 \in 0 .. n /\ k \in 1 .. n
            BY <4>2
          <5>2. PICK x \in Nat, y \in Nat : x = A[k - 1] /\ y = Len(ss[k])
            <6>1. ss[k] \in Seq(Nat)
              BY <5>1, ElementOfSeq
            <6> QED  BY <2>5, <5>1, <6>1, LenProperties
          <5>3. A[k] = x + y /\ A[k] <= a /\ \A j \in 1 .. y : s[x + j] = ss[k][j]
            BY <3>1, <3>2, <5>1, <5>2
          <5>4. \A j \in 1 .. y : x + j \in 1 .. a
            BY <3>3, <5>3
          <5> QED  BY <3>4, <5>2, <5>3, <5>4
        <4> QED  BY <4>1, <4>2
      <3>8. Up(m)
        BY <3>2, <3>6, <3>7
      <3> QED  BY <3>1, <3>8
    <2>8. \A m \in 0 .. n : m \in B
      <3> HIDE DEF B
      <3> QED  BY <2>6, <2>7, NatUp
    <2>9. n \in 0 .. n
      OBVIOUS
    <2>10. Up(n)
      BY <2>8, <2>9
    <2>11. Laid(w, A, ss, n)
      <3>1. w \in Seq(Nat) /\ A[n] = Len(w)
        BY <2>3, <2>5, <2>9
      <3> QED  BY <2>3, <2>5, <2>10, <3>1 DEF Laid
    <2> QED  BY <2>11
  <1> QED  BY <1>1, <1>2

LEMMA Joins ==
    ASSUME NEW s \in Seq(Nat), NEW t \in Seq(Nat), NEW m \in Nat, NEW n \in Nat, m = Len(s), n = Len(t),
           NEW u, u = s \o t
    PROVE  Joined(u, s, m, t, n)
  BY JoinIs DEF Joined

\* A packet's beginning.
Starts(w, u, m) == \A i \in 1 .. m : w[i] = u[i]

\* What is behind the first m bytes.
Follows(w, m, t, n) == \A j \in 1 .. n : w[m + j] = t[j]

LEMMA StartsOn ==
    ASSUME NEW u, NEW s, NEW m \in Nat, NEW t, NEW n \in Nat, Joined(u, s, m, t, n),
           NEW w, NEW l, l = m + n, Starts(w, u, l)
    PROVE  Starts(w, s, m) /\ Follows(w, m, t, n)
  <1>1. \A i \in 1 .. m : i \in 1 .. m + n
    OBVIOUS
  <1>2. \A j \in 1 .. n : m + j \in 1 .. m + n
    OBVIOUS
  <1> QED  BY <1>1, <1>2 DEF Joined, Starts, Follows

\* An extension's bytes.
ExtOf(s, e) ==
    /\ s \in Seq(Nat) /\ Len(s) = 4 + e.len
    /\ s[1] = e.type \div 256 /\ s[2] = e.type % 256 /\ s[3] = e.len \div 256 /\ s[4] = e.len % 256
    /\ e.type = 0 => /\ s[7] = 0 /\ s[8] = Len(e.name) \div 256 /\ s[9] = Len(e.name) % 256
                     /\ \A j \in 1 .. Len(e.name) : s[9 + j] = e.name[j]

Ext == [type : Word, len : Word, name : Seq(Octet)]

LEMMA WordIs == Word \subseteq Nat
  BY DEF Word

LEMMA ExtTyped ==
    ASSUME NEW e \in Ext
    PROVE  e.type \in Nat /\ e.len \in Nat /\ e.name \in Seq(Nat) /\ Len(e.name) \in Nat
  <1>1. e.type \in Word /\ e.len \in Word /\ e.name \in Seq(Octet)
    BY DEF Ext
  <1>2. Seq(Octet) \subseteq Seq(Nat)
    <2>1. Octet \subseteq Nat
      BY DEF Octet
    <2> QED  BY <2>1, SeqMonotonic
  <1>3. e.name \in Seq(Nat)
    BY <1>1, <1>2
  <1>4. e.type \in Nat /\ e.len \in Nat
    BY <1>1, WordIs
  <1> QED  BY <1>3, <1>4, LenProperties

\* Two bytes more.
LEMMA TwoMore ==
    ASSUME NEW s \in Seq(Nat), NEW m \in Nat, m = Len(s), NEW n, NEW t, TwoBytesOf(t, n), NEW u, u = s \o t
    PROVE  Joined(u, s, m, t, 2)
  <1>1. t \in Seq(Nat) /\ 2 = Len(t) /\ 2 \in Nat
    BY DEF TwoBytesOf
  <1> QED  BY <1>1, Joins

LEMMA OtherExtIs ==
    ASSUME NEW e \in Ext, e.type # 0
    PROVE  ExtOf(ExtBytes(e), e)
  <1>1. PICK l \in Nat, y \in Nat : l = e.len /\ y = e.type
    BY ExtTyped
  <1>2. PICK a, b, c : a = TwoBytes(y) /\ b = TwoBytes(l) /\ c = Zeros(l)
    OBVIOUS
  <1>3. TwoBytesOf(a, y) /\ TwoBytesOf(b, l)
    BY <1>2, TwoBytesIs
  <1>4. c \in Seq(Nat) /\ Len(c) = l
    BY <1>2, ZerosIs
  <1>5. PICK u, s : u = a \o b /\ s = u \o c
    OBVIOUS
  <1>6. Joined(u, a, 2, b, 2)
    <2>1. a \in Seq(Nat) /\ 2 = Len(a) /\ 2 \in Nat
      BY <1>3 DEF TwoBytesOf
    <2> QED  BY <1>3, <1>5, <2>1, TwoMore
  <1>7. Joined(s, u, 4, c, l)
    <2>1. u \in Seq(Nat) /\ 4 = Len(u)
      BY <1>6 DEF Joined
    <2> QED  BY <1>4, <1>5, <2>1, Joins
  <1>8. s = ExtBytes(e)
    BY <1>1, <1>2, <1>5 DEF ExtBytes
  <1>9. s[1] = a[1] /\ s[2] = a[2] /\ s[3] = b[1] /\ s[4] = b[2]
    <2>1. s[1] = u[1] /\ s[2] = u[2] /\ s[3] = u[3] /\ s[4] = u[4]
      BY <1>7 DEF Joined
    <2>2. u[1] = a[1] /\ u[2] = a[2] /\ u[2 + 1] = b[1] /\ u[2 + 2] = b[2]
      BY <1>6 DEF Joined
    <2> QED  BY <2>1, <2>2
  <1>10. s \in Seq(Nat) /\ Len(s) = 4 + l
    BY <1>7 DEF Joined
  <1> QED  BY <1>1, <1>3, <1>8, <1>9, <1>10, ZenonT(30) DEF ExtOf, TwoBytesOf

LEMMA ServerExtIs ==
    ASSUME NEW e \in Ext, e.type = 0, e.len = Len(e.name) + 5
    PROVE  ExtOf(ExtBytes(e), e)
  <1>1. PICK x \in Seq(Nat), l \in Nat, m \in Nat : x = e.name /\ l = Len(x) /\ m = e.len
    BY ExtTyped
  <1>2. m = l + 5
    BY <1>1
  <1>3. PICK a, b, c, d, f : /\ a = TwoBytes(0) /\ b = TwoBytes(m) /\ c = TwoBytes(l + 3)
                             /\ d = <<0>> /\ f = TwoBytes(l)
    OBVIOUS
  <1>4. TwoBytesOf(a, 0) /\ TwoBytesOf(b, m) /\ TwoBytesOf(c, l + 3) /\ TwoBytesOf(f, l)
    <2>1. l + 3 \in Nat /\ 0 \in Nat
      OBVIOUS
    <2> QED  BY <1>3, <2>1, TwoBytesIs
  <1>5. d \in Seq(Nat) /\ Len(d) = 1 /\ d[1] = 0
    BY <1>3
  <1>6. PICK u, v, w, z, s : u = a \o b /\ v = u \o c /\ w = v \o d /\ z = w \o f /\ s = z \o x
    OBVIOUS
  <1>7. Joined(u, a, 2, b, 2)
    <2>1. a \in Seq(Nat) /\ 2 = Len(a) /\ 2 \in Nat
      BY <1>4 DEF TwoBytesOf
    <2> QED  BY <1>4, <1>6, <2>1, TwoMore
  <1>8. Joined(v, u, 4, c, 2)
    <2>1. u \in Seq(Nat) /\ 4 = Len(u) /\ 4 \in Nat
      BY <1>7 DEF Joined
    <2> QED  BY <1>4, <1>6, <2>1, TwoMore
  <1>9. Joined(w, v, 6, d, 1)
    <2>1. v \in Seq(Nat) /\ 6 = Len(v)
      BY <1>8 DEF Joined
    <2> QED  BY <1>5, <1>6, <2>1, Joins
  <1>10. Joined(z, w, 7, f, 2)
    <2>1. w \in Seq(Nat) /\ 7 = Len(w) /\ 7 \in Nat
      BY <1>9 DEF Joined
    <2> QED  BY <1>4, <1>6, <2>1, TwoMore
  <1>11. Joined(s, z, 9, x, l)
    <2>1. z \in Seq(Nat) /\ 9 = Len(z)
      BY <1>10 DEF Joined
    <2> QED  BY <1>1, <1>6, <2>1, Joins
  <1>12. s = ExtBytes(e)
    BY <1>1, <1>2, <1>3, <1>6 DEF ExtBytes
  <1>13. /\ s[1] = a[1] /\ s[2] = a[2] /\ s[3] = b[1] /\ s[4] = b[2]
         /\ s[7] = d[1] /\ s[8] = f[1] /\ s[9] = f[2]
    <2>1. \A i \in 1 .. 9 : s[i] = z[i]
      BY <1>11 DEF Joined
    <2>2. (\A i \in 1 .. 7 : z[i] = w[i]) /\ z[7 + 1] = f[1] /\ z[7 + 2] = f[2]
      BY <1>10 DEF Joined
    <2>3. (\A i \in 1 .. 6 : w[i] = v[i]) /\ w[6 + 1] = d[1]
      BY <1>9 DEF Joined
    <2>4. \A i \in 1 .. 4 : v[i] = u[i]
      BY <1>8 DEF Joined
    <2>5. u[1] = a[1] /\ u[2] = a[2] /\ u[2 + 1] = b[1] /\ u[2 + 2] = b[2]
      BY <1>7 DEF Joined
    <2>6. z[8] = f[1] /\ z[9] = f[2] /\ w[7] = d[1] /\ u[3] = b[1] /\ u[4] = b[2]
      BY <2>2, <2>3, <2>5
    <2>7. s[8] = f[1] /\ s[9] = f[2]
      BY <2>1, <2>6
    <2>8. s[7] = d[1]
      BY <2>1, <2>2, <2>6
    <2>9. \A i \in 1 .. 4 : s[i] = u[i]
      BY <2>1, <2>2, <2>3, <2>4
    <2> QED  BY <2>5, <2>6, <2>7, <2>8, <2>9
  <1>14. /\ s \in Seq(Nat) /\ Len(s) = 4 + m
         /\ \A j \in 1 .. l : s[9 + j] = x[j]
    <2>1. 9 + l = 4 + m
      BY <1>2
    <2> QED  BY <1>11, <2>1 DEF Joined
  <1>15. s[7] = 0 /\ s[8] = l \div 256 /\ s[9] = l % 256
    BY <1>4, <1>5, <1>13 DEF TwoBytesOf
  <1>16. s[1] = 0 \div 256 /\ s[2] = 0 % 256 /\ s[3] = m \div 256 /\ s[4] = m % 256
    BY <1>4, <1>13 DEF TwoBytesOf
  <1> QED  BY <1>1, <1>12, <1>14, <1>15, <1>16 DEF ExtOf

\* A text, behind the first o bytes of a packet.
TextIn(w, o, x) == \A j \in 1 .. Len(x) : w[o + j] = x[j]

\* An extension's bytes there.
ExtIn(w, o, e) ==
    /\ w[o + 1] = e.type \div 256 /\ w[o + 2] = e.type % 256
    /\ w[o + 3] = e.len \div 256 /\ w[o + 4] = e.len % 256
    /\ e.type = 0 => /\ w[o + 7] = 0 /\ w[o + 8] = Len(e.name) \div 256 /\ w[o + 9] = Len(e.name) % 256
                     /\ TextIn(w, o + 9, e.name)

\* l bytes are the same.
Same(w, p, x, o, l) == \A j \in 1 .. l : w[p + j] = x[o + j]

LEMMA TextCopied ==
    ASSUME NEW t \in Seq(Nat), NEW m \in Nat, m = Len(t), NEW x, NEW o \in Nat, TextIn(x, o, t),
           NEW w, NEW p \in Nat, Same(w, p, x, o, m)
    PROVE  TextIn(w, p, t)
  BY DEF TextIn, Same

LEMMA ExtCopied ==
    ASSUME NEW e \in Ext, e.type = 0 => e.len = Len(e.name) + 5, NEW x, NEW o \in Nat, ExtIn(x, o, e),
           NEW w, NEW p \in Nat, NEW l \in Nat, l = e.len, Same(w, p, x, o, 4 + l)
    PROVE  ExtIn(w, p, e)
  <1>1. PICK m \in Nat : m = Len(e.name)
    BY ExtTyped
  <1>3. 1 \in 1 .. 4 + l /\ 2 \in 1 .. 4 + l /\ 3 \in 1 .. 4 + l /\ 4 \in 1 .. 4 + l
    OBVIOUS
  <1>4. w[p + 1] = x[o + 1] /\ w[p + 2] = x[o + 2] /\ w[p + 3] = x[o + 3] /\ w[p + 4] = x[o + 4]
    BY <1>3 DEF Same
  <1>5. ASSUME e.type = 0
        PROVE  w[p + 7] = x[o + 7] /\ w[p + 8] = x[o + 8] /\ w[p + 9] = x[o + 9] /\ TextIn(w, p + 9, e.name)
    <2>1. l = m + 5
      BY <1>1, <1>5
    <2>2. 7 \in 1 .. 4 + l /\ 8 \in 1 .. 4 + l /\ 9 \in 1 .. 4 + l
      BY <2>1
    <2>3. PICK a \in Nat, b \in Nat : a = p + 9 /\ b = o + 9
      OBVIOUS
    <2>4. ASSUME NEW j \in 1 .. m PROVE w[a + j] = x[b + j]
      <3>1. 9 + j \in 1 .. 4 + l
        BY <2>1
      <3>2. p + (9 + j) = a + j /\ o + (9 + j) = b + j
        BY <2>3
      <3>3. w[p + (9 + j)] = x[o + (9 + j)]
        BY <3>1 DEF Same
      <3> QED  BY <3>2, <3>3
    <2>5. TextIn(x, b, e.name)
      BY <1>5, <2>3 DEF ExtIn
    <2>6. TextIn(w, a, e.name)
      <3>1. Same(w, a, x, b, m)
        BY <2>4 DEF Same
      <3> QED  BY <1>1, <2>5, <3>1, ExtTyped, TextCopied
    <2> QED  BY <2>2, <2>3, <2>6 DEF Same
  <1>6. CASE e.type = 0
    <2>1. w[p + 7] = x[o + 7] /\ w[p + 8] = x[o + 8] /\ w[p + 9] = x[o + 9] /\ TextIn(w, p + 9, e.name)
      BY <1>5, <1>6
    <2>2. /\ x[o + 1] = e.type \div 256 /\ x[o + 2] = e.type % 256
          /\ x[o + 3] = e.len \div 256 /\ x[o + 4] = e.len % 256
          /\ x[o + 7] = 0 /\ x[o + 8] = Len(e.name) \div 256 /\ x[o + 9] = Len(e.name) % 256
      BY <1>6 DEF ExtIn
    <2> QED  BY <1>4, <2>1, <2>2, ZenonT(30) DEF ExtIn
  <1>7. CASE e.type # 0
    BY <1>4, <1>7 DEF ExtIn
  <1> QED  BY <1>6, <1>7

LEMMA ExtMoved ==
    ASSUME NEW e \in Ext, e.type = 0 => e.len = Len(e.name) + 5, NEW s, ExtOf(s, e), NEW o \in Nat, NEW w,
           \A j \in 1 .. Len(s) : w[o + j] = s[j]
    PROVE  ExtIn(w, o, e)
  <1>1. PICK l \in Nat : l = e.len
    BY ExtTyped
  <1>2. ExtIn(s, 0, e)
    <2>1. 0 + 1 = 1 /\ 0 + 2 = 2 /\ 0 + 3 = 3 /\ 0 + 4 = 4 /\ 0 + 7 = 7 /\ 0 + 8 = 8 /\ 0 + 9 = 9
      OBVIOUS
    <2>2. e.type = 0 => TextIn(s, 9, e.name)
      BY DEF ExtOf, TextIn
    <2> QED  BY <2>1, <2>2, ZenonT(30) DEF ExtOf, ExtIn
  <1>3. Same(w, o, s, 0, 4 + l)
    BY <1>1 DEF ExtOf, Same
  <1>4. 0 \in Nat
    OBVIOUS
  <1> QED  BY <1>1, <1>2, <1>3, <1>4, ExtCopied

\* A hello's extensions, where each ends, and the last of them with the hello.
ExtsIn(w, exts, n, A, e) ==
    /\ A \in [0 .. n -> Nat] /\ A[0] = e /\ A[n] = Len(w)
    /\ \A k \in 1 .. n : A[k] = A[k - 1] + 4 + exts[k].len /\ ExtIn(w, A[k - 1], exts[k])

IsExts(exts, n) ==
    /\ n \in Nat /\ exts \in Seq(Ext) /\ Len(exts) = n
    /\ \A k \in 1 .. n : exts[k] \in Ext /\ (exts[k].type = 0 => exts[k].len = Len(exts[k].name) + 5)

LEMMA ExtsLaid ==
    ASSUME NEW exts, NEW n, IsExts(exts, n), NEW x, x = ExtsBytes(exts)
    PROVE  x \in Seq(Nat) /\ Len(x) \in Nat /\ \E A : ExtsIn(x, exts, n, A, 0)
  <1>. n \in Nat
    BY DEF IsExts
  <1>1. PICK ss : ss = [i \in DOMAIN exts |-> ExtBytes(exts[i])]
    OBVIOUS
  <1>2. ASSUME NEW k \in 1 .. n PROVE ExtOf(ExtBytes(exts[k]), exts[k])
    BY OtherExtIs, ServerExtIs DEF IsExts
  <1>3. ss \in Seq(Seq(Nat)) /\ Len(ss) = n /\ \A k \in 1 .. n : ExtOf(ss[k], exts[k])
    <2>1. DOMAIN exts = 1 .. n
      BY LenProperties DEF IsExts
    <2>2. \A k \in 1 .. n : ss[k] = ExtBytes(exts[k])
      BY <1>1, <2>1
    <2>3. \A k \in 1 .. n : ExtOf(ss[k], exts[k])
      BY <1>2, <2>2
    <2>4. \A k \in 1 .. n : ss[k] \in Seq(Nat)
      BY <2>3 DEF ExtOf
    <2>5. ss \in [1 .. n -> Seq(Nat)]
      <3>1. DOMAIN ss = 1 .. n /\ ss = [k \in DOMAIN ss |-> ss[k]]
        BY <1>1, <2>1
      <3> QED  BY <2>4, <3>1
    <2> QED  BY <2>3, <2>5, FunSeq
  <1>4. PICK A : Laid(x, A, ss, n)
    <2>1. x = FlattenSeq(ss)
      BY <1>1 DEF ExtsBytes
    <2> QED  BY <1>3, <2>1, LaidOut
  <1>5. ASSUME NEW k \in 1 .. n PROVE A[k] = A[k - 1] + 4 + exts[k].len /\ ExtIn(x, A[k - 1], exts[k])
    <2>0. PICK o \in Nat : o = A[k - 1]
      <3>1. k - 1 \in 0 .. n
        OBVIOUS
      <3> QED  BY <1>4, <3>1 DEF Laid
    <2>1a. PICK e \in Ext : e = exts[k]
      BY DEF IsExts
    <2>1. PICK s : o = A[k - 1] /\ s = ss[k] /\ e = exts[k]
      BY <2>0, <2>1a
    <2>2. A[k] = o + Len(s) /\ \A j \in 1 .. Len(s) : x[o + j] = s[j]
      BY <1>4, <2>1 DEF Laid
    <2>3. ExtOf(s, e) /\ (e.type = 0 => e.len = Len(e.name) + 5)
      BY <1>3, <2>1 DEF IsExts
    <2>4. ExtIn(x, o, e)
      BY <2>2, <2>3, ExtMoved
    <2>5. Len(s) = 4 + e.len /\ e.len \in Nat
      BY <2>3, ExtTyped DEF ExtOf
    <2>6. o + Len(s) = o + 4 + e.len
      BY <2>5
    <2>7. A[k] = o + 4 + e.len
      BY <2>2, <2>6
    <2> QED  BY <2>1, <2>4, <2>7
  <1>6. A \in [0 .. n -> Nat] /\ A[0] = 0 /\ A[n] = Len(x) /\ x \in Seq(Nat)
    BY <1>4 DEF Laid
  <1>7. ExtsIn(x, exts, n, A, 0)
    BY <1>5, <1>6 DEF ExtsIn
  <1> QED  BY <1>6, <1>7, LenProperties

\* ... with e bytes in front of them.
LEMMA ExtsMoved ==
    ASSUME NEW exts, NEW n, IsExts(exts, n), NEW x, NEW A, ExtsIn(x, exts, n, A, 0), NEW y \in Nat, y = Len(x),
           NEW e \in Nat, NEW w, Len(w) = e + y, \A j \in 1 .. y : w[e + j] = x[j]
    PROVE  \E B : ExtsIn(w, exts, n, B, e)
  <1>. n \in Nat
    BY DEF IsExts
  <1>1. A \in [0 .. n -> Nat] /\ A[0] = 0 /\ A[n] = y
    BY DEF ExtsIn
  <1>2. PICK B : B = [k \in 0 .. n |-> e + A[k]]
    OBVIOUS
  <1>3. B \in [0 .. n -> Nat] /\ B[0] = e /\ B[n] = Len(w) /\ \A k \in 0 .. n : B[k] = e + A[k]
    BY <1>1, <1>2
  <1>4. \A k \in 0 .. n : A[k] <= y
    <2> DEFINE D == {k \in 0 .. n : A[n - k] <= y}
    <2>1. 0 \in D
      BY <1>1
    <2>2. ASSUME NEW k \in 1 .. n, k - 1 \in D PROVE k \in D
      <3>1. n - k + 1 \in 1 .. n /\ n - k \in 0 .. n /\ n - (k - 1) = n - k + 1 /\ (n - k + 1) - 1 = n - k
        OBVIOUS
      <3>2. PICK i \in 1 .. n : i = n - k + 1 /\ i - 1 = n - k /\ i - 1 \in 0 .. n /\ i \in 0 .. n
        BY <3>1
      <3>3. A[i] <= y
        BY <2>2, <3>1, <3>2
      <3>4. A[i] = A[i - 1] + 4 + exts[i].len /\ exts[i].len \in Nat /\ A[i - 1] \in Nat
        BY <1>1, <3>2, ExtTyped DEF ExtsIn, IsExts
      <3>5. A[i - 1] <= y
        BY <3>3, <3>4
      <3> QED  BY <3>2, <3>5
    <2>3. \A k \in 0 .. n : k \in D
      <3> HIDE DEF D
      <3> QED  BY <2>1, <2>2, NatUp
    <2>4. ASSUME NEW k \in 0 .. n PROVE A[k] <= y
      <3>1. n - k \in 0 .. n /\ n - (n - k) = k
        OBVIOUS
      <3>2. n - k \in D
        BY <2>3, <3>1
      <3> QED  BY <3>1, <3>2
    <2> QED  BY <2>4
  <1>5. ASSUME NEW k \in 1 .. n PROVE B[k] = B[k - 1] + 4 + exts[k].len /\ ExtIn(w, B[k - 1], exts[k])
    <2>1. k - 1 \in 0 .. n /\ k \in 0 .. n
      OBVIOUS
    <2>2. PICK a \in Nat, l \in Nat, m \in Nat : a = A[k - 1] /\ l = exts[k].len /\ m = Len(exts[k].name)
      BY <1>1, <2>1, ExtTyped DEF IsExts
    <2>3. A[k] = a + 4 + l /\ ExtIn(x, a, exts[k]) /\ a + 4 + l <= y
      BY <1>4, <2>1, <2>2 DEF ExtsIn
    <2>4. B[k] = e + (a + 4 + l) /\ B[k - 1] = e + a
      BY <1>3, <2>1, <2>2, <2>3
    <2>5. PICK p \in Nat : p = e + a
      OBVIOUS
    <2>6. ASSUME NEW j \in 1 .. 4 + l PROVE w[p + j] = x[a + j]
      <3>1. a + j \in 1 .. y /\ e + (a + j) = p + j
        BY <2>3, <2>5
      <3> QED  BY <3>1
    <2>9. ExtIn(w, p, exts[k])
      <3>1. PICK ek \in Ext : ek = exts[k] /\ (ek.type = 0 => ek.len = Len(ek.name) + 5)
        BY DEF IsExts
      <3>2. ExtIn(x, a, ek) /\ l = ek.len
        BY <2>2, <2>3, <3>1
      <3>3. ExtIn(w, p, ek)
        <4>1. Same(w, p, x, a, 4 + l)
          BY <2>6 DEF Same
        <4> QED  BY <3>1, <3>2, <4>1, ExtCopied
      <3> QED  BY <3>1, <3>3
    <2>10. B[k] = e + a + 4 + l
      BY <2>4
    <2> QED  BY <2>2, <2>4, <2>5, <2>9, <2>10
  <1>6. ExtsIn(w, exts, n, B, e)
    BY <1>3, <1>5 DEF ExtsIn
  <1> QED  BY <1>6

\* A hello's bytes: the session's length at 43, the ciphers' at a, the compressions' at b and the
\* extensions' at c; they start at e.
HelloOf(w, h, n, a, b, c, e, A) ==
    /\ w \in Seq(Nat) /\ a = 44 + h.sid /\ b = a + 2 + h.ciphers /\ c = b + 1 + h.comp /\ e = c + 2
    /\ w[1] = 22 /\ w[2] = 3 /\ w[6] = 1 /\ w[44] = h.sid
    /\ w[a + 1] = h.ciphers \div 256 /\ w[a + 2] = h.ciphers % 256
    /\ w[b + 1] = h.comp
    /\ \E z \in Nat : Len(w) = e + z /\ w[c + 1] = z \div 256 /\ w[c + 2] = z % 256
    /\ ExtsIn(w, h.exts, n, A, e)

LEMMA HelloTyped ==
    ASSUME NEW h, IsHello(h)
    PROVE  /\ h.sid \in Nat /\ h.ciphers \in Nat /\ h.comp \in Nat
           /\ \E n : IsExts(h.exts, n)
  <1>1. h.sid \in Nat /\ h.ciphers \in Nat /\ h.comp \in Nat
    <2>1. h.sid \in Octet /\ h.ciphers \in Word /\ h.comp \in Octet
      BY DEF IsHello
    <2>2. Octet \subseteq Nat
      BY DEF Octet
    <2> QED  BY <2>1, <2>2, WordIs
  <1>2. h.exts \in Seq(Ext) /\ \A e \in Range(h.exts) : e.type = 0 => e.len = Len(e.name) + 5
    BY DEF IsHello, Ext
  <1>3. PICK n \in Nat : n = Len(h.exts)
    BY <1>2, LenProperties
  <1>4. ASSUME NEW k \in 1 .. n
        PROVE  h.exts[k] \in Ext /\ (h.exts[k].type = 0 => h.exts[k].len = Len(h.exts[k].name) + 5)
    <2>1. h.exts[k] \in Ext
      BY <1>2, <1>3, ElementOfSeq
    <2>2. DOMAIN h.exts = 1 .. n
      BY <1>2, <1>3, LenProperties
    <2>3. h.exts[k] \in Range(h.exts)
      BY <2>2 DEF Range
    <2> QED  BY <1>2, <2>1, <2>3
  <1>5. IsExts(h.exts, n)
    BY <1>2, <1>3, <1>4 DEF IsExts
  <1> QED  BY <1>1, <1>5

\* One byte more.
LEMMA OneMore ==
    ASSUME NEW s \in Seq(Nat), NEW m \in Nat, m = Len(s), NEW x \in Nat, NEW t, t = <<x>>, NEW u, u = s \o t
    PROVE  Joined(u, s, m, t, 1)
  <1>1. t \in Seq(Nat) /\ 1 = Len(t) /\ 1 \in Nat
    OBVIOUS
  <1> QED  BY <1>1, Joins

\* Zeros.
LEMMA ZerosMore ==
    ASSUME NEW s \in Seq(Nat), NEW m \in Nat, m = Len(s), NEW n \in Nat, NEW u, u = s \o Zeros(n)
    PROVE  Joined(u, s, m, Zeros(n), n)
  BY Joins, ZerosIs

LEMMA JoinedTyped ==
    ASSUME NEW u, NEW s, NEW m, NEW t, NEW n, Joined(u, s, m, t, n), NEW l, l = m + n
    PROVE  u \in Seq(Nat) /\ l = Len(u)
  BY DEF Joined

LEMMA SniBytesIs ==
    ASSUME NEW h, IsHello(h), NEW n, IsExts(h.exts, n), NEW w, w = SniBytes(h)
    PROVE  \E a \in Nat, b \in Nat, c \in Nat, e \in Nat : \E A : HelloOf(w, h, n, a, b, c, e, A)
  <1>1. PICK sid \in Nat, cip \in Nat, com \in Nat : sid = h.sid /\ cip = h.ciphers /\ com = h.comp
    BY HelloTyped
  <1>2z. PICK x : x = ExtsBytes(h.exts)
    OBVIOUS
  <1>2y. PICK y \in Nat : y = Len(x)
    BY <1>2z, ExtsLaid
  <1>2. x = ExtsBytes(h.exts) /\ y = Len(x)
    BY <1>2z, <1>2y
  <1>3. x \in Seq(Nat)
    BY <1>2, ExtsLaid
  <1>4. PICK A0 : ExtsIn(x, h.exts, n, A0, 0)
    BY <1>2, ExtsLaid
  <1>5. PICK a \in Nat, b \in Nat, c \in Nat, e \in Nat :
            a = 44 + sid /\ b = a + 2 + cip /\ c = b + 1 + com /\ e = c + 2
    OBVIOUS
  <1>6. PICK p1, p3, p5, p7, p9 :
            p1 = <<22, 3, 1, 0, 0, 1>> /\ p3 = <<sid>> /\ p5 = TwoBytes(cip) /\ p7 = <<com>> /\ p9 = TwoBytes(y)
    OBVIOUS
  <1>7. PICK u2, u3, u4, u5, u6, u7, u8, u9, u10 :
            /\ u2 = p1 \o Zeros(37) /\ u3 = u2 \o p3 /\ u4 = u3 \o Zeros(sid) /\ u5 = u4 \o p5
            /\ u6 = u5 \o Zeros(cip) /\ u7 = u6 \o p7 /\ u8 = u7 \o Zeros(com) /\ u9 = u8 \o p9
            /\ u10 = u9 \o x
    OBVIOUS
  <1>8. w = u10
    BY <1>1, <1>2, <1>6, <1>7 DEF SniBytes
  <1>9. p1 \in Seq(Nat) /\ 6 = Len(p1) /\ p1[1] = 22 /\ p1[2] = 3 /\ p1[6] = 1
    BY <1>6
  <1>10. PICK l2 \in Nat, l3 \in Nat, l5 \in Nat, l7 \in Nat : l2 = 43 /\ l3 = 44 /\ l5 = a + 2 /\ l7 = b + 1
    OBVIOUS
  <1>11. Joined(u2, p1, 6, Zeros(37), 37)
    <2>1. 6 \in Nat /\ 37 \in Nat
      OBVIOUS
    <2> QED  BY <1>7, <1>9, <2>1, ZerosMore
  <1>12. Joined(u3, u2, l2, p3, 1)
    <2>1. l2 = 6 + 37
      BY <1>10
    <2>2. u2 \in Seq(Nat) /\ l2 = Len(u2)
      BY <1>11, <2>1 DEF Joined
    <2> QED  BY <1>6, <1>7, <2>2, OneMore
  <1>13. Joined(u4, u3, l3, Zeros(sid), sid)
    <2>1. l3 = l2 + 1
      BY <1>10
    <2>2. u3 \in Seq(Nat) /\ l3 = Len(u3)
      BY <1>12, <2>1, JoinedTyped
    <2> QED  BY <1>7, <2>2, ZerosMore
  <1>14. Joined(u5, u4, a, p5, 2)
    <2>1. u4 \in Seq(Nat) /\ a = Len(u4)
      BY <1>5, <1>10, <1>13, JoinedTyped
    <2>2. TwoBytesOf(p5, cip)
      BY <1>6, TwoBytesIs
    <2> QED  BY <1>7, <2>1, <2>2, TwoMore
  <1>15. Joined(u6, u5, l5, Zeros(cip), cip)
    <2>1. u5 \in Seq(Nat) /\ l5 = Len(u5)
      BY <1>10, <1>14, JoinedTyped
    <2> QED  BY <1>7, <2>1, ZerosMore
  <1>16. Joined(u7, u6, b, p7, 1)
    <2>1. u6 \in Seq(Nat) /\ b = Len(u6)
      BY <1>5, <1>10, <1>15, JoinedTyped
    <2>2. p7 = <<com>> /\ u7 = u6 \o p7
      BY <1>6, <1>7
    <2> QED  BY <2>1, <2>2, OneMore
  <1>17. Joined(u8, u7, l7, Zeros(com), com)
    <2>1. u7 \in Seq(Nat) /\ l7 = Len(u7)
      BY <1>10, <1>16, JoinedTyped
    <2> QED  BY <1>7, <2>1, ZerosMore
  <1>18. Joined(u9, u8, c, p9, 2)
    <2>1. u8 \in Seq(Nat) /\ c = Len(u8)
      BY <1>5, <1>10, <1>17, JoinedTyped
    <2>2. TwoBytesOf(p9, y)
      BY <1>6, TwoBytesIs
    <2> QED  BY <1>7, <2>1, <2>2, TwoMore, ZenonT(30)
  <1>19. Joined(w, u9, e, x, y)
    <2>1. u9 \in Seq(Nat) /\ e = Len(u9)
      BY <1>5, <1>18, JoinedTyped
    <2> QED  BY <1>2, <1>3, <1>7, <1>8, <2>1, Joins
  <1>20. Starts(w, u9, e) /\ Len(w) = e + y /\ w \in Seq(Nat) /\ \A j \in 1 .. y : w[e + j] = x[j]
    BY <1>19 DEF Joined, Starts
  <1>n. 1 \in Nat /\ 2 \in Nat /\ 6 \in Nat /\ 37 \in Nat
    OBVIOUS
  <1>21. Starts(w, u8, c) /\ Follows(w, c, p9, 2)
    <2>1. e = c + 2
      BY <1>5
    <2> QED  BY <1>18, <1>20, <1>n, <2>1, StartsOn
  <1>22. Starts(w, u7, l7)
    <2>1. c = l7 + com
      BY <1>5, <1>10
    <2> QED  BY <1>17, <1>21, <2>1, StartsOn
  <1>23. Starts(w, u6, b) /\ Follows(w, b, p7, 1)
    BY <1>10, <1>16, <1>22, <1>n, StartsOn
  <1>24. Starts(w, u5, l5)
    <2>1. b = l5 + cip
      BY <1>5, <1>10
    <2> QED  BY <1>15, <1>23, <2>1, StartsOn
  <1>25. Starts(w, u4, a) /\ Follows(w, a, p5, 2)
    BY <1>10, <1>14, <1>24, <1>n, StartsOn
  <1>26. Starts(w, u3, l3)
    <2>1. a = l3 + sid
      BY <1>5, <1>10
    <2> QED  BY <1>13, <1>25, <2>1, StartsOn
  <1>27. Starts(w, u2, l2) /\ Follows(w, l2, p3, 1)
    <2>1. l3 = l2 + 1
      BY <1>10
    <2> QED  BY <1>12, <1>26, <1>n, <2>1, StartsOn
  <1>28. Starts(w, p1, 6)
    <2>1. l2 = 6 + 37
      BY <1>10
    <2> QED  BY <1>11, <1>27, <1>n, <2>1, StartsOn
  <1>29. w[1] = 22 /\ w[2] = 3 /\ w[6] = 1
    BY <1>9, <1>28 DEF Starts
  <1>30. w[44] = sid
    <2>1. 1 \in 1 .. 1 /\ l2 + 1 = 44
      BY <1>10
    <2> QED  BY <1>6, <1>27, <2>1 DEF Follows
  <1>31. w[a + 1] = cip \div 256 /\ w[a + 2] = cip % 256
    <2>1. 1 \in 1 .. 2 /\ 2 \in 1 .. 2
      OBVIOUS
    <2>2. TwoBytesOf(p5, cip)
      BY <1>6, TwoBytesIs
    <2> QED  BY <1>25, <2>1, <2>2 DEF TwoBytesOf, Follows
  <1>32. w[b + 1] = com
    <2>1. 1 \in 1 .. 1
      OBVIOUS
    <2> QED  BY <1>6, <1>23, <2>1 DEF Follows
  <1>33. w[c + 1] = y \div 256 /\ w[c + 2] = y % 256
    <2>1. 1 \in 1 .. 2 /\ 2 \in 1 .. 2
      OBVIOUS
    <2>2. TwoBytesOf(p9, y)
      BY <1>6, TwoBytesIs
    <2> QED  BY <1>21, <2>1, <2>2 DEF TwoBytesOf, Follows
  <1>34. PICK A : ExtsIn(w, h.exts, n, A, e)
    <2>1. Same(w, e, x, 0, y)
      BY <1>20 DEF Same
    <2> QED  BY <1>2, <1>4, <1>20, <2>1, ExtsMoved, ZenonT(30)
  <1>35. HelloOf(w, h, n, a, b, c, e, A)
    BY <1>1, <1>5, <1>20, <1>29, <1>30, <1>31, <1>32, <1>33, <1>34, SMTT(30) DEF HelloOf
  <1> QED  BY <1>35

LEMMA MinOfTwo ==
    ASSUME NEW a \in Nat, NEW b \in Nat
    PROVE  Min({a, b}) \in Nat /\ Min({a, b}) <= a /\ Min({a, b}) <= b /\ (Min({a, b}) = a \/ Min({a, b}) = b)
  <1>1. {a, b} \subseteq Nat /\ {a, b} # {}
    OBVIOUS
  <1>2. Min({a, b}) \in {a, b} /\ \A n \in {a, b} : Min({a, b}) <= n
    BY <1>1, MinIs
  <1> QED  BY <1>2

\* The bytes of a packet w that are read.
Reading(d, w, l) == d \in Seq(Nat) /\ l \in Nat /\ Len(d) = l /\ l <= MAX_READ /\ l <= 255 /\ Starts(d, w, l)

\* The first l bytes of y, as many as m allows.
CutTo(u, w, y, m, l) ==
    /\ l <= y /\ l <= m /\ (l = y \/ l = m)
    /\ u \in Seq(Nat) /\ Len(u) = l /\ Starts(u, w, l)

LEMMA CutAt ==
    ASSUME NEW w \in Seq(Nat), NEW y \in Nat, y = Len(w), NEW m \in Nat, NEW u, u = Cut(w, m)
    PROVE  \E l \in Nat : CutTo(u, w, y, m, l)
  <1>1. PICK l \in Nat : l = Min({y, m}) /\ l <= y /\ l <= m /\ (l = y \/ l = m)
    BY MinOfTwo
  <1>2. u = SubSeq(w, 1, l) /\ l \in 0 .. y
    BY <1>1 DEF Cut
  <1>3. u \in Seq(Nat) /\ Len(u) = l /\ \A i \in 1 .. l : u[i] = w[i]
    BY <1>2, CutIs
  <1>4. CutTo(u, w, y, m, l)
    BY <1>1, <1>3 DEF Starts, CutTo
  <1> QED  BY <1>4

\* As many bytes as the message, the length asked for and the parser's buffer allow.
Got(d, w, y, len, l) ==
    Reading(d, w, l) /\ l <= y /\ l <= len /\ (l = y \/ l = len \/ l = MAX_READ)

LEMMA ReadIs ==
    ASSUME NEW w \in Seq(Nat), NEW y \in Nat, y = Len(w), NEW len \in Nat, NEW d, d = Read(w, len)
    PROVE  \E l \in Nat : Got(d, w, y, len, l)
  <1>1. MAX_READ \in Nat /\ MAX_READ <= 255
    BY PacketSizesAssumption
  <1>2. PICK m \in Nat : m = Min({len, MAX_READ}) /\ m <= len /\ m <= MAX_READ /\ (m = len \/ m = MAX_READ)
    BY <1>1, MinOfTwo
  <1>3. d = Cut(w, m)
    BY <1>2 DEF Read
  <1>4. PICK l \in Nat : CutTo(d, w, y, m, l)
    BY <1>3, CutAt
  <1>5. l <= len /\ l <= MAX_READ /\ l <= 255 /\ (l = y \/ l = len \/ l = MAX_READ)
    BY <1>1, <1>2, <1>4 DEF CutTo
  <1> QED  BY <1>4, <1>5 DEF Reading, CutTo, Got

\* One byte, and two, of a packet that is read so far.
LEMMA ByteRead ==
    ASSUME NEW d, NEW w, NEW l, Reading(d, w, l), NEW i \in Nat, i + 1 <= l
    PROVE  At(d, i) = w[i + 1] /\ At(d, i) \in Nat
  <1>1. i + 1 \in 1 .. l
    BY DEF Reading
  <1>2. d[i + 1] = w[i + 1] /\ d[i + 1] \in Nat
    BY <1>1, ElementOfSeq DEF Reading, Starts
  <1> QED  BY <1>2 DEF At

LEMMA WordRead ==
    ASSUME NEW d, NEW w, NEW l, Reading(d, w, l), NEW i \in Nat, i + 2 <= l,
           NEW n \in Nat, w[i + 1] = n \div 256, w[i + 2] = n % 256
    PROVE  ReadAs(U16(d, i), n)
  <1>1. i + 1 \in 1 .. l /\ i + 2 \in 1 .. l
    BY DEF Reading
  <1>2. d[i + 1] = n \div 256 /\ d[i + 2] = n % 256
    BY <1>1 DEF Reading, Starts
  <1> QED  BY <1>2, U16Is

\* Any two bytes make a number.
LEMMA WordTyped ==
    ASSUME NEW d, NEW w, NEW l, Reading(d, w, l), NEW i \in Nat, i + 2 <= l
    PROVE  U16(d, i) \in Nat
  <1>1. At(d, i) \in Nat
    <2>1. i + 1 <= l
      BY DEF Reading
    <2> QED  BY <2>1, ByteRead
  <1>2. At(d, i + 1) \in Nat
    <2>1. (i + 1) + 1 <= l /\ i + 1 \in Nat
      OBVIOUS
    <2> QED  BY <2>1, ByteRead
  <1>3. PICK a \in Nat, b \in Nat : a = At(d, i) /\ b = At(d, i + 1)
    BY <1>1, <1>2
  <1>4. U16(d, i) = IF b >= 128 THEN 65280 + b ELSE 256 * a + b
    BY <1>3 DEF U16
  <1>5. 65280 + b \in Nat /\ 256 * a + b \in Nat
    OBVIOUS
  <1> QED  BY <1>4, <1>5

\* The field behind: where it should be, too far to be read, or not there.
Stands(x, p, l) == x = p \/ x = 0 \/ (x \in Nat /\ x > l)

LEMMA BehindByte ==
    ASSUME NEW d, NEW w, NEW l, Reading(d, w, l), NEW x, NEW o \in Nat \ {0}, Stands(x, o, l),
           NEW n \in Nat, w[o + 1] = n, NEW y, y = Behind(d, x, 1)
    PROVE  /\ Stands(y, o + 1 + n, l)
           /\ x = o /\ o + 1 <= l => y = o + 1 + n
  <1>1. l \in Nat /\ Len(d) = l
    BY DEF Reading
  <1>2. CASE x = o /\ o + 1 <= l
    <2>1. Behind(d, x, 1) = o + 1 + At(d, o)
      BY <1>1, <1>2 DEF Behind
    <2>2. At(d, o) = n
      BY <1>2, ByteRead
    <2> QED  BY <2>1, <2>2 DEF Stands
  <1>3. CASE ~(x = o /\ o + 1 <= l)
    <2>1. x = 0 \/ x + 1 > l
      BY <1>1, <1>3 DEF Stands
    <2>2. y = 0
      BY <1>1, <2>1 DEF Behind
    <2> QED  BY <1>3, <2>2 DEF Stands
  <1> QED  BY <1>2, <1>3

LEMMA BehindWord ==
    ASSUME NEW d, NEW w, NEW l, Reading(d, w, l), NEW x, NEW o \in Nat \ {0}, Stands(x, o, l),
           NEW n \in Nat, w[o + 1] = n \div 256, w[o + 2] = n % 256, NEW y, y = Behind(d, x, 2)
    PROVE  /\ Stands(y, o + 2 + n, l)
           /\ x = o /\ o + 2 <= l /\ n % 256 < 128 => y = o + 2 + n
  <1>1. l \in Nat /\ Len(d) = l /\ l <= 255
    BY DEF Reading
  <1>2. CASE x = o /\ o + 2 <= l
    <2>1. y = o + 2 + U16(d, o)
      BY <1>1, <1>2 DEF Behind
    <2>2. PICK u : u = U16(d, o) /\ ReadAs(u, n)
      BY <1>2, WordRead
    <2>3. CASE n % 256 < 128
      <3>1. u = n
        BY <2>2, <2>3 DEF ReadAs
      <3> QED  BY <2>1, <2>2, <3>1 DEF Stands
    <2>4. CASE ~(n % 256 < 128)
      <3>1. u \in Nat /\ u >= 65408
        BY <2>2, <2>4 DEF ReadAs
      <3>2. o + 2 + u \in Nat /\ o + 2 + u > l
        BY <1>1, <3>1
      <3> QED  BY <2>1, <2>2, <2>4, <3>2 DEF Stands
    <2> QED  BY <2>3, <2>4
  <1>3. CASE ~(x = o /\ o + 2 <= l)
    <2>1. x = 0 \/ x + 2 > l
      BY <1>1, <1>3 DEF Stands
    <2>2. y = 0
      BY <1>1, <2>1 DEF Behind
    <2> QED  BY <1>3, <2>2 DEF Stands
  <1> QED  BY <1>2, <1>3

\* A piece of what is read.
Piece(u, w, i, n) == u \in Seq(Nat) /\ Len(u) = n /\ \A j \in 1 .. n : u[j] = w[i + j]

LEMMA SliceIs ==
    ASSUME NEW d, NEW w, NEW l, Reading(d, w, l), NEW i \in Nat, NEW n \in Nat, i + n <= l, NEW u, u = Slice(d, i, n)
    PROVE  Piece(u, w, i, n)
  <1>. l \in Nat /\ d \in Seq(Nat) /\ Len(d) = l
    BY DEF Reading
  <1>1. PICK a \in Nat, b \in Nat : a = i + 1 /\ b = i + n
    OBVIOUS
  <1>2. u = SubSeq(d, a, b)
    BY <1>1 DEF Slice
  <1>3. ASSUME NEW j \in a .. b PROVE d[j] \in Nat
    <2>1. j \in 1 .. l
      BY <1>1
    <2> QED  BY <2>1, ElementOfSeq
  <1>4. u \in Seq(Nat) /\ Len(u) = (IF a <= b THEN b - a + 1 ELSE 0) /\ \A j \in 1 .. b - a + 1 : u[j] = d[a + j - 1]
    BY <1>2, <1>3, SubSeqProperties, SMTT(30)
  <1>5. Len(u) = n
    BY <1>1, <1>4
  <1>6. ASSUME NEW j \in 1 .. n PROVE u[j] = w[i + j]
    <2>1. u[j] = d[i + j]
      <3>1. j \in 1 .. b - a + 1 /\ a + j - 1 = i + j
        BY <1>1
      <3> QED  BY <1>4, <3>1
    <2>2. i + j \in 1 .. l
      OBVIOUS
    <2> QED  BY <2>1, <2>2 DEF Reading, Starts
  <1> QED  BY <1>4, <1>5, <1>6 DEF Piece

\* The walk over extensions.
Sni(o, x, t) == [off |-> o, lines |-> x, stop |-> t]
SniState == [off : Nat, lines : Seq(Seq(Nat)), stop : BOOLEAN]

LEMMA SniExcept ==
    ASSUME NEW o, NEW x, NEW t, NEW s, s = Sni(o, x, t), NEW y
    PROVE  /\ s.off = o /\ s.lines = x /\ s.stop = t
           /\ [s EXCEPT !.off = y] = Sni(y, x, t)
           /\ [s EXCEPT !.lines = y] = Sni(o, y, t)
           /\ [s EXCEPT !.stop = y] = Sni(o, x, y)
  <1>1. s = [off |-> o, lines |-> x, stop |-> t]
    BY DEF Sni
  <1>2. /\ [s EXCEPT !.off = y] = [off |-> y, lines |-> x, stop |-> t]
        /\ [s EXCEPT !.lines = y] = [off |-> o, lines |-> y, stop |-> t]
        /\ [s EXCEPT !.stop = y] = [off |-> o, lines |-> x, stop |-> y]
    BY <1>1
  <1> QED  BY <1>1, <1>2 DEF Sni

LEMMA SniIs ==
    ASSUME NEW s \in SniState
    PROVE  \E o \in Nat, x \in Seq(Seq(Nat)), t \in BOOLEAN : s = Sni(o, x, t)
  BY DEF SniState, Sni

\* One round, from where the walk is.
SniRound(d, l, o, x, t, r) ==
    /\ t \/ o + 4 > l => r = Sni(o, x, TRUE)
    /\ ~t /\ o + 4 <= l /\ U16(d, o) # 0 => r = Sni(o + 4 + U16(d, o + 2), x, FALSE)
    /\ ~t /\ o + 4 <= l /\ U16(d, o) = 0 /\ o + 9 > l => r = Sni(0, <<>>, TRUE)
    /\ ~t /\ o + 9 <= l /\ U16(d, o) = 0 /\ At(d, o + 6) = 0 /\ o + 9 + U16(d, o + 7) <= l =>
          r = Sni(0, <<Slice(d, o + 9, Min({U16(d, o + 7), NAME_ROOM - 1}))>>, TRUE)
    /\ ~t /\ o + 9 <= l /\ U16(d, o) = 0 /\ ~(At(d, o + 6) = 0 /\ o + 9 + U16(d, o + 7) <= l) =>
          r = Sni(o + 4 + U16(d, o + 2) + 5, x, FALSE)

LEMMA SniRoundIs ==
    ASSUME NEW d, NEW l \in Nat, NEW o \in Nat, NEW x, NEW t \in BOOLEAN, NEW s, s = Sni(o, x, t)
    PROVE  SniRound(d, l, o, x, t, SniExt(d, l, s))
  <1>1. s = Sni(o, x, t)
    OBVIOUS
  <1>2. s.off = o /\ s.stop = t
    BY <1>1, SniExcept
  <1>3. [s EXCEPT !.stop = TRUE] = Sni(o, x, TRUE)
    <2>1. \A y : [s EXCEPT !.stop = y] = Sni(o, x, y)
      BY <1>1, SniExcept
    <2> QED  BY <2>1, Zenon
  <1>4. ~t => \A y : [s EXCEPT !.off = y] = Sni(y, x, FALSE)
    <2>1. \A y : [s EXCEPT !.off = y] = Sni(y, x, t)
      BY <1>1, SniExcept
    <2>2. ~t => t = FALSE
      OBVIOUS
    <2> QED  BY <2>1, <2>2, Zenon
  <1>5. Fail = Sni(0, <<>>, TRUE) /\ \A y : [Fail EXCEPT !.lines = y] = Sni(0, y, TRUE)
    <2>1. Fail = Sni(0, <<>>, TRUE)
      BY DEF Fail, Sni
    <2>2. PICK e, f, a : e = <<>> /\ f = Fail /\ a = TRUE
      OBVIOUS
    <2>3. f = Sni(0, e, a)
      BY <2>1, <2>2, Zenon
    <2>4. \A y : [f EXCEPT !.lines = y] = Sni(0, y, a)
      BY <2>3, SniExcept
    <2> QED  BY <2>1, <2>2, <2>4, Zenon
  <1>6. ASSUME NEW y, NEW z PROVE [[s EXCEPT !.off = y] EXCEPT !.off = @ + z] = [s EXCEPT !.off = y + z]
    <2>1. PICK b : b = [s EXCEPT !.off = y]
      OBVIOUS
    <2>2. b = Sni(y, x, t)
      BY <1>1, <2>1, SniExcept
    <2>3. b.off = y
      BY <2>2, SniExcept
    <2>4. [b EXCEPT !.off = @ + z] = [b EXCEPT !.off = y + z]
      BY <2>3
    <2>5. [b EXCEPT !.off = y + z] = Sni(y + z, x, t)
      BY <2>2, SniExcept
    <2>6. [s EXCEPT !.off = y + z] = Sni(y + z, x, t)
      BY <1>1, SniExcept
    <2> QED  BY <2>1, <2>4, <2>5, <2>6
  <1>7. PICK a, b, c, e, r : a = o + 6 /\ b = o + 7 /\ c = o + 9 /\ e = o + 4 /\ r = SniExt(d, l, s)
    OBVIOUS
  <1>8. e = o + 4 /\ e + 2 = a /\ e + 3 = b /\ e + 5 = c
    BY <1>7
  <1>9a. r = IF s.stop \/ s.off + 4 > l THEN [s EXCEPT !.stop = TRUE]
             ELSE IF U16(d, s.off) # 0 THEN [s EXCEPT !.off = s.off + 4 + U16(d, s.off + 2)]
             ELSE IF s.off + 4 + 5 > l THEN Fail
             ELSE IF At(d, s.off + 4 + 2) = 0 /\ s.off + 4 + 5 + U16(d, s.off + 4 + 3) <= l
             THEN [Fail EXCEPT !.lines = <<Slice(d, s.off + 4 + 5, Min({U16(d, s.off + 4 + 3), NAME_ROOM - 1}))>>]
             ELSE [[s EXCEPT !.off = s.off + 4 + U16(d, s.off + 2)] EXCEPT !.off = @ + 5]
    BY <1>7, Zenon DEF SniExt
  <1>9b. s.off = o /\ s.off + 4 = e /\ s.off + 4 + 5 = c /\ s.off + 4 + 3 = b /\ s.off + 4 + 2 = a
    BY <1>2, <1>8
  <1>9. r = IF t \/ e > l THEN [s EXCEPT !.stop = TRUE]
            ELSE IF U16(d, o) # 0 THEN [s EXCEPT !.off = e + U16(d, o + 2)]
            ELSE IF c > l THEN Fail
            ELSE IF At(d, a) = 0 /\ c + U16(d, b) <= l
            THEN [Fail EXCEPT !.lines = <<Slice(d, c, Min({U16(d, b), NAME_ROOM - 1}))>>]
            ELSE [s EXCEPT !.off = e + U16(d, o + 2) + 5]
    BY <1>2, <1>6, <1>9a, <1>9b, ZenonT(30)
  <1>10. /\ t \/ e > l => r = Sni(o, x, TRUE)
         /\ ~t /\ ~(e > l) /\ U16(d, o) # 0 => r = Sni(e + U16(d, o + 2), x, FALSE)
         /\ ~t /\ ~(e > l) /\ U16(d, o) = 0 /\ c > l => r = Sni(0, <<>>, TRUE)
         /\ ~t /\ ~(e > l) /\ U16(d, o) = 0 /\ ~(c > l) /\ At(d, a) = 0 /\ c + U16(d, b) <= l =>
              r = Sni(0, <<Slice(d, c, Min({U16(d, b), NAME_ROOM - 1}))>>, TRUE)
         /\ ~t /\ ~(e > l) /\ U16(d, o) = 0 /\ ~(c > l) /\ ~(At(d, a) = 0 /\ c + U16(d, b) <= l) =>
              r = Sni(e + U16(d, o + 2) + 5, x, FALSE)
    BY <1>3, <1>4, <1>5, <1>9
  <1>11. /\ e <= l => ~(e > l)
         /\ c <= l => ~(c > l) /\ ~(e > l)
    BY <1>7
  <1>12. SniRound(d, l, o, x, t, r)
    BY <1>7, <1>10, <1>11 DEF SniRound
  <1> QED  BY <1>7, <1>12

LEMMA SniExtTyped ==
    ASSUME NEW d, NEW w, NEW l, Reading(d, w, l), NEW s \in SniState
    PROVE  SniExt(d, l, s) \in SniState
  <1>. l \in Nat
    BY DEF Reading
  <1>1. PICK o \in Nat, x \in Seq(Seq(Nat)), t \in BOOLEAN : s = Sni(o, x, t)
    BY SniIs
  <1>2. ASSUME NEW p \in Nat, NEW y \in Seq(Seq(Nat)), NEW b \in BOOLEAN PROVE Sni(p, y, b) \in SniState
    BY DEF Sni, SniState
  <1>3. PICK r : r = SniExt(d, l, s)
    OBVIOUS
  <1>4. SniRound(d, l, o, x, t, r)
    BY <1>1, <1>3, SniRoundIs
  <1>5. CASE t \/ o + 4 > l
    <2>1. r = Sni(o, x, TRUE)
      BY <1>4, <1>5 DEF SniRound
    <2> QED  BY <1>2, <1>3, <2>1
  <1>6. CASE ~(t \/ o + 4 > l)
    <2>1. ~t /\ o + 4 <= l
      BY <1>6
    <2>2. PICK u \in Nat : u = U16(d, o + 2)
      <3>1. o + 2 \in Nat /\ (o + 2) + 2 <= l
        BY <2>1
      <3> QED  BY <3>1, WordTyped
    <2>3. CASE U16(d, o) # 0
      <3>1. r = Sni(o + 4 + u, x, FALSE)
        BY <1>4, <2>1, <2>2, <2>3 DEF SniRound
      <3>2. o + 4 + u \in Nat
        OBVIOUS
      <3> QED  BY <1>2, <1>3, <3>1, <3>2
    <2>4. CASE U16(d, o) = 0 /\ o + 9 > l
      <3>1. r = Sni(0, <<>>, TRUE)
        BY <1>4, <2>1, <2>4 DEF SniRound
      <3>2. <<>> \in Seq(Seq(Nat))
        BY EmptySeq
      <3> QED  BY <1>2, <1>3, <3>1, <3>2
    <2>5. CASE U16(d, o) = 0 /\ o + 9 <= l
      <3>1. PICK z \in Nat : z = U16(d, o + 7)
        <4>1. o + 7 \in Nat /\ (o + 7) + 2 <= l
          BY <2>5
        <4> QED  BY <4>1, WordTyped
      <3>2. CASE At(d, o + 6) = 0 /\ o + 9 + z <= l
        <4>1. PICK m \in Nat : m = Min({z, NAME_ROOM - 1}) /\ m <= z
          <5>1. NAME_ROOM - 1 \in Nat
            BY PacketSizesAssumption
          <5> QED  BY <5>1, MinOfTwo
        <4>2. PICK p \in Nat : p = o + 9
          OBVIOUS
        <4>3. PICK y : y = Slice(d, p, m)
          OBVIOUS
        <4>4. y \in Seq(Nat)
          <5>1. p + m <= l
            BY <3>2, <4>1, <4>2
          <5> QED  BY <4>3, <5>1, SliceIs DEF Piece
        <4>5. r = Sni(0, <<y>>, TRUE)
          BY <1>4, <2>1, <2>5, <3>1, <3>2, <4>1, <4>2, <4>3 DEF SniRound
        <4>6. <<y>> \in Seq(Seq(Nat))
          BY <4>4
        <4> QED  BY <1>2, <1>3, <4>5, <4>6
      <3>3. CASE ~(At(d, o + 6) = 0 /\ o + 9 + z <= l)
        <4>1. r = Sni(o + 4 + u + 5, x, FALSE)
          BY <1>4, <2>1, <2>2, <2>5, <3>1, <3>3 DEF SniRound
        <4>2. o + 4 + u + 5 \in Nat
          OBVIOUS
        <4> QED  BY <1>2, <1>3, <4>1, <4>2
      <3> QED  BY <3>2, <3>3
    <2>6. o + 9 > l \/ o + 9 <= l
      OBVIOUS
    <2> QED  BY <2>3, <2>4, <2>5, <2>6
  <1> QED  BY <1>5, <1>6

\* The rounds one after the other.
SniFold(it, d, l, base, x) ==
    it = [s \in SUBSET DOMAIN x |-> IF s = {} THEN base ELSE SniExt(d, l, it[s \ {Max(s)}])]
SniAll(d, l, base, x) == FoldLeft(LAMBDA w, i : SniExt(d, l, w), base, x)

SniWalk(v, d, l, base, M) ==
    /\ v \in [0 .. M -> SniState] /\ v[0] = base
    /\ \A p \in 1 .. M : v[p] = SniExt(d, l, v[p - 1])

SniRuns(v, d, l, base, x, M) == SniWalk(v, d, l, base, M) /\ SniAll(d, l, base, x) = v[M]

LEMMA SniSteps ==
    ASSUME NEW d, NEW w, NEW l, Reading(d, w, l), NEW base \in SniState, NEW x, NEW M \in Nat, DOMAIN x = 1 .. M
    PROVE  \E v : SniRuns(v, d, l, base, x, M)
  <1> DEFINE V == SniState
             g == [y \in V \X (1 .. M) |-> SniExt(d, l, y[1])]
  <1>0. ASSUME NEW c \in V PROVE SniExt(d, l, c) \in V
    BY SniExtTyped
  <1>3. base \in V
    OBVIOUS
  <1> HIDE DEF V
  <1>4. IsStep(g, M, V, base)
    BY <1>0, <1>3 DEF IsStep
  <1>5. \A c \in V, k \in 1 .. M : g[<<c, k>>] = SniExt(d, l, c)
    OBVIOUS
  <1> HIDE DEF g
  <1>6. ASSUME NEW s \in SUBSET (1 .. M), s # {} PROVE Max(s) \in 1 .. M
    <2>1. s \subseteq 0 .. M
      OBVIOUS
    <2> QED  BY <1>6, <2>1, MaxIs
  <1>7. PICK h \in [SUBSET (1 .. M) -> V] : IsFold(h, M, base, g)
    BY <1>4, FoldExists
  <1>8. SniFold(h, d, l, base, x)
    <2>1. ASSUME NEW s \in SUBSET (1 .. M), s # {}
          PROVE  h[s] = SniExt(d, l, h[s \ {Max(s)}])
      <3>1. h[s \ {Max(s)}] \in V
        OBVIOUS
      <3>2. h[s] = g[<<h[s \ {Max(s)}], Max(s)>>]
        BY <1>7, <2>1 DEF IsFold
      <3> QED  BY <1>5, <1>6, <2>1, <3>1, <3>2
    <2>2. h[{}] = base
      BY <1>7 DEF IsFold
    <2> QED  BY <1>7, <2>1, <2>2 DEF SniFold
  <1>9. PICK it : it = CHOOSE i0 : SniFold(i0, d, l, base, x)
    OBVIOUS
  <1>10. SniFold(it, d, l, base, x)
    BY <1>8, <1>9
  <1>11. SniAll(d, l, base, x) = it[1 .. M]
    BY <1>9 DEF SniAll, FoldLeft, MapThenFoldSet, SniFold
  <1>12. it[{}] = base
    BY <1>10 DEF SniFold
  <1>13. ASSUME NEW s \in SUBSET (1 .. M), s # {}, it[s \ {Max(s)}] \in V
         PROVE  it[s] = g[<<it[s \ {Max(s)}], Max(s)>>]
    <2>1. it[s] = SniExt(d, l, it[s \ {Max(s)}])
      BY <1>10, <1>13 DEF SniFold
    <2> QED  BY <1>5, <1>6, <1>13, <2>1
  <1>14. PICK v : IsWalk(v, M, V, base, g) /\ v[M] = it[1 .. M]
    <2>1. Unrolls(it, M, V, base, g)
      BY <1>12, <1>13 DEF Unrolls
    <2> QED  BY <1>4, <2>1, FoldSteps
  <1>15. ASSUME NEW k \in 1 .. M PROVE v[k] = SniExt(d, l, v[k - 1])
    <2>1. v[k - 1] \in V
      <3>1. k - 1 \in 0 .. M
        OBVIOUS
      <3> QED  BY <1>14, <3>1 DEF IsWalk
    <2>2. v[k] = g[<<v[k - 1], k>>]
      BY <1>14 DEF IsWalk
    <2> QED  BY <1>5, <2>1, <2>2
  <1>16. v \in [0 .. M -> V] /\ v[0] = base
    BY <1>14 DEF IsWalk
  <1>17. SniWalk(v, d, l, base, M)
    BY <1>15, <1>16 DEF V, SniWalk
  <1> QED  BY <1>11, <1>14, <1>17 DEF SniRuns

\* The walk stands before extension k + 1, none yet being a server name; or it has found the first
\* one; or it will find none.
Walking(s, exts, A, k) == s = Sni(A[k], <<>>, FALSE) /\ \A i \in 1 .. k : exts[i].type # 0
Asked(exts, n, q) == q \in 1 .. n /\ exts[q].type = 0 /\ \A i \in 1 .. q - 1 : exts[i].type # 0
Found(s, exts, n) == \E q : Asked(exts, n, q) /\ s = Sni(0, <<Cut(exts[q].name, NAME_ROOM - 1)>>, TRUE)
Gone(s, l) == \E o \in Nat, t \in BOOLEAN : s = Sni(o, <<>>, t) /\ (t \/ o + 4 > l)

LEMMA FoundStays ==
    ASSUME NEW d, NEW l \in Nat, NEW s, NEW exts, NEW n, Found(s, exts, n)
    PROVE  Found(SniExt(d, l, s), exts, n)
  <1>1. PICK q : Asked(exts, n, q) /\ s = Sni(0, <<Cut(exts[q].name, NAME_ROOM - 1)>>, TRUE)
    BY DEF Found
  <1>2. PICK x, t, r : x = <<Cut(exts[q].name, NAME_ROOM - 1)>> /\ t = TRUE /\ r = SniExt(d, l, s)
    OBVIOUS
  <1>3. s = Sni(0, x, t)
    BY <1>1, <1>2, Zenon
  <1>4. t \in BOOLEAN
    BY <1>2
  <1>5. SniRound(d, l, 0, x, t, r)
    <2>1. 0 \in Nat
      OBVIOUS
    <2> QED  BY <1>2, <1>3, <1>4, <2>1, SniRoundIs
  <1>6. r = Sni(0, x, TRUE)
    BY <1>2, <1>5 DEF SniRound
  <1>7. r = Sni(0, <<Cut(exts[q].name, NAME_ROOM - 1)>>, TRUE)
    BY <1>2, <1>6
  <1> QED  BY <1>1, <1>2, <1>7 DEF Found

LEMMA GoneStays ==
    ASSUME NEW d, NEW l \in Nat, NEW s, Gone(s, l)
    PROVE  Gone(SniExt(d, l, s), l)
  <1>1. PICK o \in Nat, t \in BOOLEAN : s = Sni(o, <<>>, t) /\ (t \/ o + 4 > l)
    BY DEF Gone
  <1>2. PICK r : r = SniExt(d, l, s)
    OBVIOUS
  <1>3. SniRound(d, l, o, <<>>, t, r)
    BY <1>1, <1>2, SniRoundIs
  <1>4. r = Sni(o, <<>>, TRUE)
    BY <1>1, <1>3 DEF SniRound
  <1> QED  BY <1>2, <1>4 DEF Gone

\* One round: on to the next extension, or it is found, or gone; and surely where all is read and
\* no length is too large.
Prompt(exts, w, l, k) ==
    /\ l = Len(w)
    /\ exts[k].type # 0 => exts[k].len % 256 < 128
    /\ exts[k].type = 0 => Len(exts[k].name) < 128

LEMMA OtherPassed ==
    ASSUME NEW d, NEW w, NEW l, Reading(d, w, l), NEW exts, NEW n, IsExts(exts, n), NEW A, NEW e,
           ExtsIn(w, exts, n, A, e), NEW k \in 1 .. n, exts[k].type # 0, A[k - 1] + 4 <= l,
           NEW s, Walking(s, exts, A, k - 1), NEW r, r = SniExt(d, l, s)
    PROVE  /\ Walking(r, exts, A, k) \/ Gone(r, l)
           /\ exts[k].len % 256 < 128 => Walking(r, exts, A, k)
  <1>. l \in Nat /\ l <= 255 /\ n \in Nat
    BY DEF Reading, IsExts
  <1>1. PICK o \in Nat : o = A[k - 1]
    <2>1. k - 1 \in 0 .. n
      OBVIOUS
    <2> QED  BY <2>1 DEF ExtsIn
  <1>2. PICK y \in Nat, m \in Nat : y = exts[k].type /\ m = exts[k].len
    BY ExtTyped DEF IsExts
  <1>3. A[k] = o + 4 + m /\ ExtIn(w, o, exts[k])
    BY <1>1, <1>2 DEF ExtsIn
  <1>4. w[o + 1] = y \div 256 /\ w[o + 2] = y % 256 /\ w[o + 3] = m \div 256 /\ w[o + 4] = m % 256
    BY <1>2, <1>3 DEF ExtIn
  <1>5. SniRound(d, l, o, <<>>, FALSE, r)
    <2>1. s = Sni(o, <<>>, FALSE) /\ FALSE \in BOOLEAN
      BY <1>1 DEF Walking
    <2> QED  BY <2>1, SniRoundIs
  <1>6. PICK x \in Nat : x = U16(d, o) /\ x # 0
    <2>1. ReadAs(U16(d, o), y)
      <3>1. o + 2 <= l
        BY <1>1
      <3> QED  BY <1>4, <3>1, WordRead
    <2> QED  BY <1>2, <2>1 DEF ReadAs
  <1>7. PICK u \in Nat : u = U16(d, o + 2) /\ ReadAs(u, m)
    <2>1. PICK p \in Nat : p = o + 2 /\ p + 1 = o + 3 /\ p + 2 = o + 4 /\ p + 2 <= l
      BY <1>1
    <2>2. ReadAs(U16(d, p), m)
      BY <1>4, <2>1, WordRead
    <2> QED  BY <2>1, <2>2 DEF ReadAs
  <1>8. r = Sni(o + 4 + u, <<>>, FALSE)
    BY <1>1, <1>5, <1>6, <1>7 DEF SniRound
  <1>9. CASE m % 256 < 128
    <2>1. r = Sni(A[k], <<>>, FALSE)
      <3>1. u = m
        BY <1>7, <1>9 DEF ReadAs
      <3>2. A[k] = o + 4 + u
        BY <1>3, <3>1
      <3> QED  BY <1>8, <3>2
    <2>2. \A i \in 1 .. k : exts[i].type # 0
      <3>1. \A i \in 1 .. k : i \in 1 .. k - 1 \/ i = k
        OBVIOUS
      <3> QED  BY <3>1 DEF Walking
    <2> QED  BY <2>1, <2>2 DEF Walking
  <1>10. CASE ~(m % 256 < 128)
    <2>1. u >= 65408
      BY <1>7, <1>10 DEF ReadAs
    <2>2. PICK p \in Nat : p = o + 4 + u /\ p + 4 > l
      BY <2>1
    <2>3. r = Sni(p, <<>>, FALSE)
      BY <1>8, <2>2
    <2> QED  BY <1>2, <1>10, <2>2, <2>3 DEF Gone
  <1> QED  BY <1>9, <1>10

\* A server name's own lengths.
LEMMA LargeLengths ==
    ASSUME NEW m \in Nat, NEW z, ReadAs(z, m), NEW u, ReadAs(u, m + 5), NEW o \in Nat, NEW l \in Nat, l <= 255,
           ~(o + 9 + z <= l)
    PROVE  u \in Nat /\ o + 9 + u > l
  <1>1. z \in Nat /\ u \in Nat /\ m + 5 \in Nat
    BY DEF ReadAs
  <1>2. CASE ~((m + 5) % 256 < 128)
    <2>1. u >= 65408
      BY <1>2 DEF ReadAs
    <2> QED  BY <1>1, <2>1
  <1>3. CASE (m + 5) % 256 < 128
    <2>1. u = m + 5
      BY <1>3 DEF ReadAs
    <2>2. CASE m % 256 < 128
      <3>1. z = m
        BY <2>2 DEF ReadAs
      <3> QED  BY <1>1, <2>1, <3>1
    <2>3. CASE ~(m % 256 < 128)
      <3>1. m >= 251
        BY <1>3, <2>3
      <3> QED  BY <1>1, <2>1, <3>1
    <2> QED  BY <2>2, <2>3
  <1> QED  BY <1>2, <1>3

\* What is logged of a name.
LEMMA NameCut ==
    ASSUME NEW d, NEW w, NEW l, Reading(d, w, l), NEW p \in Nat, NEW t \in Seq(Nat), NEW m \in Nat, m = Len(t),
           TextIn(w, p, t), p + m <= l
    PROVE  Slice(d, p, Min({m, NAME_ROOM - 1})) = Cut(t, NAME_ROOM - 1)
  <1>1. PICK j \in Nat : j = Min({m, NAME_ROOM - 1}) /\ j <= m
    <2>1. NAME_ROOM - 1 \in Nat
      BY PacketSizesAssumption
    <2> QED  BY <2>1, MinOfTwo
  <1>2a. PICK u : u = Slice(d, p, j)
    OBVIOUS
  <1>2. PICK x : x = SubSeq(t, 1, j)
    OBVIOUS
  <1>3. u \in Seq(Nat) /\ Len(u) = j /\ \A i \in 1 .. j : u[i] = w[p + i]
    <2>1. l \in Nat
      BY DEF Reading
    <2>2. p + j <= l
      BY <1>1, <2>1
    <2>3. Piece(u, w, p, j)
      BY <1>2a, <2>2, SliceIs
    <2> QED  BY <2>3 DEF Piece
  <1>4. x \in Seq(Nat) /\ Len(x) = j /\ \A i \in 1 .. j : x[i] = t[i]
    <2>1. j \in 0 .. m
      BY <1>1
    <2> QED  BY <1>2, <2>1, CutIs
  <1>5. \A i \in 1 .. j : u[i] = x[i]
    <2>1. ASSUME NEW i \in 1 .. j PROVE i \in 1 .. m
      BY <1>1
    <2> QED  BY <1>3, <1>4, <2>1 DEF TextIn
  <1>6. u = x
    BY <1>3, <1>4, <1>5, SeqEqual
  <1>7. x = Cut(t, NAME_ROOM - 1)
    BY <1>1, <1>2 DEF Cut
  <1> QED  BY <1>1, <1>2a, <1>6, <1>7

LEMMA ServerPassed ==
    ASSUME NEW d, NEW w, NEW l, Reading(d, w, l), NEW exts, NEW n, IsExts(exts, n), NEW A, NEW e,
           ExtsIn(w, exts, n, A, e), NEW k \in 1 .. n, Asked(exts, n, k), A[k - 1] + 4 <= l,
           NEW s, Walking(s, exts, A, k - 1), NEW r, r = SniExt(d, l, s)
    PROVE  /\ Found(r, exts, n) \/ Gone(r, l)
           /\ Len(exts[k].name) < 128 /\ A[k] <= l => Found(r, exts, n)
  <1>. l \in Nat /\ l <= 255 /\ n \in Nat
    BY DEF Reading, IsExts
  <1>1a. PICK o \in Nat : o = A[k - 1]
    <2>1. k - 1 \in 0 .. n
      OBVIOUS
    <2> QED  BY <2>1 DEF ExtsIn
  <1>1. o = A[k - 1] /\ o + 4 <= l
    BY <1>1a
  <1>1b. A[k] \in Nat
    BY DEF ExtsIn
  <1>2a. exts[k] \in Ext
    BY DEF IsExts
  <1>2. PICK t \in Seq(Nat), m \in Nat, f \in Nat : t = exts[k].name /\ m = Len(t) /\ f = m + 5
    BY <1>2a, ExtTyped
  <1>3. exts[k].type = 0 /\ exts[k].len = f
    BY <1>2 DEF Asked, IsExts
  <1>3a. PICK y \in Nat : y = 0
    OBVIOUS
  <1>4. A[k] = o + 4 + f /\ ExtIn(w, o, exts[k])
    BY <1>1, <1>3 DEF ExtsIn
  <1>3b. exts[k].type = y
    BY <1>3, <1>3a
  <1>5a. w[o + 1] = y \div 256 /\ w[o + 2] = y % 256 /\ w[o + 3] = f \div 256 /\ w[o + 4] = f % 256
    BY <1>3, <1>3b, <1>4 DEF ExtIn
  <1>5b. w[o + 7] = 0 /\ w[o + 8] = m \div 256 /\ w[o + 9] = m % 256 /\ TextIn(w, o + 9, t)
    BY <1>2, <1>3, <1>4 DEF ExtIn
  <1>6. SniRound(d, l, o, <<>>, FALSE, r)
    <2>1. s = Sni(o, <<>>, FALSE) /\ FALSE \in BOOLEAN
      BY <1>1 DEF Walking
    <2> QED  BY <2>1, SniRoundIs
  <1>7. U16(d, o) = 0
    <2>1. ReadAs(U16(d, o), y)
      <3>1. o + 2 <= l
        BY <1>1
      <3>2. w[o + 1] = y \div 256 /\ w[o + 2] = y % 256
        BY <1>5a
      <3> QED  BY <3>1, <3>2, WordRead, ZenonT(30)
    <2> QED  BY <1>3a, <2>1 DEF ReadAs
  <1>8. PICK u : u = U16(d, o + 2) /\ ReadAs(u, f)
    <2>1. PICK p \in Nat : p = o + 2 /\ p + 1 = o + 3 /\ p + 2 = o + 4 /\ p + 2 <= l
      <3>1. \A p \in Nat : p = o + 2 => p + 1 = o + 3 /\ p + 2 = o + 4 /\ (o + 4 <= l => p + 2 <= l)
        OBVIOUS
      <3>2. PICK p \in Nat : p = o + 2
        OBVIOUS
      <3> QED  BY <1>1, <3>1, <3>2
    <2>2. ReadAs(U16(d, p), f)
      <3>1. w[p + 1] = f \div 256 /\ w[p + 2] = f % 256
        BY <1>5a, <2>1
      <3>2. p + 2 <= l
        BY <2>1
      <3> QED  BY <3>1, <3>2, WordRead, ZenonT(30)
    <2> QED  BY <2>1, <2>2
  <1>9. CASE o + 9 > l
    <2>1. r = Sni(0, <<>>, TRUE)
      BY <1>1, <1>6, <1>7, <1>9 DEF SniRound
    <2>2. ~(A[k] <= l)
      <3>1. ASSUME o + 4 + f <= l PROVE FALSE
        <4>1. f >= 5
          BY <1>2
        <4> QED  BY <1>9, <3>1, <4>1
      <3> QED  BY <1>4, <3>1
    <2> QED  BY <2>1, <2>2 DEF Gone
  <1>10. CASE o + 9 <= l
    <2>1. PICK z : z = U16(d, o + 7) /\ ReadAs(z, m)
      <3>1. PICK p \in Nat : p = o + 7 /\ p + 1 = o + 8 /\ p + 2 = o + 9 /\ p + 2 <= l
        BY <1>10
      <3>2. ReadAs(U16(d, p), m)
        BY <1>5b, <3>1, WordRead, SMTT(30)
      <3> QED  BY <3>1, <3>2
    <2>2. At(d, o + 6) = 0
      <3>1. PICK p \in Nat : p = o + 6 /\ p + 1 = o + 7 /\ p + 1 <= l
        BY <1>10
      <3>2. At(d, p) = w[p + 1]
        BY <3>1, ByteRead
      <3> QED  BY <1>5b, <3>1, <3>2
    <2>3. z \in Nat
      BY <2>1 DEF ReadAs
    <2>4. CASE o + 9 + z <= l
      <3>1. z = m
        BY <2>1, <2>4 DEF ReadAs
      <3>2. r = Sni(0, <<Slice(d, o + 9, Min({m, NAME_ROOM - 1}))>>, TRUE)
        BY <1>6, <1>7, <1>10, <2>1, <2>2, <2>4, <3>1 DEF SniRound
      <3>3. Slice(d, o + 9, Min({m, NAME_ROOM - 1})) = Cut(t, NAME_ROOM - 1)
        <4>1. PICK p \in Nat : p = o + 9 /\ p + m <= l
          BY <2>4, <3>1
        <4>2. TextIn(w, p, t)
          BY <1>5b, <4>1
        <4>3. Slice(d, p, Min({m, NAME_ROOM - 1})) = Cut(t, NAME_ROOM - 1)
          <5>1. m = Len(t)
            BY <1>2
          <5> QED  BY <4>1, <4>2, <5>1, NameCut
        <4> QED  BY <4>1, <4>3
      <3> QED  BY <1>2, <3>2, <3>3 DEF Found
    <2>5. CASE ~(o + 9 + z <= l)
      <3>1. u \in Nat /\ o + 9 + u > l
        BY <1>2, <1>8, <2>1, <2>5, LargeLengths
      <3>2. PICK p \in Nat : p = o + 4 + u + 5 /\ p + 4 > l
        BY <3>1
      <3>3. r = Sni(p, <<>>, FALSE)
        BY <1>6, <1>7, <1>8, <1>10, <2>1, <2>2, <2>5, <3>2 DEF SniRound
      <3>4. ASSUME m < 128, A[k] <= l PROVE FALSE
        <4>1. z = m
          <5>1. m % 256 < 128
            BY <3>4
          <5> QED  BY <2>1, <5>1 DEF ReadAs
        <4>2. o + 4 + f = o + 9 + z
          <5>1. f = m + 5 /\ z = m
            BY <1>2, <4>1
          <5> QED  BY <5>1
        <4>3. o + 9 + z <= l
          BY <1>4, <3>4, <4>2
        <4> QED  BY <2>5, <4>3
      <3> QED  BY <1>2, <3>2, <3>3, <3>4 DEF Gone
    <2> QED  BY <2>4, <2>5
  <1>11. o + 9 > l \/ o + 9 <= l
    OBVIOUS
  <1> QED  BY <1>9, <1>10, <1>11

\* Any round.
LEMMA RoundPassed ==
    ASSUME NEW d, NEW w, NEW l, Reading(d, w, l), l <= Len(w), NEW exts, NEW n, IsExts(exts, n), NEW A, NEW e,
           ExtsIn(w, exts, n, A, e), NEW k \in 0 .. n, NEW s, Walking(s, exts, A, k), NEW r, r = SniExt(d, l, s)
    PROVE  Found(r, exts, n) \/ Gone(r, l) \/ (k + 1 \in 1 .. n /\ Walking(r, exts, A, k + 1))
  <1>. l \in Nat /\ n \in Nat
    BY DEF Reading, IsExts
  <1>1. A[k] \in Nat /\ A[n] = Len(w)
    BY DEF ExtsIn
  <1>2. CASE A[k] + 4 > l
    <2>1. Gone(s, l)
      BY <1>1, <1>2 DEF Walking, Gone
    <2> QED  BY <2>1, GoneStays
  <1>3. CASE A[k] + 4 <= l
    <2>1. PICK j \in 1 .. n : j = k + 1 /\ k = j - 1
      <3>1. k # n
        BY <1>1, <1>3
      <3>2. k + 1 \in 1 .. n
        BY <3>1
      <3> QED  BY <3>2
    <2>2. A[j - 1] + 4 <= l /\ Walking(s, exts, A, j - 1)
      BY <1>3, <2>1
    <2>3. CASE exts[j].type # 0
      <3>1. Walking(r, exts, A, j) \/ Gone(r, l)
        BY <2>2, <2>3, OtherPassed
      <3> QED  BY <2>1, <3>1
    <2>4. CASE exts[j].type = 0
      <3>1. Asked(exts, n, j)
        BY <2>2, <2>4 DEF Asked, Walking
      <3>2. Found(r, exts, n) \/ Gone(r, l)
        BY <2>2, <3>1, ServerPassed
      <3> QED  BY <3>2
    <2> QED  BY <2>3, <2>4
  <1> QED  BY <1>1, <1>2, <1>3

\* All rounds.
WalkEnded(s, exts, n) == Found(s, exts, n) \/ s.lines = <<>>

LEMMA WalkPassed ==
    ASSUME NEW d, NEW w, NEW l, Reading(d, w, l), l <= Len(w), NEW exts, NEW n, IsExts(exts, n), NEW A, NEW e,
           ExtsIn(w, exts, n, A, e), NEW M \in Nat, NEW t, t = Sni(e, <<>>, FALSE),
           NEW v, SniWalk(v, d, l, t, M)
    PROVE  WalkEnded(v[M], exts, n)
  <1>. l \in Nat /\ n \in Nat
    BY DEF Reading, IsExts
  <1> DEFINE Passed(s) == Found(s, exts, n) \/ Gone(s, l) \/ \E k \in 0 .. n : Walking(s, exts, A, k)
             B == {p \in 0 .. M : Passed(v[p])}
  <1>1. 0 \in B
    <2>1. Walking(v[0], exts, A, 0)
      BY DEF SniWalk, ExtsIn, Walking
    <2>2. 0 \in 0 .. n /\ 0 \in 0 .. M
      OBVIOUS
    <2> QED  BY <2>1, <2>2
  <1>2. ASSUME NEW p \in 1 .. M, p - 1 \in B PROVE p \in B
    <2>1. v[p] = SniExt(d, l, v[p - 1])
      BY DEF SniWalk
    <2>2. Found(v[p - 1], exts, n) => Found(v[p], exts, n)
      BY <2>1, FoundStays
    <2>3. Gone(v[p - 1], l) => Gone(v[p], l)
      BY <2>1, GoneStays
    <2>4. ASSUME NEW k \in 0 .. n, Walking(v[p - 1], exts, A, k) PROVE Passed(v[p])
      <3>1. Found(v[p], exts, n) \/ Gone(v[p], l) \/ (k + 1 \in 1 .. n /\ Walking(v[p], exts, A, k + 1))
        BY <2>1, <2>4, RoundPassed
      <3>2. k + 1 \in 1 .. n => k + 1 \in 0 .. n
        OBVIOUS
      <3> QED  BY <3>1, <3>2
    <2>5. Passed(v[p - 1])
      BY <1>2
    <2> QED  BY <2>2, <2>3, <2>4, <2>5
  <1>3a. \A p \in 0 .. M : p \in B
    <2> HIDE DEF B
    <2> QED  BY <1>1, <1>2, NatUp
  <1>3. M \in B
    <2>1. M \in 0 .. M
      OBVIOUS
    <2> QED  BY <1>3a, <2>1
  <1>4. Passed(v[M])
    BY <1>3
  <1>5. Gone(v[M], l) => v[M].lines = <<>>
    BY SniExcept DEF Gone
  <1>6. ASSUME NEW k \in 0 .. n, Walking(v[M], exts, A, k) PROVE v[M].lines = <<>>
    <2>1. v[M] = Sni(A[k], <<>>, FALSE)
      BY <1>6 DEF Walking
    <2> QED  BY <2>1 DEF Sni
  <1> QED  BY <1>4, <1>5, <1>6 DEF WalkEnded

\* Offsets grow.
LEMMA ExtsGrow ==
    ASSUME NEW w, NEW exts, NEW n, IsExts(exts, n), NEW A, NEW e, ExtsIn(w, exts, n, A, e), NEW k \in 1 .. n
    PROVE  A[k - 1] \in Nat /\ A[k] \in Nat /\ A[k - 1] + 4 <= A[k] /\ A[k] <= A[n]
  <1>. n \in Nat
    BY DEF IsExts
  <1>1. ASSUME NEW i \in 1 .. n PROVE A[i - 1] \in Nat /\ A[i] \in Nat /\ A[i - 1] + 4 <= A[i]
    <2>1. i - 1 \in 0 .. n /\ i \in 0 .. n
      OBVIOUS
    <2>2. PICK a \in Nat, b \in Nat, m \in Nat : a = A[i - 1] /\ b = A[i] /\ m = exts[i].len
      BY <2>1, ExtTyped DEF ExtsIn, IsExts
    <2>3. b = a + 4 + m
      BY <2>2 DEF ExtsIn
    <2> QED  BY <2>2, <2>3
  <1> DEFINE B == {j \in 0 .. n : j < k \/ A[k] <= A[j]}
  <1>2. 0 \in B
    OBVIOUS
  <1>3. ASSUME NEW j \in 1 .. n, j - 1 \in B PROVE j \in B
    <2>1. A[j - 1] \in Nat /\ A[j] \in Nat /\ A[j - 1] + 4 <= A[j]
      BY <1>1
    <2>2. j < k \/ j = k \/ A[k] <= A[j - 1]
      BY <1>3
    <2>3. A[k] \in Nat
      BY <1>1
    <2> QED  BY <2>1, <2>2, <2>3
  <1>4. \A j \in 0 .. n : j \in B
    <2> HIDE DEF B
    <2> QED  BY <1>2, <1>3, NatUp
  <1>5. n \in 0 .. n /\ ~(n < k)
    OBVIOUS
  <1> QED  BY <1>1, <1>4, <1>5

\* A hello that is read whole, whose lengths are small enough.
Plain(exts, q, M) ==
    /\ q <= M
    /\ \A i \in 1 .. q - 1 : exts[i].len % 256 < 128
    /\ Len(exts[q].name) < 128

LEMMA WalkFinds ==
    ASSUME NEW d, NEW w, NEW l, Reading(d, w, l), l = Len(w), NEW exts, NEW n, IsExts(exts, n), NEW A, NEW e,
           ExtsIn(w, exts, n, A, e), NEW M \in Nat, NEW t, t = Sni(e, <<>>, FALSE),
           NEW v, SniWalk(v, d, l, t, M), NEW q, Asked(exts, n, q), Plain(exts, q, M)
    PROVE  Found(v[M], exts, n)
  <1>. l \in Nat /\ n \in Nat /\ q \in 1 .. n /\ q <= M
    BY DEF Reading, IsExts, Asked, Plain
  <1>0. A[n] = l
    BY DEF ExtsIn
  <1> DEFINE B == {p \in 0 .. M : IF p < q THEN Walking(v[p], exts, A, p) ELSE Found(v[p], exts, n)}
  <1>1. 0 \in B
    <2>1. Walking(v[0], exts, A, 0)
      BY DEF SniWalk, ExtsIn, Walking
    <2>2. 0 \in 0 .. M /\ 0 < q
      OBVIOUS
    <2> QED  BY <2>1, <2>2
  <1>2. ASSUME NEW p \in 1 .. M, p - 1 \in B PROVE p \in B
    <2>1. v[p] = SniExt(d, l, v[p - 1])
      BY DEF SniWalk
    <2>2. CASE p <= q
      <3>1. Walking(v[p - 1], exts, A, p - 1)
        BY <1>2, <2>2
      <3>2. p \in 1 .. n
        BY <2>2
      <3>3. A[p - 1] + 4 <= l /\ A[p] <= l
        <4>1. A[p - 1] \in Nat /\ A[p] \in Nat /\ A[p - 1] + 4 <= A[p] /\ A[p] <= A[n]
          BY <3>2, ExtsGrow
        <4> QED  BY <1>0, <4>1
      <3>4. CASE p = q
        <4>1. Found(v[p], exts, n)
          BY <2>1, <3>1, <3>2, <3>3, <3>4, ServerPassed DEF Plain
        <4> QED  BY <3>4, <4>1
      <3>5. CASE p # q
        <4>1. p \in 1 .. q - 1
          BY <2>2, <3>5
        <4>2. exts[p].type # 0 /\ exts[p].len % 256 < 128
          BY <4>1 DEF Asked, Plain
        <4>3. Walking(v[p], exts, A, p)
          BY <2>1, <3>1, <3>2, <3>3, <4>2, OtherPassed
        <4> QED  BY <4>1, <4>3
      <3> QED  BY <3>4, <3>5
    <2>3. CASE ~(p <= q)
      <3>1. Found(v[p - 1], exts, n)
        BY <1>2, <2>3
      <3>2. Found(v[p], exts, n)
        BY <2>1, <3>1, FoundStays
      <3> QED  BY <2>3, <3>2
    <2> QED  BY <2>2, <2>3
  <1>3. \A p \in 0 .. M : p \in B
    <2> HIDE DEF B
    <2> QED  BY <1>1, <1>2, NatUp
  <1>4. M \in 0 .. M /\ ~(M < q)
    OBVIOUS
  <1> QED  BY <1>3, <1>4

\* Where the walk starts.
SniDoor(d) == Behind(d, Behind(d, Behind(d, 43, 1), 2), 1)

LEMMA DoorIs ==
    ASSUME NEW w, NEW h, IsHello(h), NEW n, NEW a \in Nat, NEW b \in Nat, NEW c \in Nat, NEW e \in Nat, NEW A,
           HelloOf(w, h, n, a, b, c, e, A), NEW d, NEW l, Reading(d, w, l), NEW x, x = SniDoor(d)
    PROVE  /\ Stands(x, c, l)
           /\ l >= e /\ h.ciphers % 256 < 128 => x = c
  <1>. l \in Nat
    BY DEF Reading
  <1>1. PICK sid \in Nat, cip \in Nat, com \in Nat : sid = h.sid /\ cip = h.ciphers /\ com = h.comp
    BY HelloTyped
  <1>2. a = 44 + sid /\ b = a + 2 + cip /\ c = b + 1 + com /\ e = c + 2
    BY <1>1 DEF HelloOf
  <1>3. w[44] = sid /\ w[a + 1] = cip \div 256 /\ w[a + 2] = cip % 256 /\ w[b + 1] = com
    BY <1>1 DEF HelloOf
  <1>4. a # 0 /\ b # 0
    BY <1>2
  <1>5. PICK x1, x2 : x1 = Behind(d, 43, 1) /\ x2 = Behind(d, x1, 2) /\ x = Behind(d, x2, 1)
    BY DEF SniDoor
  <1>6. PICK o \in Nat \ {0} : o = 43 /\ o + 1 = 44 /\ o + 1 + sid = a
    BY <1>2
  <1>7. Stands(x1, a, l) /\ (o + 1 <= l => x1 = a)
    <2>1. Stands(o, o, l)
      BY DEF Stands
    <2>2. x1 = Behind(d, o, 1) /\ w[o + 1] = sid
      BY <1>3, <1>5, <1>6
    <2>3. Stands(x1, o + 1 + sid, l) /\ (o + 1 <= l => x1 = o + 1 + sid)
      BY <2>1, <2>2, BehindByte
    <2> QED  BY <1>6, <2>3
  <1>8. Stands(x2, b, l) /\ (x1 = a /\ a + 2 <= l /\ cip % 256 < 128 => x2 = b)
    <2>1. Stands(x2, a + 2 + cip, l) /\ (x1 = a /\ a + 2 <= l /\ cip % 256 < 128 => x2 = a + 2 + cip)
      BY <1>3, <1>4, <1>5, <1>7, BehindWord
    <2> QED  BY <1>2, <2>1
  <1>9. Stands(x, c, l) /\ (x2 = b /\ b + 1 <= l => x = c)
    <2>1. Stands(x, b + 1 + com, l) /\ (x2 = b /\ b + 1 <= l => x = b + 1 + com)
      BY <1>3, <1>4, <1>5, <1>8, BehindByte
    <2> QED  BY <1>2, <2>1
  <1>10. l >= e => o + 1 <= l /\ a + 2 <= l /\ b + 1 <= l
    BY <1>2, <1>6
  <1> QED  BY <1>1, <1>7, <1>8, <1>9, <1>10

\* What is logged of a hello.
SniShown(x, exts, n) == x = <<>> \/ \E q : Asked(exts, n, q) /\ x = <<Cut(exts[q].name, NAME_ROOM - 1)>>

LEMMA SniLogged ==
    ASSUME NEW h, IsHello(h), NEW n, IsExts(h.exts, n), NEW w, w = SniBytes(h), NEW r, r = ParseSni(w)
    PROVE  /\ SniShown(r, h.exts, n)
           /\ \A q : Len(w) <= MAX_READ /\ h.ciphers % 256 < 128 /\ Asked(h.exts, n, q) /\ Plain(h.exts, q, MAX_EXTS)
                        => r # <<>>
  <1>. n \in Nat /\ MAX_EXTS \in Nat /\ MAX_READ \in Nat
    BY PacketSizesAssumption DEF IsExts
  <1>1. PICK a \in Nat, b \in Nat, c \in Nat, e \in Nat : \E A : HelloOf(w, h, n, a, b, c, e, A)
    BY SniBytesIs
  <1>2. PICK A : HelloOf(w, h, n, a, b, c, e, A)
    BY <1>1
  <1>3. PICK z \in Nat : Len(w) = e + z /\ w[c + 1] = z \div 256 /\ w[c + 2] = z % 256
    BY <1>2 DEF HelloOf
  <1>4a. w \in Seq(Nat)
    BY <1>2 DEF HelloOf
  <1>4b. PICK y : y = e + z
    OBVIOUS
  <1>4. y \in Nat /\ y = Len(w) /\ y = e + z
    BY <1>3, <1>4b
  <1>5. c # 0 /\ e = c + 2 /\ e >= 49
    <2>1. PICK sid \in Nat, cip \in Nat, com \in Nat : sid = h.sid /\ cip = h.ciphers /\ com = h.comp
      BY HelloTyped
    <2>2. a = 44 + sid /\ b = a + 2 + cip /\ c = b + 1 + com /\ e = c + 2
      BY <1>2, <2>1 DEF HelloOf
    <2> QED  BY <2>2
  <1>6. PICK d : d = Read(w, Len(w))
    OBVIOUS
  <1>7. PICK l \in Nat : Reading(d, w, l) /\ l <= y /\ (l = y \/ l = MAX_READ)
    <2>1. d = Read(w, y)
      BY <1>4, <1>6
    <2>2. PICK l \in Nat : Got(d, w, y, y, l)
      BY <1>4, <1>4a, <2>1, ReadIs
    <2> QED  BY <2>2 DEF Got
  <1>8. PICK x : x = SniDoor(d)
    OBVIOUS
  <1>9. Stands(x, c, l) /\ (l >= e /\ h.ciphers % 256 < 128 => x = c)
    BY <1>2, <1>7, <1>8, DoorIs
  <1>10. PICK m, s, t : m = Min({x + 2 + U16(d, x), l}) /\ s = [i \in 1 .. MAX_EXTS |-> i] /\ t = Sni(x + 2, <<>>, FALSE)
    OBVIOUS
  <1>11. Len(d) = l
    BY <1>7 DEF Reading
  <1>12a. r = IF \/ Len(w) < 47
                 \/ At(Read(w, Len(w)), 0) # 22 \/ At(Read(w, Len(w)), 1) # 3 \/ At(Read(w, Len(w)), 5) # 1
                 \/ SniDoor(Read(w, Len(w))) = 0 \/ SniDoor(Read(w, Len(w))) + 2 > Len(Read(w, Len(w)))
              THEN <<>>
              ELSE SniAll(Read(w, Len(w)),
                          Min({SniDoor(Read(w, Len(w))) + 2 + U16(Read(w, Len(w)), SniDoor(Read(w, Len(w)))),
                               Len(Read(w, Len(w)))}),
                          [off |-> SniDoor(Read(w, Len(w))) + 2, lines |-> <<>>, stop |-> FALSE],
                          [i \in 1 .. MAX_EXTS |-> i]).lines
    BY Zenon DEF ParseSni, SniDoor, SniAll
  <1>12. r = IF \/ y < 47
                \/ At(d, 0) # 22 \/ At(d, 1) # 3 \/ At(d, 5) # 1
                \/ x = 0 \/ x + 2 > l
             THEN <<>>
             ELSE SniAll(d, m, t, s).lines
    BY <1>4, <1>6, <1>8, <1>10, <1>11, <1>12a, Zenon DEF Sni
  <1>13. CASE x = c /\ x + 2 <= l
    <2>1. m = l
      <3>1. PICK u \in Nat : u = U16(d, c) /\ ReadAs(u, z)
        <4>1. ReadAs(U16(d, c), z)
          BY <1>3, <1>7, <1>13, WordRead
        <4> QED  BY <4>1 DEF ReadAs
      <3>2. PICK f \in Nat : f = c + 2 + u
        OBVIOUS
      <3>3. f >= l
        <4>1. u = z \/ u >= 65408
          BY <3>1 DEF ReadAs
        <4>2. l <= 255
          BY <1>7 DEF Reading
        <4> QED  BY <1>4, <1>5, <1>7, <3>2, <4>1, <4>2
      <3>4. m = Min({f, l})
        BY <1>10, <1>13, <3>1, <3>2
      <3> QED  BY <3>3, <3>4, MinOfTwo
    <2>2. t = Sni(e, <<>>, FALSE) /\ t \in SniState
      <3>1. t = Sni(e, <<>>, FALSE)
        BY <1>5, <1>10, <1>13
      <3>2. <<>> \in Seq(Seq(Nat))
        BY EmptySeq
      <3> QED  BY <3>1, <3>2 DEF Sni, SniState
    <2>3. DOMAIN s = 1 .. MAX_EXTS
      BY <1>10
    <2>4a. PICK v : SniRuns(v, d, l, t, s, MAX_EXTS)
      BY <1>7, <2>2, <2>3, SniSteps
    <2>4. SniWalk(v, d, l, t, MAX_EXTS) /\ SniAll(d, l, t, s) = v[MAX_EXTS]
      BY <2>4a DEF SniRuns
    <2>5. ExtsIn(w, h.exts, n, A, e)
      BY <1>2 DEF HelloOf
    <2>6. PICK p : p = v[MAX_EXTS]
      OBVIOUS
    <2>7. WalkEnded(p, h.exts, n)
      BY <1>4, <1>7, <2>2, <2>4, <2>5, <2>6, WalkPassed
    <2>8. Found(p, h.exts, n) => p.lines # <<>> /\ SniShown(p.lines, h.exts, n)
      <3>1. ASSUME NEW q, p = Sni(0, <<Cut(h.exts[q].name, NAME_ROOM - 1)>>, TRUE)
            PROVE  p.lines = <<Cut(h.exts[q].name, NAME_ROOM - 1)>> /\ p.lines # <<>>
        BY <3>1 DEF Sni
      <3> QED  BY <3>1 DEF Found, SniShown
    <2>9. SniShown(r, h.exts, n)
      BY <1>12, <2>1, <2>4, <2>6, <2>7, <2>8 DEF SniShown, WalkEnded
    <2>10. ASSUME NEW q, y <= MAX_READ, Asked(h.exts, n, q), Plain(h.exts, q, MAX_EXTS)
           PROVE  r # <<>>
      <3>1. l = y
        BY <1>4, <1>7, <2>10
      <3>2. Found(p, h.exts, n)
        BY <1>4, <1>7, <2>2, <2>4, <2>5, <2>6, <2>10, <3>1, WalkFinds
      <3>3. At(d, 0) = 22 /\ At(d, 1) = 3 /\ At(d, 5) = 1
        <4>1. 0 + 1 = 1 /\ 1 + 1 = 2 /\ 5 + 1 = 6 /\ 0 \in Nat /\ 1 \in Nat /\ 5 \in Nat
          OBVIOUS
        <4>2. 1 <= l /\ 2 <= l /\ 6 <= l
          BY <1>4, <1>5, <3>1
        <4>3. At(d, 0) = w[1] /\ At(d, 1) = w[2] /\ At(d, 5) = w[6]
          BY <1>7, <4>1, <4>2, ByteRead
        <4> QED  BY <1>2, <4>3 DEF HelloOf
      <3>4. ~(y < 47) /\ x # 0 /\ ~(x + 2 > l)
        BY <1>4, <1>5, <1>13
      <3>5. r = p.lines
        BY <1>12, <2>1, <2>4, <2>6, <3>3, <3>4
      <3> QED  BY <2>8, <3>2, <3>5
    <2> QED  BY <1>4, <2>9, <2>10
  <1>14. CASE ~(x = c /\ x + 2 <= l)
    <2>1. x = 0 \/ x + 2 > l
      BY <1>9, <1>14 DEF Stands
    <2>2. r = <<>>
      BY <1>12, <2>1
    <2>3. ~(y <= MAX_READ /\ h.ciphers % 256 < 128)
      <3>1. ASSUME y <= MAX_READ, h.ciphers % 256 < 128 PROVE FALSE
        <4>1. l = y
          BY <1>4, <1>7, <3>1
        <4>2. l >= e
          BY <1>4, <4>1
        <4>3. x = c
          BY <1>9, <3>1, <4>2
        <4> QED  BY <1>5, <1>14, <4>2, <4>3
      <3> QED  BY <3>1
    <2> QED  BY <1>4, <2>2, <2>3 DEF SniShown
  <1> QED  BY <1>13, <1>14

\* Only one server name is the first.
LEMMA AskedOnce ==
    ASSUME NEW exts, NEW n \in Nat, NEW q, Asked(exts, n, q), NEW k, Asked(exts, n, k)
    PROVE  q = k
  <1>1. q \in 1 .. n /\ k \in 1 .. n /\ exts[q].type = 0 /\ exts[k].type = 0
    BY DEF Asked
  <1>2. q < k \/ q = k \/ k < q
    BY <1>1
  <1>3. ASSUME q < k PROVE FALSE
    <2>1. q \in 1 .. k - 1
      BY <1>1, <1>3
    <2> QED  BY <1>1, <2>1 DEF Asked
  <1>4. ASSUME k < q PROVE FALSE
    <2>1. k \in 1 .. q - 1
      BY <1>1, <1>4
    <2> QED  BY <1>1, <2>1 DEF Asked
  <1> QED  BY <1>2, <1>3, <1>4

\* A name in a packet that is read whole is shorter than the packet.
LEMMA NameFits ==
    ASSUME NEW h, IsHello(h), NEW n, IsExts(h.exts, n), NEW w, w = SniBytes(h), Len(w) <= MAX_READ, NEW q \in 1 .. n,
           h.exts[q].type = 0, h.exts[q].len % 256 < 128
    PROVE  Len(h.exts[q].name) < 128
  <1>1. PICK a \in Nat, b \in Nat, c \in Nat, e \in Nat : \E A : HelloOf(w, h, n, a, b, c, e, A)
    BY SniBytesIs
  <1>2. PICK A : HelloOf(w, h, n, a, b, c, e, A)
    BY <1>1
  <1>3. ExtsIn(w, h.exts, n, A, e)
    BY <1>2 DEF HelloOf
  <1>4. A[q - 1] \in Nat /\ A[q] <= A[n]
    BY <1>3, ExtsGrow
  <1>5. PICK m \in Nat, l \in Nat : m = Len(h.exts[q].name) /\ l = h.exts[q].len
    BY ExtTyped DEF IsExts
  <1>6. A[q] = A[q - 1] + 4 + l /\ A[n] = Len(w)
    BY <1>3, <1>5 DEF ExtsIn
  <1>7. MAX_READ \in Nat /\ MAX_READ <= 255
    BY PacketSizesAssumption
  <1>8. l = m + 5
    BY <1>5 DEF IsExts
  <1>9. l % 256 < 128
    BY <1>5
  <1>10. PICK y \in Nat : y = A[q - 1] /\ y + 4 + l <= 255
    <2>1. A[n] \in Nat
      <3>1. n \in Nat
        BY DEF IsExts
      <3>2. n \in 0 .. n
        BY <3>1
      <3> QED  BY <1>3, <3>2 DEF ExtsIn
    <2> QED  BY <1>4, <1>6, <1>7, <2>1
  <1>11. m < 128
    BY <1>8, <1>9, <1>10, SMTT(30)
  <1> QED  BY <1>5, <1>11

\* What the parser must find in a hello that it is given.
ParsedRight(h, logged) ==
    IF Servers(h) = {} THEN logged = <<>>
    ELSE /\ logged \in {<<>>, <<Cut(h.exts[Min(Servers(h))].name, NAME_ROOM - 1)>>}
         /\ SniDue(h) => logged # <<>>

LEMMA SniRightIs ==
    ASSUME NEW h, IsHello(h)
    PROVE  ParsedRight(h, ParseSni(SniBytes(h)))
  <1>1. PICK n : IsExts(h.exts, n)
    BY HelloTyped
  <1>. n \in Nat
    BY <1>1 DEF IsExts
  <1>2. DOMAIN h.exts = 1 .. n
    BY <1>1, LenProperties DEF IsExts
  <1>3. PICK w : w = SniBytes(h)
    OBVIOUS
  <1>4. PICK r : r = ParseSni(w)
    OBVIOUS
  <1>5. SniShown(r, h.exts, n)
    BY <1>1, <1>3, <1>4, SniLogged
  <1>6. \A q : Len(w) <= MAX_READ /\ h.ciphers % 256 < 128 /\ Asked(h.exts, n, q) /\ Plain(h.exts, q, MAX_EXTS)
                  => r # <<>>
    BY <1>1, <1>3, <1>4, SniLogged
  <1>7. CASE Servers(h) = {}
    <2>1. ASSUME NEW q, Asked(h.exts, n, q) PROVE FALSE
      <3>1. q \in Servers(h)
        BY <1>2, <2>1 DEF Asked, Servers
      <3> QED  BY <1>7, <3>1
    <2>2. r = <<>>
      BY <1>5, <2>1 DEF SniShown
    <2> QED  BY <1>3, <1>4, <1>7, <2>2 DEF ParsedRight
  <1>8. CASE Servers(h) # {}
    <2>1. PICK q : q = Min(Servers(h))
      OBVIOUS
    <2>2. Servers(h) \subseteq 1 .. n /\ \A i \in 1 .. n : i \in Servers(h) <=> h.exts[i].type = 0
      BY <1>2 DEF Servers
    <2>3. q \in Servers(h) /\ \A i \in Servers(h) : q <= i
      <3>1. Servers(h) \subseteq Nat
        BY <2>2
      <3> QED  BY <1>8, <2>1, <3>1, MinIs
    <2>4. q \in 1 .. n
      BY <2>2, <2>3
    <2>5. Asked(h.exts, n, q)
      <3>1. ASSUME NEW i \in 1 .. q - 1 PROVE h.exts[i].type # 0
        <4>1. i \in 1 .. n /\ ~(q <= i)
          BY <2>4
        <4> QED  BY <2>2, <2>3, <4>1
      <3> QED  BY <2>2, <2>3, <2>4, <3>1 DEF Asked
    <2>6. r = <<>> \/ r = <<Cut(h.exts[q].name, NAME_ROOM - 1)>>
      <3>1. ASSUME NEW k, Asked(h.exts, n, k) PROVE k = q
        BY <2>5, <3>1, AskedOnce
      <3> QED  BY <1>5, <3>1 DEF SniShown
    <2>7. ASSUME SniDue(h) PROVE r # <<>>
      <3>1. Len(w) <= MAX_READ /\ h.ciphers % 256 < 128
        BY <1>3, <2>7 DEF SniDue
      <3>2. PICK k \in DOMAIN h.exts : /\ k <= MAX_EXTS /\ h.exts[k].type = 0 /\ Len(h.exts[k].name) < 128
                                       /\ \A i \in 1 .. k - 1 : h.exts[i].len % 256 < 128
        BY <2>7 DEF SniDue
      <3>3. k \in 1 .. n /\ q <= k
        BY <1>2, <2>2, <2>3, <3>2
      <3>4. q <= MAX_EXTS
        <4>1. MAX_EXTS \in Nat
          BY PacketSizesAssumption
        <4> QED  BY <2>4, <3>2, <3>3, <4>1
      <3>5. \A i \in 1 .. q - 1 : h.exts[i].len % 256 < 128
        <4>1. ASSUME NEW i \in 1 .. q - 1 PROVE i \in 1 .. k - 1
          BY <2>4, <3>3
        <4> QED  BY <3>2, <4>1
      <3>6. Len(h.exts[q].name) < 128
        <4>1. CASE q = k
          BY <3>2, <4>1
        <4>2. CASE q # k
          <5>1. q \in 1 .. k - 1
            BY <2>4, <3>3, <4>2
          <5>2. h.exts[q].len % 256 < 128
            BY <3>2, <5>1
          <5>3. h.exts[q].type = 0
            BY <2>5 DEF Asked
          <5> QED  BY <1>1, <1>3, <2>4, <3>1, <5>2, <5>3, NameFits
        <4> QED  BY <4>1, <4>2
      <3>7. Plain(h.exts, q, MAX_EXTS)
        BY <3>4, <3>5, <3>6 DEF Plain
      <3> QED  BY <1>6, <2>5, <3>1, <3>7
    <2> QED  BY <1>3, <1>4, <1>8, <2>1, <2>6, <2>7 DEF ParsedRight
  <1> QED  BY <1>7, <1>8

\* What the send of a hello logs: nothing unless it is looked at.
LEMMA SendRightIs ==
    ASSUME NEW h, IsHello(h)
    PROVE  SniRight(h, SendLogged(h, SniBytes(h)))
  <1>1. h.ident = <<>> \/ \E p \in Word : h.ident = <<p>>
    BY DEF IsHello
  <1>2. Parsed(h) <=> h.first /\ h.ident \in {<<>>, <<HTTPS>>} /\ ~(h.ident = <<>> /\ h.dport # HTTPS)
    <2>1. CASE h.ident = <<>>
      BY <2>1 DEF Parsed, StampedPort
    <2>2. ASSUME NEW p \in Word, h.ident = <<p>>
          PROVE  Parsed(h) <=> h.first /\ h.ident \in {<<>>, <<HTTPS>>} /\ ~(h.ident = <<>> /\ h.dport # HTTPS)
      <3>1. h.ident # <<>> /\ h.ident[1] = p /\ (h.ident = <<HTTPS>> <=> p = HTTPS)
        BY <2>2
      <3> QED  BY <3>1 DEF Parsed, StampedPort
    <2> QED  BY <1>1, <2>1, <2>2
  <1>3. PICK r : r = ParseSni(SniBytes(h))
    OBVIOUS
  <1>4. ParsedRight(h, r)
    BY <1>3, SniRightIs
  <1>5. CASE Parsed(h)
    <2>1. SendLogged(h, SniBytes(h)) = r
      BY <1>3, <1>5 DEF SendLogged
    <2> QED  BY <1>2, <1>4, <1>5, <2>1 DEF SniRight, ParsedRight
  <1>6. CASE ~Parsed(h)
    <2>1. SendLogged(h, SniBytes(h)) = <<>>
      BY <1>6 DEF SendLogged
    <2> QED  BY <1>2, <1>6, <2>1 DEF SniRight
  <1> QED  BY <1>5, <1>6

LEMMA NextSni == Inv /\ SniExact /\ [Next]_vars => SniExact'
  <1> SUFFICES ASSUME Inv, SniExact, [Next]_vars PROVE SniExact'
    OBVIOUS
  <1>1. ASSUME NEW c \in Calls, Call(c) PROVE SniExact'
    <2>1. call'.kind = c.kind /\ call'.of = c /\ call'.served = (phase = "serving")
      BY <1>1 DEF Call
    <2>2. ASSUME c.kind = "hello", phase = "serving" PROVE SniRight(call'.of, call'.logged)
      <3>1. call'.logged = SendLogged(c, SniBytes(c))
        BY <1>1, <2>2, CallLogged DEF Logged
      <3>2. IsHello(c)
        BY <2>2, CallsAssumption
      <3> QED  BY <2>1, <3>1, <3>2, SendRightIs
    <2> QED  BY <2>1, <2>2 DEF SniExact
  <1>2. CASE Return
    BY <1>2 DEF Return, NoCall, SniExact
  <1>3. CASE UNCHANGED call
    BY <1>3 DEF SniExact
  <1> QED
    BY <1>1, <1>2, <1>3
       DEF Next, Loading, Dropping, Load, LoadPattern, LoadRule, Attach, FillJmp, Bind, Leave,
           DropLink, DropObjects, Restart, Track, vars

\* Whatever hello a tracked task sends, with any extensions of any lengths: what is logged is the
\* first server name in it, cut to the log's room, or nothing; and it is logged when the hello opens
\* a connection stamped as one to port 443, is read whole, its name is within the rounds of the loop
\* and no length on the way is taken for more.
THEOREM SniCorrect == Spec => []SniExact
  <1>1. Init => Inv /\ SniExact
    <2>1. Init => SniExact
      BY DEF Init, NoCall, SniExact
    <2> QED  BY <2>1, InitInv
  <1>2. (Inv /\ SniExact) /\ [Next]_vars => (Inv /\ SniExact)'
    BY NextInv, NextSni
  <1> QED  BY <1>1, <1>2, PTL DEF Spec

\* Pieces behind the first e bytes of a packet.
LaidAt(x, F, ss, n, e) ==
    /\ F \in [0 .. n -> Nat] /\ F[0] = e
    /\ \A k \in 1 .. n : F[k] = F[k - 1] + Len(ss[k]) /\ Follows(x, F[k - 1], ss[k], Len(ss[k]))

LEMMA LaidFits ==
    ASSUME NEW n \in Nat, NEW ss \in Seq(Seq(Nat)), Len(ss) = n, NEW w, NEW A, Laid(w, A, ss, n)
    PROVE  \A k \in 0 .. n : A[k] <= A[n]
  <1>0. A \in [0 .. n -> Nat]
    BY DEF Laid
  <1> SUFFICES ASSUME NEW k \in 0 .. n PROVE A[k] <= A[n]
    OBVIOUS
  <1> DEFINE B == {j \in 0 .. n : j < k \/ A[k] <= A[j]}
  <1>1. 0 \in B
    BY <1>0
  <1>2. ASSUME NEW j \in 1 .. n, j - 1 \in B PROVE j \in B
    <2>1. PICK a \in Nat, b \in Nat : a = A[j - 1] /\ b = A[j]
      <3>1. j - 1 \in 0 .. n /\ j \in 0 .. n
        OBVIOUS
      <3> QED  BY <1>0, <3>1
    <2>2. a <= b
      <3>1. PICK l \in Nat : l = Len(ss[j])
        BY ElementOfSeq, LenProperties
      <3>2. b = a + l
        BY <2>1, <3>1 DEF Laid
      <3> QED  BY <3>2
    <2>3. j < k \/ j = k \/ A[k] <= a
      BY <1>2, <2>1
    <2>4. A[k] \in Nat
      BY <1>0
    <2> QED  BY <2>1, <2>2, <2>3, <2>4
  <1>3. \A j \in 0 .. n : j \in B
    <2> HIDE DEF B
    <2> QED  BY <1>1, <1>2, NatUp
  <1>4. n \in 0 .. n /\ ~(n < k)
    OBVIOUS
  <1> QED  BY <1>3, <1>4

LEMMA LaidMoved ==
    ASSUME NEW n \in Nat, NEW ss \in Seq(Seq(Nat)), Len(ss) = n, NEW w, NEW A, Laid(w, A, ss, n),
           NEW y \in Nat, y = Len(w), NEW e \in Nat, NEW x, Follows(x, e, w, y)
    PROVE  \E F : LaidAt(x, F, ss, n, e) /\ F[n] = e + y
  <1>0. A \in [0 .. n -> Nat] /\ A[0] = 0 /\ A[n] = y
    BY DEF Laid
  <1>1. PICK F : F = [k \in 0 .. n |-> e + A[k]]
    OBVIOUS
  <1>2. F \in [0 .. n -> Nat] /\ F[0] = e /\ F[n] = e + y /\ \A k \in 0 .. n : F[k] = e + A[k]
    <2>1. \A k \in 0 .. n : F[k] = e + A[k]
      BY <1>1
    <2>2. 0 \in 0 .. n /\ n \in 0 .. n
      OBVIOUS
    <2>3. \A k \in 0 .. n : e + A[k] \in Nat
      BY <1>0
    <2>4. F \in [0 .. n -> Nat]
      BY <1>1, <2>3
    <2>5. F[0] = e + 0 /\ F[n] = e + y
      BY <1>0, <2>1, <2>2
    <2> QED  BY <2>1, <2>4, <2>5
  <1>3. ASSUME NEW k \in 1 .. n
        PROVE  F[k] = F[k - 1] + Len(ss[k]) /\ Follows(x, F[k - 1], ss[k], Len(ss[k]))
    <2>1. k - 1 \in 0 .. n /\ k \in 0 .. n
      OBVIOUS
    <2>2. PICK a \in Nat, l \in Nat : a = A[k - 1] /\ l = Len(ss[k])
      BY <1>0, <2>1, ElementOfSeq, LenProperties
    <2>3. A[k] = a + l /\ \A j \in 1 .. l : w[a + j] = ss[k][j]
      BY <2>2 DEF Laid
    <2>4. a + l <= y
      BY <1>0, <2>1, <2>3, LaidFits
    <2>5. PICK p \in Nat : p = e + a
      OBVIOUS
    <2>6. F[k] = p + l /\ F[k - 1] = p
      <3>1. F[k] = e + (a + l) /\ F[k - 1] = e + a
        BY <1>2, <2>1, <2>2, <2>3
      <3> QED  BY <2>5, <3>1
    <2>7. ASSUME NEW j \in 1 .. l PROVE x[p + j] = ss[k][j]
      <3>1. a + j \in 1 .. y /\ e + (a + j) = p + j
        BY <2>4, <2>5
      <3>2. x[e + (a + j)] = w[a + j]
        BY <3>1 DEF Follows
      <3> QED  BY <2>3, <3>1, <3>2
    <2>8. Follows(x, p, ss[k], l)
      BY <2>7 DEF Follows
    <2> QED  BY <2>2, <2>6, <2>8
  <1>4. LaidAt(x, F, ss, n, e)
    BY <1>2, <1>3 DEF LaidAt
  <1> QED  BY <1>2, <1>4

\* The labels of a name.
IsName(labels, n) ==
    /\ n \in Nat /\ labels \in Seq(Seq(Nat)) /\ Len(labels) = n
    /\ \A k \in 1 .. n : /\ labels[k] \in Seq(Nat) /\ Len(labels[k]) \in 1 .. 63
                         /\ \A j \in 1 .. Len(labels[k]) : labels[k][j] \in 1 .. 191

\* Its bytes, behind the first o of a packet, and where each label ends.
LabelsIn(x, o, labels, n, E) ==
    /\ E \in [0 .. n -> Nat] /\ E[0] = 0
    /\ \A k \in 1 .. n : /\ E[k] = E[k - 1] + 1 + Len(labels[k]) /\ E[k] <= E[n]
                         /\ x[o + (E[k - 1] + 1)] = Len(labels[k])
                         /\ \A j \in 1 .. Len(labels[k]) : x[o + (E[k - 1] + 1 + j)] = labels[k][j]
    /\ x[o + (E[n] + 1)] = 0

LEMMA LabelPiece ==
    ASSUME NEW l \in Seq(Nat), NEW b \in Nat, b = Len(l), NEW s, s = <<b>> \o l
    PROVE  s \in Seq(Nat) /\ Len(s) = 1 + b /\ s[1] = b /\ \A j \in 1 .. b : s[1 + j] = l[j]
  <1>1. PICK t : t = <<b>>
    OBVIOUS
  <1>2. t \in Seq(Nat) /\ Len(t) = 1 /\ t[1] = b /\ 1 \in Nat
    BY <1>1
  <1>3. Joined(s, t, 1, l, b)
    BY <1>1, <1>2, Joins
  <1> QED  BY <1>2, <1>3 DEF Joined

\* What LabelsBytes writes of a name: y bytes.
LabelsOf(w, y, labels, n, E) ==
    /\ w \in Seq(Nat) /\ y \in Nat /\ Len(w) = y /\ E[n] \in Nat /\ y = E[n] + 1
    /\ \A k \in 1 .. n : E[k - 1] \in Nat /\ E[k - 1] + 1 + Len(labels[k]) < y
    /\ LabelsIn(w, 0, labels, n, E)

LEMMA LabelsLaid ==
    ASSUME NEW labels, NEW n, IsName(labels, n), NEW w, w = LabelsBytes(labels)
    PROVE  \E y, E : LabelsOf(w, y, labels, n, E)
  <1>1. n \in Nat /\ \A k \in 1 .. n : labels[k] \in Seq(Nat) /\ Len(labels[k]) \in 1 .. 63
    BY DEF IsName
  <1>2. PICK ss : ss = [i \in 1 .. n |-> <<Len(labels[i])>> \o labels[i]]
    OBVIOUS
  <1>3. ASSUME NEW k \in 1 .. n
        PROVE  /\ ss[k] \in Seq(Nat) /\ Len(ss[k]) = 1 + Len(labels[k]) /\ ss[k][1] = Len(labels[k])
               /\ \A j \in 1 .. Len(labels[k]) : ss[k][1 + j] = labels[k][j]
    <2>1. PICK b \in Nat : b = Len(labels[k])
      BY <1>1
    <2>2. ss[k] = <<b>> \o labels[k]
      BY <1>2, <2>1
    <2> QED  BY <1>1, <2>1, <2>2, LabelPiece
  <1>4. ss \in Seq(Seq(Nat)) /\ Len(ss) = n
    <2>1. ss \in [1 .. n -> Seq(Nat)]
      BY <1>2, <1>3
    <2> QED  BY <1>1, <2>1, FunSeq, LenProperties
  <1>5. PICK u : u = FlattenSeq(ss)
    OBVIOUS
  <1>6. PICK E : Laid(u, E, ss, n)
    BY <1>1, <1>4, <1>5, LaidOut
  <1>7. PICK e, z : e \in Nat /\ e = Len(u) /\ z = <<0>>
    <2>1. u \in Seq(Nat)
      BY <1>6 DEF Laid
    <2> QED  BY <2>1, LenProperties
  <1>. e \in Nat
    BY <1>7
  <1>8. w = u \o z
    <2>1. DOMAIN labels = 1 .. n
      BY LenProperties DEF IsName
    <2> QED  BY <1>2, <1>5, <1>7, <2>1 DEF LabelsBytes
  <1>9. Joined(w, u, e, z, 1)
    <2>1. u \in Seq(Nat)
      BY <1>6 DEF Laid
    <2>2. 0 \in Nat
      OBVIOUS
    <2> QED  BY <1>7, <1>8, <2>1, <2>2, OneMore
  <1>10. E \in [0 .. n -> Nat] /\ E[0] = 0 /\ E[n] = e
    BY <1>6, <1>7 DEF Laid
  <1>11. w \in Seq(Nat) /\ Len(w) = e + 1 /\ w[e + 1] = 0
    <2>1. z[1] = 0 /\ 1 \in 1 .. 1
      BY <1>7
    <2> QED  BY <1>9, <2>1 DEF Joined
  <1>12. ASSUME NEW k \in 1 .. n
         PROVE  /\ E[k - 1] \in Nat /\ E[k] = E[k - 1] + 1 + Len(labels[k])
                /\ E[k - 1] + 1 + Len(labels[k]) < e + 1
                /\ w[E[k - 1] + 1] = Len(labels[k])
                /\ \A j \in 1 .. Len(labels[k]) : w[E[k - 1] + 1 + j] = labels[k][j]
    <2>1. PICK a \in Nat, b \in Nat : a = E[k - 1] /\ b = Len(labels[k])
      <3>1. k - 1 \in 0 .. n
        BY <1>1
      <3>2. Len(labels[k]) \in Nat
        BY <1>1, LenProperties
      <3> QED  BY <1>10, <3>1, <3>2
    <2>2. E[k] = a + (1 + b) /\ \A j \in 1 .. 1 + b : u[a + j] = ss[k][j]
      BY <1>3, <1>6, <2>1 DEF Laid
    <2>3. a + (1 + b) <= e
      <3>1. k \in 0 .. n
        OBVIOUS
      <3> QED  BY <1>1, <1>4, <1>6, <1>10, <2>2, <3>1, LaidFits
    <2>4. \A j \in 1 .. 1 + b : w[a + j] = ss[k][j]
      <3>1. ASSUME NEW j \in 1 .. 1 + b PROVE a + j \in 1 .. e
        BY <2>3
      <3> QED  BY <1>9, <2>2, <3>1 DEF Joined
    <2>5. w[a + 1] = b
      <3>1. 1 \in 1 .. 1 + b
        OBVIOUS
      <3> QED  BY <1>3, <2>1, <2>4, <3>1
    <2>6. ASSUME NEW j \in 1 .. b PROVE w[a + 1 + j] = labels[k][j]
      <3>1. 1 + j \in 1 .. 1 + b /\ a + (1 + j) = a + 1 + j
        OBVIOUS
      <3>2. ss[k][1 + j] = labels[k][j]
        BY <1>3, <2>1
      <3> QED  BY <2>4, <3>1, <3>2
    <2>7. a + (1 + b) = a + 1 + b /\ a + 1 + b < e + 1
      BY <2>3
    <2> QED  BY <2>1, <2>2, <2>5, <2>6, <2>7
  <1>13. LabelsIn(w, 0, labels, n, E)
    <2>1. \A i \in Nat : 0 + i = i
      OBVIOUS
    <2>4. ASSUME NEW k \in 1 .. n PROVE E[k] <= E[n]
      <3>1. k \in 0 .. n
        BY <1>1
      <3> QED  BY <1>1, <1>4, <1>6, <3>1, LaidFits
    <2>2. ASSUME NEW k \in 1 .. n
          PROVE  /\ w[0 + (E[k - 1] + 1)] = Len(labels[k])
                 /\ \A j \in 1 .. Len(labels[k]) : w[0 + (E[k - 1] + 1 + j)] = labels[k][j]
      <3>1. PICK a \in Nat, b \in Nat : a = E[k - 1] /\ b = Len(labels[k])
        <4>1. Len(labels[k]) \in Nat
          BY <1>1, LenProperties
        <4> QED  BY <1>12, <4>1
      <3>2. \A j \in 1 .. b : 0 + (a + 1 + j) = a + 1 + j
        OBVIOUS
      <3>3. 0 + (a + 1) = a + 1
        OBVIOUS
      <3> QED  BY <1>12, <3>1, <3>2, <3>3
    <2>3. w[0 + (E[n] + 1)] = 0
      BY <1>7, <1>10, <1>11
    <2> QED  BY <1>10, <1>12, <2>2, <2>3, <2>4 DEF LabelsIn
  <1>14. PICK y : y = e + 1
    OBVIOUS
  <1>15. y \in Nat /\ Len(w) = y /\ E[n] \in Nat /\ y = E[n] + 1
    BY <1>10, <1>11, <1>14
  <1>16. \A k \in 1 .. n : E[k - 1] \in Nat /\ E[k - 1] + 1 + Len(labels[k]) < y
    BY <1>12, <1>14
  <1> QED  BY <1>11, <1>13, <1>15, <1>16 DEF LabelsOf

LEMMA LabelsMoved ==
    ASSUME NEW w, NEW y, NEW labels, NEW n, NEW E, LabelsOf(w, y, labels, n, E), n \in Nat,
           \A k \in 1 .. n : Len(labels[k]) \in Nat,
           NEW o \in Nat, NEW x, Follows(x, o, w, y)
    PROVE  LabelsIn(x, o, labels, n, E)
  <1>1. y \in Nat /\ E[n] \in Nat /\ y = E[n] + 1 /\ LabelsIn(w, 0, labels, n, E)
    BY DEF LabelsOf
  <1>2. \A i \in 1 .. y : x[o + i] = w[i] /\ 0 + i = i
    BY DEF Follows
  <1>3. ASSUME NEW k \in 1 .. n
        PROVE  /\ E[k] = E[k - 1] + 1 + Len(labels[k]) /\ E[k] <= E[n]
               /\ x[o + (E[k - 1] + 1)] = Len(labels[k])
               /\ \A j \in 1 .. Len(labels[k]) : x[o + (E[k - 1] + 1 + j)] = labels[k][j]
    <2>1. PICK a \in Nat, b \in Nat : a = E[k - 1] /\ b = Len(labels[k]) /\ a + 1 + b < y
      BY DEF LabelsOf
    <2>2. E[k] = a + 1 + b /\ E[k] <= E[n] /\ w[0 + (a + 1)] = b /\ \A j \in 1 .. b : w[0 + (a + 1 + j)] = labels[k][j]
      BY <1>1, <2>1 DEF LabelsIn
    <2>3. a + 1 \in 1 .. y /\ \A j \in 1 .. b : a + 1 + j \in 1 .. y
      <3>1. y \in Nat /\ a + 1 + b < y
        BY <1>1, <2>1
      <3> QED  BY <3>1
    <2>4. x[o + (a + 1)] = b
      BY <1>2, <2>2, <2>3
    <2>5. \A j \in 1 .. b : x[o + (a + 1 + j)] = labels[k][j]
      BY <1>2, <2>2, <2>3
    <2> QED  BY <2>1, <2>2, <2>4, <2>5
  <1>4. x[o + (E[n] + 1)] = 0
    <2>1. E[n] + 1 \in 1 .. y
      BY <1>1
    <2>2. w[0 + (E[n] + 1)] = 0
      BY <1>1 DEF LabelsIn
    <2> QED  BY <1>2, <2>1, <2>2
  <1>5. E \in [0 .. n -> Nat] /\ E[0] = 0
    BY <1>1 DEF LabelsIn
  <1> QED  BY <1>3, <1>4, <1>5 DEF LabelsIn

\* The name of the labels, one more at a time.
Dots(s) == IF s = <<>> THEN <<>> ELSE s \o <<46>>
NamePut(s, l) == IF s = <<>> THEN l ELSE s \o <<46>> \o l

JoinFold(it, labels) ==
    it = [s \in SUBSET DOMAIN labels |->
            IF s = {} THEN <<>>
            ELSE IF it[s \ {Max(s)}] = <<>> THEN labels[Max(s)]
                 ELSE it[s \ {Max(s)}] \o <<46>> \o labels[Max(s)]]

Joining(D, labels, n) ==
    /\ D \in [0 .. n -> Seq(Nat)] /\ D[0] = <<>> /\ D[n] = JoinLabels(labels)
    /\ \A k \in 1 .. n : D[k] = NamePut(D[k - 1], labels[k])

LEMMA JoinSteps ==
    ASSUME NEW n \in Nat, NEW labels \in Seq(Seq(Nat)), Len(labels) = n
    PROVE  \E D : Joining(D, labels, n)
  <1> DEFINE V == Seq(Nat)
             g == [x \in V \X (1 .. n) |-> NamePut(x[1], labels[x[2]])]
  <1>d. DOMAIN labels = 1 .. n /\ \A k \in 1 .. n : labels[k] \in V
    BY LenProperties, ElementOfSeq
  <1>0. \A s \in V, k \in 1 .. n : NamePut(s, labels[k]) \in V
    <2>1. ASSUME NEW s \in V, NEW k \in 1 .. n PROVE NamePut(s, labels[k]) \in V
      <3>1. PICK d : d = <<46>>
        OBVIOUS
      <3>2. d \in V
        BY <3>1
      <3>4. s \o d \in V
        BY <3>2, ConcatProperties
      <3>5. (s \o d) \o labels[k] \in V
        BY <1>d, <3>4, ConcatProperties
      <3> QED  BY <1>d, <3>1, <3>5 DEF NamePut
    <2> QED  BY <2>1
  <1>1. IsStep(g, n, V, <<>>)
    <2>1. <<>> \in V
      BY EmptySeq
    <2> HIDE DEF V
    <2> QED  BY <1>0, <2>1 DEF IsStep
  <1>2. \A s \in V, k \in 1 .. n : g[<<s, k>>] = NamePut(s, labels[k])
    OBVIOUS
  <1> HIDE DEF g, V
  <1>3. ASSUME NEW s \in SUBSET (1 .. n), s # {} PROVE Max(s) \in 1 .. n
    <2>1. s \subseteq 0 .. n
      OBVIOUS
    <2> QED  BY <1>3, <2>1, MaxIs
  <1>4. PICK h \in [SUBSET (1 .. n) -> V] : IsFold(h, n, <<>>, g)
    BY <1>1, FoldExists
  <1>5. JoinFold(h, labels)
    <2>1. ASSUME NEW s \in SUBSET (1 .. n), s # {}
          PROVE  h[s] = NamePut(h[s \ {Max(s)}], labels[Max(s)])
      <3>1. h[s \ {Max(s)}] \in V
        OBVIOUS
      <3>2. h[s] = g[<<h[s \ {Max(s)}], Max(s)>>]
        BY <1>4, <2>1 DEF IsFold
      <3> QED  BY <1>2, <1>3, <2>1, <3>1, <3>2
    <2>2. h[{}] = <<>>
      BY <1>4 DEF IsFold
    <2> QED  BY <1>4, <1>d, <2>1, <2>2 DEF JoinFold, NamePut
  <1>6. PICK it : it = CHOOSE i0 : JoinFold(i0, labels)
    OBVIOUS
  <1>7. JoinFold(it, labels)
    BY <1>5, <1>6
  <1>8. JoinLabels(labels) = it[1 .. n]
    BY <1>6, <1>d DEF JoinLabels, FoldLeft, MapThenFoldSet, JoinFold
  <1>9. it[{}] = <<>>
    BY <1>7 DEF JoinFold
  <1>10. ASSUME NEW s \in SUBSET (1 .. n), s # {}, it[s \ {Max(s)}] \in V
         PROVE  it[s] = g[<<it[s \ {Max(s)}], Max(s)>>]
    <2>1. it[s] = NamePut(it[s \ {Max(s)}], labels[Max(s)])
      BY <1>7, <1>d, <1>10 DEF JoinFold, NamePut
    <2> QED  BY <1>2, <1>3, <1>10, <2>1
  <1>11. PICK D : IsWalk(D, n, V, <<>>, g) /\ D[n] = it[1 .. n]
    <2>1. Unrolls(it, n, V, <<>>, g)
      BY <1>9, <1>10 DEF Unrolls
    <2> QED  BY <1>1, <2>1, FoldSteps
  <1>12. ASSUME NEW k \in 1 .. n PROVE D[k] = NamePut(D[k - 1], labels[k])
    <2>1. D[k - 1] \in V
      <3>1. k - 1 \in 0 .. n
        OBVIOUS
      <3> QED  BY <1>11, <3>1 DEF IsWalk
    <2>2. D[k] = g[<<D[k - 1], k>>]
      BY <1>11 DEF IsWalk
    <2> QED  BY <1>2, <2>1, <2>2
  <1>13. D \in [0 .. n -> V] /\ D[0] = <<>>
    BY <1>11 DEF IsWalk
  <1>14. Joining(D, labels, n)
    BY <1>8, <1>11, <1>12, <1>13 DEF V, Joining
  <1> QED  BY <1>14

\* The name after each label, and what stands before the next.
Spelled(D, labels, n, E) ==
    /\ D \in [0 .. n -> Seq(Nat)] /\ D[0] = <<>> /\ D[n] = JoinLabels(labels)
    /\ \A k \in 1 .. n : /\ D[k] = Dots(D[k - 1]) \o labels[k] /\ D[k] # <<>>
                         /\ Dots(D[k - 1]) \in Seq(Nat) /\ Len(Dots(D[k - 1])) = E[k - 1]
    /\ n > 0 => Len(D[n]) + 1 = E[n]

PutIs(s, m, l, b, u) ==
    /\ Dots(s) \in Seq(Nat) /\ u = Dots(s) \o l
    /\ s = <<>> => Len(Dots(s)) = 0 /\ Len(u) = b
    /\ s # <<>> => Len(Dots(s)) = m + 1 /\ Len(u) = m + 1 + b

LEMMA DotsIs ==
    ASSUME NEW s \in Seq(Nat), NEW m \in Nat, m = Len(s), NEW l \in Seq(Nat), NEW b \in Nat, b = Len(l),
           NEW u, u = NamePut(s, l)
    PROVE  PutIs(s, m, l, b, u)
  <1>1. CASE s = <<>>
    <2>1. Dots(s) = <<>> /\ NamePut(s, l) = l
      BY <1>1 DEF Dots, NamePut
    <2>2. <<>> \o l = l /\ <<>> \in Seq(Nat) /\ Len(<<>>) = 0
      BY EmptySeq
    <2> QED  BY <1>1, <2>1, <2>2 DEF PutIs
  <1>2. CASE s # <<>>
    <2>1. PICK d, q : d = <<46>> /\ q = s \o d
      OBVIOUS
    <2>2. d \in Seq(Nat) /\ Len(d) = 1 /\ 1 \in Nat
      BY <2>1
    <2>3. q \in Seq(Nat) /\ Len(q) = m + 1
      BY <2>1, <2>2, JoinIs
    <2>4. PICK v : v = q \o l
      OBVIOUS
    <2>5. Len(v) = m + 1 + b
      <3>1. PICK c \in Nat : c = m + 1
        OBVIOUS
      <3>2. c = Len(q)
        BY <2>3, <3>1
      <3>3. Len(v) = c + b
        <4>1. q \in Seq(Nat)
          BY <2>3
        <4> QED  BY <2>4, <3>2, <4>1, JoinIs
      <3> QED  BY <3>1, <3>3
    <2>6. Dots(s) = q /\ u = v
      BY <1>2, <2>1, <2>4 DEF Dots, NamePut
    <2> QED  BY <1>2, <2>3, <2>4, <2>5, <2>6 DEF PutIs
  <1> QED  BY <1>1, <1>2

LEMMA NameSpelled ==
    ASSUME NEW labels, NEW n, IsName(labels, n), NEW E, E \in [0 .. n -> Nat], E[0] = 0,
           \A k \in 1 .. n : E[k] = E[k - 1] + 1 + Len(labels[k])
    PROVE  \E D : Spelled(D, labels, n, E)
  <1>1. n \in Nat /\ labels \in Seq(Seq(Nat)) /\ Len(labels) = n
        /\ \A k \in 1 .. n : labels[k] \in Seq(Nat) /\ Len(labels[k]) \in 1 .. 63
    BY DEF IsName
  <1>2. PICK D : Joining(D, labels, n)
    BY <1>1, JoinSteps
  <1>3. D \in [0 .. n -> Seq(Nat)] /\ D[0] = <<>> /\ D[n] = JoinLabels(labels)
        /\ \A k \in 1 .. n : D[k] = NamePut(D[k - 1], labels[k])
    BY <1>2 DEF Joining
  <1> DEFINE Long(k) == IF k = 0 THEN D[k] = <<>> ELSE D[k] # <<>> /\ Len(D[k]) + 1 = E[k]
             B == {k \in 0 .. n : Long(k)}
  <1>4. 0 \in B
    BY <1>1, <1>3
  <1>5. ASSUME NEW k \in 1 .. n, Long(k - 1)
        PROVE  /\ Long(k) /\ D[k] = Dots(D[k - 1]) \o labels[k] /\ D[k] # <<>>
               /\ Dots(D[k - 1]) \in Seq(Nat) /\ Len(Dots(D[k - 1])) = E[k - 1]
    <2>1. k - 1 \in 0 .. n /\ k \in 0 .. n
      BY <1>1
    <2>2. PICK s \in Seq(Nat), l \in Seq(Nat), u \in Seq(Nat) : s = D[k - 1] /\ l = labels[k] /\ u = D[k]
      BY <1>1, <1>3, <2>1
    <2>3. PICK m \in Nat, b \in Nat, a \in Nat : m = Len(s) /\ b = Len(l) /\ a = E[k - 1] /\ b >= 1
      <3>1. Len(s) \in Nat /\ Len(l) \in Nat
        BY LenProperties
      <3>2. Len(l) \in 1 .. 63
        BY <1>1, <2>2
      <3>3. E[k - 1] \in Nat
        BY <2>1
      <3>4. \A z \in 1 .. 63 : z >= 1
        OBVIOUS
      <3> QED  BY <3>1, <3>2, <3>3, <3>4
    <2>4. u = NamePut(s, l)
      BY <1>3, <2>2
    <2>5. /\ Dots(s) \in Seq(Nat) /\ u = Dots(s) \o l
          /\ s = <<>> => Len(Dots(s)) = 0 /\ Len(u) = b
          /\ s # <<>> => Len(Dots(s)) = m + 1 /\ Len(u) = m + 1 + b
      <3>1. PutIs(s, m, l, b, u)
        BY <2>3, <2>4, DotsIs
      <3> QED  BY <3>1 DEF PutIs
    <2>6. E[k] = a + 1 + b
      BY <2>2, <2>3
    <2>7. s = <<>> => a = 0
      <3>1. CASE k - 1 = 0
        BY <2>3, <3>1
      <3>2. CASE k - 1 # 0
        BY <1>5, <2>2, <3>2
      <3> QED  BY <3>1, <3>2
    <2>8. s # <<>> => m + 1 = a
      <3>1. CASE k - 1 = 0
        BY <1>5, <2>2, <3>1
      <3>2. CASE k - 1 # 0
        BY <1>5, <2>2, <2>3, <3>2
      <3> QED  BY <3>1, <3>2
    <2>9. Len(Dots(s)) = a /\ Len(u) + 1 = a + 1 + b
      <3>1. CASE s = <<>>
        <4>1. Len(Dots(s)) = 0 /\ Len(u) = b /\ a = 0
          BY <2>5, <2>7, <3>1
        <4> QED  BY <4>1
      <3>2. CASE s # <<>>
        <4>1. Len(Dots(s)) = m + 1 /\ Len(u) = m + 1 + b /\ m + 1 = a
          BY <2>5, <2>8, <3>2
        <4> QED  BY <4>1
      <3> QED  BY <3>1, <3>2
    <2>10. u # <<>>
      <3>1. Len(u) # 0
        BY <2>3, <2>5
      <3> QED  BY <3>1, EmptySeq
    <2>11. Long(k)
      BY <2>2, <2>6, <2>9, <2>10
    <2> QED  BY <2>2, <2>3, <2>5, <2>9, <2>10, <2>11
  <1>6. ASSUME NEW k \in 1 .. n, k - 1 \in B PROVE k \in B
    <2>1. Long(k) /\ k \in 0 .. n
      <3>1. Long(k - 1)
        BY <1>6
      <3> HIDE DEF Long
      <3> QED  BY <1>1, <1>5, <3>1
    <2> QED  BY <2>1
  <1>7. \A k \in 0 .. n : k \in B
    <2> HIDE DEF B
    <2> QED  BY <1>1, <1>4, <1>6, NatUp
  <1>8. ASSUME NEW k \in 1 .. n PROVE Long(k - 1)
    <2>1. k - 1 \in 0 .. n
      BY <1>1
    <2> QED  BY <1>7, <2>1
  <1>9. n > 0 => Len(D[n]) + 1 = E[n]
    <2>1. n \in 0 .. n
      BY <1>1
    <2>2. Long(n)
      BY <1>7, <2>1
    <2> QED  BY <1>1, <2>2
  <1> HIDE DEF Long
  <1>10. Spelled(D, labels, n, E)
    BY <1>3, <1>5, <1>8, <1>9 DEF Spelled
  <1> QED  BY <1>10

\* The loop over a response's name.
Qn(o, q, b, t) == [off |-> o, qname |-> q, label |-> b, stop |-> t]
QnState == [off : Nat, qname : Seq(Nat), label : Nat, stop : BOOLEAN]
Room(q, ch) == IF Len(q) < NAME_ROOM - 1 THEN Append(q, ch) ELSE q

LEMMA QnOne ==
    ASSUME NEW o, NEW q, NEW b, NEW t, NEW s, s = Qn(o, q, b, t), NEW y
    PROVE  /\ s.off = o /\ s.qname = q /\ s.label = b /\ s.stop = t
           /\ [s EXCEPT !.off = y] = Qn(y, q, b, t)
           /\ [s EXCEPT !.qname = y] = Qn(o, y, b, t)
           /\ [s EXCEPT !.label = y] = Qn(o, q, y, t)
           /\ [s EXCEPT !.stop = y] = Qn(o, q, b, y)
  <1>1. s = [off |-> o, qname |-> q, label |-> b, stop |-> t]
    BY DEF Qn
  <1>2. /\ [s EXCEPT !.off = y] = [off |-> y, qname |-> q, label |-> b, stop |-> t]
        /\ [s EXCEPT !.qname = y] = [off |-> o, qname |-> y, label |-> b, stop |-> t]
    BY <1>1
  <1>3. /\ [s EXCEPT !.label = y] = [off |-> o, qname |-> q, label |-> y, stop |-> t]
        /\ [s EXCEPT !.stop = y] = [off |-> o, qname |-> q, label |-> b, stop |-> y]
    BY <1>1
  <1>4. s.off = o /\ s.qname = q /\ s.label = b /\ s.stop = t
    BY <1>1
  <1> QED  BY <1>2, <1>3, <1>4 DEF Qn

TakeByte(s, y, z, u) == [s EXCEPT !.qname = y, !.label = z, !.off = u]
NewLabel(s, y, z, u) == [s EXCEPT !.label = z, !.off = u, !.qname = y]

LEMMA QnExcept ==
    ASSUME NEW o, NEW q, NEW b, NEW t, NEW s, s = Qn(o, q, b, t), NEW y, NEW z, NEW u
    PROVE  TakeByte(s, y, z, u) = Qn(u, y, z, t) /\ NewLabel(s, y, z, u) = Qn(u, y, z, t)
  <1>1. PICK s1 : s1 = [s EXCEPT !.qname = y]
    OBVIOUS
  <1>2. PICK s2 : s2 = [s1 EXCEPT !.label = z]
    OBVIOUS
  <1>3. PICK s3 : s3 = [s2 EXCEPT !.off = u]
    OBVIOUS
  <1>4. s1 = Qn(o, y, b, t)
    BY <1>1, QnOne
  <1>5. s2 = Qn(o, y, z, t)
    BY <1>2, <1>4, QnOne
  <1>6. s3 = Qn(u, y, z, t)
    BY <1>3, <1>5, QnOne
  <1>7. [s EXCEPT !.qname = y, !.label = z, !.off = u] = [[[s EXCEPT !.qname = y] EXCEPT !.label = z] EXCEPT !.off = u]
    OBVIOUS
  <1>8. PICK r1 : r1 = [s EXCEPT !.label = z]
    OBVIOUS
  <1>9. PICK r2 : r2 = [r1 EXCEPT !.off = u]
    OBVIOUS
  <1>10. PICK r3 : r3 = [r2 EXCEPT !.qname = y]
    OBVIOUS
  <1>11. r1 = Qn(o, q, z, t)
    BY <1>8, QnOne
  <1>12. r2 = Qn(u, q, z, t)
    BY <1>9, <1>11, QnOne
  <1>13. r3 = Qn(u, y, z, t)
    BY <1>10, <1>12, QnOne
  <1>14. [s EXCEPT !.label = z, !.off = u, !.qname = y] = [[[s EXCEPT !.label = z] EXCEPT !.off = u] EXCEPT !.qname = y]
    OBVIOUS
  <1> QED  BY <1>1, <1>2, <1>3, <1>6, <1>7, <1>8, <1>9, <1>10, <1>13, <1>14 DEF TakeByte, NewLabel

LEMMA QnIs ==
    ASSUME NEW s \in QnState
    PROVE  \E o \in Nat, q \in Seq(Nat), b \in Nat, t \in BOOLEAN : s = Qn(o, q, b, t)
  BY DEF QnState, Qn

\* One round, from where the loop is.
QnRound(d, l, o, q, b, t, r) ==
    /\ t \/ o >= l => r = Qn(o, q, b, TRUE)
    /\ ~t /\ ~(o >= l) /\ b # 0 => r = Qn(o + 1, Room(q, At(d, o)), b - 1, FALSE)
    /\ ~t /\ ~(o >= l) /\ b = 0 /\ (At(d, o) = 0 \/ At(d, o) >= 192) => r = Qn(o, q, b, TRUE)
    /\ ~t /\ ~(o >= l) /\ b = 0 /\ ~(At(d, o) = 0 \/ At(d, o) >= 192) /\ q = <<>> =>
          r = Qn(o + 1, q, At(d, o), FALSE)
    /\ ~t /\ ~(o >= l) /\ b = 0 /\ ~(At(d, o) = 0 \/ At(d, o) >= 192) /\ q # <<>> =>
          r = Qn(o + 1, Room(q, 46), At(d, o), FALSE)

LEMMA QnRoundIs ==
    ASSUME NEW d, NEW l, Len(d) = l, NEW o, NEW q, NEW b, NEW t \in BOOLEAN, NEW s, s = Qn(o, q, b, t)
    PROVE  QnRound(d, l, o, q, b, t, QnameByte(d, s))
  <1>1. s = Qn(o, q, b, t) /\ Len(d) = l
    OBVIOUS
  <1>2. s.off = o /\ s.qname = q /\ s.label = b /\ s.stop = t
    BY <1>1, QnOne
  <1>3. [s EXCEPT !.stop = TRUE] = Qn(o, q, b, TRUE)
    <2>1. \A y : [s EXCEPT !.stop = y] = Qn(o, q, b, y)
      BY <1>1, QnOne
    <2> QED  BY <2>1, Zenon
  <1>4. \A y, z, u : TakeByte(s, y, z, u) = Qn(u, y, z, t) /\ NewLabel(s, y, z, u) = Qn(u, y, z, t)
    BY <1>1, QnExcept
  <1>5. PICK r, c : r = QnameByte(d, s) /\ c = At(d, o)
    OBVIOUS
  <1>6. r = IF s.stop \/ s.off >= Len(d) THEN [s EXCEPT !.stop = TRUE]
            ELSE IF s.label # 0
            THEN [s EXCEPT !.qname = IF Len(s.qname) < NAME_ROOM - 1 THEN Append(s.qname, At(d, s.off)) ELSE s.qname,
                           !.label = @ - 1, !.off = @ + 1]
            ELSE IF At(d, s.off) = 0 \/ At(d, s.off) >= 192 THEN [s EXCEPT !.stop = TRUE]
            ELSE [s EXCEPT !.label = At(d, s.off), !.off = @ + 1,
                           !.qname = IF @ = <<>> THEN @
                                     ELSE IF Len(s.qname) < NAME_ROOM - 1 THEN Append(s.qname, 46) ELSE s.qname]
    BY <1>5, Zenon DEF QnameByte
  <1>7. PICK f, g : f = Room(q, c) /\ g = Room(q, 46)
    OBVIOUS
  <1>8. /\ f = IF Len(q) < NAME_ROOM - 1 THEN Append(q, c) ELSE q
        /\ g = IF Len(q) < NAME_ROOM - 1 THEN Append(q, 46) ELSE q
    BY <1>7, Zenon DEF Room
  <1>9. PICK x : x = IF q = <<>> THEN q ELSE g
    OBVIOUS
  <1>10. r = IF t \/ o >= l THEN [s EXCEPT !.stop = TRUE]
             ELSE IF b # 0 THEN TakeByte(s, f, b - 1, o + 1)
             ELSE IF c = 0 \/ c >= 192 THEN [s EXCEPT !.stop = TRUE]
             ELSE NewLabel(s, x, c, o + 1)
    BY <1>1, <1>2, <1>5, <1>6, <1>8, <1>9 DEF TakeByte, NewLabel
  <1>11. r = IF t \/ o >= l THEN Qn(o, q, b, TRUE)
             ELSE IF b # 0 THEN Qn(o + 1, f, b - 1, t)
             ELSE IF c = 0 \/ c >= 192 THEN Qn(o, q, b, TRUE)
             ELSE Qn(o + 1, x, c, t)
    <2>1. PICK a, y, z : /\ a = [s EXCEPT !.stop = TRUE] /\ y = TakeByte(s, f, b - 1, o + 1)
                         /\ z = NewLabel(s, x, c, o + 1)
      OBVIOUS
    <2>2. r = IF t \/ o >= l THEN a ELSE IF b # 0 THEN y ELSE IF c = 0 \/ c >= 192 THEN a ELSE z
      BY <1>10, <2>1, Zenon
    <2>3. a = Qn(o, q, b, TRUE)
      BY <1>3, <2>1, Zenon
    <2>4. y = Qn(o + 1, f, b - 1, t) /\ z = Qn(o + 1, x, c, t)
      BY <1>4, <2>1, Zenon
    <2> QED  BY <2>2, <2>3, <2>4, Zenon
  <1>12. ~t => t = FALSE
    OBVIOUS
  <1>13. QnRound(d, l, o, q, b, t, r)
    BY <1>5, <1>7, <1>9, <1>11, <1>12 DEF QnRound
  <1> QED  BY <1>5, <1>13

LEMMA RoomTyped ==
    ASSUME NEW q \in Seq(Nat), NEW ch \in Nat
    PROVE  Room(q, ch) \in Seq(Nat)
  <1>1. Append(q, ch) \in Seq(Nat)
    BY AppendProperties
  <1> QED  BY <1>1 DEF Room

LEMMA QnTyped ==
    ASSUME NEW d, NEW w, NEW l, Reading(d, w, l), NEW s \in QnState
    PROVE  QnameByte(d, s) \in QnState
  <1>0. l \in Nat /\ Len(d) = l
    BY DEF Reading
  <1>1. PICK o \in Nat, q \in Seq(Nat), b \in Nat, t \in BOOLEAN : s = Qn(o, q, b, t)
    BY QnIs
  <1>2. ASSUME NEW p \in Nat, NEW y \in Seq(Nat), NEW c \in Nat, NEW u \in BOOLEAN PROVE Qn(p, y, c, u) \in QnState
    BY DEF Qn, QnState
  <1>3. PICK r : r = QnameByte(d, s)
    OBVIOUS
  <1>4. QnRound(d, l, o, q, b, t, r)
    BY <1>0, <1>1, <1>3, QnRoundIs
  <1>5. CASE t \/ o >= l
    <2>1. r = Qn(o, q, b, TRUE)
      BY <1>4, <1>5 DEF QnRound
    <2> QED  BY <1>2, <1>3, <2>1
  <1>6. CASE ~(t \/ o >= l)
    <2>1. PICK c \in Nat : c = At(d, o)
      <3>1. o + 1 <= l
        BY <1>0, <1>6
      <3> QED  BY <3>1, ByteRead
    <2>2. PICK p \in Nat, f \in Seq(Nat), g \in Seq(Nat) : p = o + 1 /\ f = Room(q, c) /\ g = Room(q, 46)
      <3>1. 46 \in Nat /\ o + 1 \in Nat
        OBVIOUS
      <3> QED  BY <3>1, RoomTyped
    <2>3. CASE b # 0
      <3>1. PICK e \in Nat : e = b - 1
        BY <2>3
      <3>2. r = Qn(p, f, e, FALSE)
        BY <1>4, <1>6, <2>1, <2>2, <2>3, <3>1 DEF QnRound
      <3> QED  BY <1>2, <1>3, <3>2
    <2>4. CASE b = 0 /\ (c = 0 \/ c >= 192)
      <3>1. r = Qn(o, q, b, TRUE)
        BY <1>4, <1>6, <2>1, <2>4 DEF QnRound
      <3> QED  BY <1>2, <1>3, <3>1
    <2>5. CASE b = 0 /\ ~(c = 0 \/ c >= 192)
      <3>1. r = Qn(p, q, c, FALSE) \/ r = Qn(p, g, c, FALSE)
        BY <1>4, <1>6, <2>1, <2>2, <2>5 DEF QnRound
      <3> QED  BY <1>2, <1>3, <3>1
    <2> QED  BY <2>3, <2>4, <2>5
  <1> QED  BY <1>5, <1>6

\* The rounds one after the other.
QnFold(it, d, base, x) ==
    it = [s \in SUBSET DOMAIN x |-> IF s = {} THEN base ELSE QnameByte(d, it[s \ {Max(s)}])]
QnAll(d, base, x) == FoldLeft(LAMBDA st, i : QnameByte(d, st), base, x)

QnWalk(v, d, base, M) ==
    /\ v \in [0 .. M -> QnState] /\ v[0] = base
    /\ \A p \in 1 .. M : v[p] = QnameByte(d, v[p - 1])

QnRuns(v, d, base, x, M) == QnWalk(v, d, base, M) /\ QnAll(d, base, x) = v[M]

LEMMA QnSteps ==
    ASSUME NEW d, NEW w, NEW l, Reading(d, w, l), NEW base \in QnState, NEW x, NEW M \in Nat, DOMAIN x = 1 .. M
    PROVE  \E v : QnRuns(v, d, base, x, M)
  <1> DEFINE V == QnState
             g == [y \in V \X (1 .. M) |-> QnameByte(d, y[1])]
  <1>0. ASSUME NEW c \in V PROVE QnameByte(d, c) \in V
    BY QnTyped
  <1>3. base \in V
    OBVIOUS
  <1> HIDE DEF V
  <1>4. IsStep(g, M, V, base)
    BY <1>0, <1>3 DEF IsStep
  <1>5. \A c \in V, k \in 1 .. M : g[<<c, k>>] = QnameByte(d, c)
    OBVIOUS
  <1> HIDE DEF g
  <1>6. ASSUME NEW s \in SUBSET (1 .. M), s # {} PROVE Max(s) \in 1 .. M
    <2>1. s \subseteq 0 .. M
      OBVIOUS
    <2> QED  BY <1>6, <2>1, MaxIs
  <1>7. PICK h \in [SUBSET (1 .. M) -> V] : IsFold(h, M, base, g)
    BY <1>4, FoldExists
  <1>8. QnFold(h, d, base, x)
    <2>1. ASSUME NEW s \in SUBSET (1 .. M), s # {}
          PROVE  h[s] = QnameByte(d, h[s \ {Max(s)}])
      <3>1. h[s \ {Max(s)}] \in V
        OBVIOUS
      <3>2. h[s] = g[<<h[s \ {Max(s)}], Max(s)>>]
        BY <1>7, <2>1 DEF IsFold
      <3> QED  BY <1>5, <1>6, <2>1, <3>1, <3>2
    <2>2. h[{}] = base
      BY <1>7 DEF IsFold
    <2> QED  BY <1>7, <2>1, <2>2 DEF QnFold
  <1>9. PICK it : it = CHOOSE i0 : QnFold(i0, d, base, x)
    OBVIOUS
  <1>10. QnFold(it, d, base, x)
    BY <1>8, <1>9
  <1>11. QnAll(d, base, x) = it[1 .. M]
    BY <1>9 DEF QnAll, FoldLeft, MapThenFoldSet, QnFold
  <1>12. it[{}] = base
    BY <1>10 DEF QnFold
  <1>13. ASSUME NEW s \in SUBSET (1 .. M), s # {}, it[s \ {Max(s)}] \in V
         PROVE  it[s] = g[<<it[s \ {Max(s)}], Max(s)>>]
    <2>1. it[s] = QnameByte(d, it[s \ {Max(s)}])
      BY <1>10, <1>13 DEF QnFold
    <2> QED  BY <1>5, <1>6, <1>13, <2>1
  <1>14. PICK v : IsWalk(v, M, V, base, g) /\ v[M] = it[1 .. M]
    <2>1. Unrolls(it, M, V, base, g)
      BY <1>12, <1>13 DEF Unrolls
    <2> QED  BY <1>4, <2>1, FoldSteps
  <1>15. ASSUME NEW k \in 1 .. M PROVE v[k] = QnameByte(d, v[k - 1])
    <2>1. v[k - 1] \in V
      <3>1. k - 1 \in 0 .. M
        OBVIOUS
      <3> QED  BY <1>14, <3>1 DEF IsWalk
    <2>2. v[k] = g[<<v[k - 1], k>>]
      BY <1>14 DEF IsWalk
    <2> QED  BY <1>5, <2>1, <2>2
  <1>16. v \in [0 .. M -> V] /\ v[0] = base
    BY <1>14 DEF IsWalk
  <1>17. QnWalk(v, d, base, M)
    BY <1>15, <1>16 DEF V, QnWalk
  <1> QED  BY <1>11, <1>14, <1>17 DEF QnRuns

\* A label of which j bytes are read, behind what comes before it.
BegunIs(q, c, a, l, j) ==
    /\ q \in Seq(Nat) /\ Len(q) = a + j
    /\ \A i \in 1 .. a : q[i] = c[i]
    /\ \A i \in 1 .. j : q[a + i] = l[i]

LEMMA BegunNone ==
    ASSUME NEW c \in Seq(Nat), NEW a \in Nat, a = Len(c), NEW l
    PROVE  BegunIs(c, c, a, l, 0)
  <1>1. a + 0 = a /\ 1 .. 0 = {}
    OBVIOUS
  <1> QED  BY <1>1 DEF BegunIs

LEMMA BegunMore ==
    ASSUME NEW q, NEW c, NEW a \in Nat, NEW l, NEW j \in Nat, BegunIs(q, c, a, l, j),
           NEW ch \in Nat, ch = l[j + 1], NEW u, u = Append(q, ch)
    PROVE  BegunIs(u, c, a, l, j + 1)
  <1>1. PICK m \in Nat : m = a + j
    OBVIOUS
  <1>2. q \in Seq(Nat) /\ Len(q) = m
    BY <1>1 DEF BegunIs
  <1>3. u \in Seq(Nat) /\ Len(u) = m + 1 /\ u[m + 1] = ch /\ \A i \in 1 .. m : u[i] = q[i]
    BY <1>2, AppendProperties
  <1>4. ASSUME NEW i \in 1 .. a PROVE u[i] = c[i]
    <2>1. i \in 1 .. m
      BY <1>1
    <2>2. q[i] = c[i]
      BY DEF BegunIs
    <2> QED  BY <1>3, <2>1, <2>2
  <1>5. ASSUME NEW i \in 1 .. j + 1 PROVE u[a + i] = l[i]
    <2>1. CASE i = j + 1
      <3>1. a + i = m + 1
        BY <1>1, <2>1
      <3> QED  BY <1>3, <2>1, <3>1
    <2>2. CASE i # j + 1
      <3>1. i \in 1 .. j /\ a + i \in 1 .. m
        BY <1>1, <2>2
      <3>2. q[a + i] = l[i]
        BY <3>1 DEF BegunIs
      <3> QED  BY <1>3, <3>1, <3>2
    <2> QED  BY <2>1, <2>2
  <1>6. m + 1 = a + (j + 1)
    BY <1>1
  <1> QED  BY <1>3, <1>4, <1>5, <1>6 DEF BegunIs

LEMMA BegunWhole ==
    ASSUME NEW q, NEW c \in Seq(Nat), NEW a \in Nat, a = Len(c), NEW l \in Seq(Nat), NEW j \in Nat, j = Len(l),
           BegunIs(q, c, a, l, j), NEW u, u = c \o l
    PROVE  q = u
  <1>1. /\ u \in Seq(Nat) /\ Len(u) = a + j
        /\ \A i \in 1 .. a : u[i] = c[i]
        /\ \A i \in 1 .. j : u[a + i] = l[i]
    BY JoinIs
  <1>2. PICK m \in Nat : m = a + j
    OBVIOUS
  <1>3. q \in Seq(Nat) /\ Len(q) = m /\ u \in Seq(Nat) /\ Len(u) = m
    BY <1>1, <1>2 DEF BegunIs
  <1>4. ASSUME NEW i \in 1 .. m PROVE q[i] = u[i]
    <2>1. CASE i <= a
      <3>1. i \in 1 .. a
        BY <2>1
      <3> QED  BY <1>1, <3>1 DEF BegunIs
    <2>2. CASE ~(i <= a)
      <3>1. PICK h \in 1 .. j : a + h = i
        <4>1. i - a \in 1 .. j /\ a + (i - a) = i
          BY <1>2, <2>2
        <4> QED  BY <4>1
      <3>2. q[a + h] = l[h] /\ u[a + h] = l[h]
        BY <1>1 DEF BegunIs
      <3> QED  BY <3>1, <3>2
    <2> QED  BY <2>1, <2>2
  <1> QED  BY <1>3, <1>4, SeqEqual

\* The loop has read m bytes of the name, j of them of label k, with its length in front of them.
LabelUpTo(s, D, labels, E, m, t, k, j) ==
    /\ j \in Nat /\ j <= Len(labels[k]) /\ m = E[k - 1] + 1 + j
    /\ \E q : /\ BegunIs(q, Dots(D[k - 1]), E[k - 1], labels[k], j)
              /\ s = Qn(12 + m, q, Len(labels[k]) - j, t)
NameUpTo(s, D, labels, n, E, m, t) ==
    \/ m = 0 /\ s = Qn(12, <<>>, 0, t)
    \/ \E k \in 1 .. n, j \in Nat : LabelUpTo(s, D, labels, E, m, t, k, j)

\* What the loop reads and what it makes of it.
Naming(d, x, l, labels, n, E, D) ==
    /\ Reading(d, x, l) /\ IsName(labels, n) /\ LabelsIn(x, 12, labels, n, E) /\ Spelled(D, labels, n, E)

LabelLies(x, labels, E, D, k, a, b, c, y, e) ==
    /\ a \in Nat /\ b \in Nat /\ c \in Seq(Nat) /\ y \in Seq(Nat) /\ e \in Nat
    /\ a = E[k - 1] /\ b = Len(labels[k]) /\ c = Dots(D[k - 1]) /\ a = Len(c) /\ y = labels[k] /\ b = Len(y)
    /\ b >= 1 /\ b <= 63 /\ e = E[k] /\ e = a + 1 + b /\ x[12 + (a + 1)] = b
    /\ \A j \in 1 .. b : x[12 + (a + 1 + j)] = y[j] /\ y[j] \in 1 .. 191
    /\ D[k] = c \o y /\ D[k] # <<>>

LEMMA LabelFacts ==
    ASSUME NEW d, NEW x, NEW l, NEW labels, NEW n, NEW E, NEW D, Naming(d, x, l, labels, n, E, D), NEW k \in 1 .. n
    PROVE  \E a, b, c, y, e : LabelLies(x, labels, E, D, k, a, b, c, y, e)
  <1>1. n \in Nat /\ k - 1 \in 0 .. n /\ k \in 0 .. n
    BY DEF Naming, IsName
  <1>2. PICK b \in 1 .. 63, y \in Seq(Nat) : b = Len(y) /\ y = labels[k] /\ \A j \in 1 .. b : y[j] \in 1 .. 191
    BY DEF Naming, IsName
  <1>3. PICK a \in Nat, e \in Nat : a = E[k - 1] /\ e = E[k]
    BY <1>1 DEF Naming, LabelsIn
  <1>4. e = a + 1 + b /\ x[12 + (a + 1)] = b /\ \A j \in 1 .. b : x[12 + (a + 1 + j)] = y[j]
    BY <1>2, <1>3 DEF Naming, LabelsIn
  <1>5. PICK c \in Seq(Nat) : c = Dots(D[k - 1]) /\ Len(c) = a /\ D[k] = c \o y /\ D[k] # <<>>
    BY <1>2, <1>3 DEF Naming, Spelled
  <1>6. b \in Nat /\ b >= 1 /\ b <= 63
    OBVIOUS
  <1>7. LabelLies(x, labels, E, D, k, a, b, c, y, e)
    BY <1>2, <1>3, <1>4, <1>5, <1>6 DEF LabelLies
  <1> QED  BY <1>7

\* Another byte of a label.
LEMMA NameInLabel ==
    ASSUME NEW d, NEW x, NEW l, NEW labels, NEW n, NEW E, NEW D, Naming(d, x, l, labels, n, E, D), NEW k \in 1 .. n,
           NEW m \in Nat, NEW j \in Nat, j < Len(labels[k]), 12 + m < l, m < NAME_ROOM,
           NEW s, LabelUpTo(s, D, labels, E, m, FALSE, k, j), NEW r, r = QnameByte(d, s)
    PROVE  LabelUpTo(r, D, labels, E, m + 1, FALSE, k, j + 1)
  <1>0. Reading(d, x, l) /\ l \in Nat /\ Len(d) = l
    BY DEF Naming, Reading
  <1>1a. PICK a, b, c, y, e : LabelLies(x, labels, E, D, k, a, b, c, y, e)
    BY LabelFacts
  <1>1. /\ a \in Nat /\ b \in Nat /\ c \in Seq(Nat) /\ y \in Seq(Nat) /\ e \in Nat
        /\ a = E[k - 1] /\ b = Len(labels[k]) /\ c = Dots(D[k - 1]) /\ a = Len(c) /\ y = labels[k] /\ b = Len(y)
        /\ b >= 1 /\ b <= 63 /\ e = E[k] /\ e = a + 1 + b
        /\ \A i \in 1 .. b : x[12 + (a + 1 + i)] = y[i] /\ y[i] \in 1 .. 191
        /\ D[k] = c \o y /\ D[k] # <<>>
    BY <1>1a DEF LabelLies
  <1>. a \in Nat /\ b \in Nat /\ e \in Nat
    BY <1>1
  <1>2. PICK q : BegunIs(q, c, a, y, j) /\ s = Qn(12 + m, q, b - j, FALSE)
    BY <1>1 DEF LabelUpTo
  <1>3. m = a + 1 + j /\ j < b
    BY <1>1 DEF LabelUpTo
  <1>4. PICK o \in Nat, z \in Nat : o = 12 + m /\ z = b - j /\ z # 0 /\ o + 1 = 12 + (m + 1) /\ z - 1 = b - (j + 1)
    BY <1>3
  <1>5. QnRound(d, l, o, q, z, FALSE, r)
    <2>1. s = Qn(o, q, z, FALSE) /\ FALSE \in BOOLEAN
      BY <1>2, <1>4
    <2> QED  BY <1>0, <2>1, QnRoundIs
  <1>6. PICK ch \in Nat : ch = At(d, o) /\ ch = y[j + 1]
    <2>1. o + 1 <= l /\ o + 1 = 12 + (a + 1 + (j + 1)) /\ j + 1 \in 1 .. b
      BY <1>0, <1>3, <1>4
    <2>2. At(d, o) = x[o + 1] /\ At(d, o) \in Nat
      BY <1>0, <2>1, ByteRead
    <2>3. x[12 + (a + 1 + (j + 1))] = y[j + 1]
      BY <1>1, <2>1
    <2> QED  BY <2>1, <2>2, <2>3
  <1>7. Room(q, ch) = Append(q, ch)
    <2>1. Len(q) = a + j
      BY <1>2 DEF BegunIs
    <2>2. a + j < NAME_ROOM - 1
      <3>1. NAME_ROOM \in Nat
        BY PacketSizesAssumption
      <3> QED  BY <1>3, <3>1
    <2> QED  BY <2>1, <2>2 DEF Room
  <1>8. PICK u : u = Append(q, ch)
    OBVIOUS
  <1>9. r = Qn(o + 1, u, z - 1, FALSE)
    <2>1. ~(o >= l)
      BY <1>0, <1>4
    <2> QED  BY <1>4, <1>5, <1>6, <1>7, <1>8, <2>1 DEF QnRound
  <1>10. BegunIs(u, c, a, y, j + 1)
    BY <1>2, <1>6, <1>8, BegunMore
  <1>11. r = Qn(12 + (m + 1), u, b - (j + 1), FALSE)
    BY <1>4, <1>9
  <1>12. j + 1 \in Nat /\ j + 1 <= b /\ m + 1 = a + 1 + (j + 1)
    BY <1>3
  <1> QED  BY <1>1, <1>10, <1>11, <1>12 DEF LabelUpTo

\* The length of the next label, which puts a '.' behind what is there.
LEMMA NameNextLabel ==
    ASSUME NEW d, NEW x, NEW l, NEW labels, NEW n, NEW E, NEW D, Naming(d, x, l, labels, n, E, D),
           NEW k \in 1 .. n, k + 1 \in 1 .. n,
           NEW m \in Nat, NEW j \in Nat, j = Len(labels[k]), 12 + m < l, m < NAME_ROOM,
           NEW s, LabelUpTo(s, D, labels, E, m, FALSE, k, j), NEW r, r = QnameByte(d, s)
    PROVE  LabelUpTo(r, D, labels, E, m + 1, FALSE, k + 1, 0)
  <1>0. Reading(d, x, l) /\ l \in Nat /\ Len(d) = l
    BY DEF Naming, Reading
  <1>1a. PICK a, b, c, y, e : LabelLies(x, labels, E, D, k, a, b, c, y, e)
    BY LabelFacts
  <1>1. /\ a \in Nat /\ b \in Nat /\ c \in Seq(Nat) /\ y \in Seq(Nat) /\ e \in Nat
        /\ a = E[k - 1] /\ b = Len(labels[k]) /\ c = Dots(D[k - 1]) /\ a = Len(c) /\ y = labels[k] /\ b = Len(y)
        /\ b >= 1 /\ b <= 63 /\ e = E[k] /\ e = a + 1 + b
        /\ \A i \in 1 .. b : x[12 + (a + 1 + i)] = y[i] /\ y[i] \in 1 .. 191
        /\ D[k] = c \o y /\ D[k] # <<>>
    BY <1>1a DEF LabelLies
  <1>. a \in Nat /\ b \in Nat /\ e \in Nat
    BY <1>1
  <1>2. PICK h : h = k + 1 /\ h \in 1 .. n /\ h - 1 = k
    <2>1. n \in Nat
      BY DEF Naming, IsName
    <2> QED  BY <2>1
  <1>3a. PICK a1, b1, c1, y1, e1 : LabelLies(x, labels, E, D, h, a1, b1, c1, y1, e1)
    BY <1>2, LabelFacts
  <1>3. /\ a1 \in Nat /\ b1 \in Nat /\ c1 \in Seq(Nat) /\ y1 \in Seq(Nat)
        /\ a1 = E[h - 1] /\ b1 = Len(labels[h]) /\ c1 = Dots(D[h - 1]) /\ a1 = Len(c1) /\ y1 = labels[h] /\ b1 = Len(y1)
        /\ b1 >= 1 /\ b1 <= 63 /\ x[12 + (a1 + 1)] = b1
    BY <1>3a DEF LabelLies
  <1>. a1 \in Nat /\ b1 \in Nat
    BY <1>3
  <1>4. m = a1 /\ a1 = e
    <2>1. m = a + 1 + b
      BY <1>1 DEF LabelUpTo
    <2> QED  BY <1>1, <1>2, <1>3, <2>1
  <1>5. PICK q : BegunIs(q, c, a, y, j) /\ s = Qn(12 + m, q, b - j, FALSE)
    BY <1>1 DEF LabelUpTo
  <1>6. q = D[k] /\ q # <<>> /\ q \in Seq(Nat) /\ Len(q) = m - 1
    <2>1. PICK u : u = c \o y
      OBVIOUS
    <2>2. j = Len(y)
      BY <1>1
    <2>3. q = u
      <3>1. c \in Seq(Nat) /\ a \in Nat /\ a = Len(c) /\ y \in Seq(Nat)
        BY <1>1
      <3> QED  BY <1>5, <2>1, <2>2, <3>1, BegunWhole
    <2>4. q \in Seq(Nat) /\ Len(q) = a + j
      BY <1>5 DEF BegunIs
    <2>5. m = a + 1 + j
      BY <1>1 DEF LabelUpTo
    <2>6. q = D[k] /\ q # <<>>
      BY <1>1, <2>1, <2>3
    <2>7. a + j = m - 1
      <3>1. \A f \in Nat, g \in Nat : f + g = (f + 1 + g) - 1
        OBVIOUS
      <3>2. a + j = (a + 1 + j) - 1
        BY <3>1
      <3> QED  BY <2>5, <3>2, Zenon
    <2> QED  BY <2>4, <2>6, <2>7
  <1>7. PICK o \in Nat : o = 12 + m /\ o + 1 = 12 + (m + 1)
    OBVIOUS
  <1>8. QnRound(d, l, o, q, 0, FALSE, r)
    <2>1. s = Qn(o, q, 0, FALSE) /\ FALSE \in BOOLEAN
      <3>1. b - j = 0
        BY <1>1
      <3> QED  BY <1>5, <1>7, <3>1
    <2> QED  BY <1>0, <2>1, QnRoundIs
  <1>9. At(d, o) = b1
    <2>1. o + 1 <= l /\ o + 1 = 12 + (a1 + 1)
      BY <1>0, <1>4, <1>7
    <2>2. At(d, o) = x[o + 1]
      BY <1>0, <2>1, ByteRead
    <2> QED  BY <1>3, <2>1, <2>2
  <1>10. Room(q, 46) = c1
    <2>1. Len(q) < NAME_ROOM - 1
      <3>1. NAME_ROOM \in Nat
        BY PacketSizesAssumption
      <3> QED  BY <1>6, <3>1
    <2>2. Room(q, 46) = Append(q, 46)
      BY <2>1 DEF Room
    <2>3. c1 = q \o <<46>>
      BY <1>2, <1>3, <1>6 DEF Dots
    <2>4. Append(q, 46) = q \o <<46>>
      BY <1>6, AppendIsConcat
    <2> QED  BY <2>2, <2>3, <2>4
  <1>11. r = Qn(o + 1, c1, b1, FALSE)
    <2>1. ~(o >= l) /\ ~(b1 = 0 \/ b1 >= 192)
      BY <1>0, <1>3, <1>7
    <2> QED  BY <1>6, <1>8, <1>9, <1>10, <2>1 DEF QnRound
  <1>12. BegunIs(c1, c1, a1, y1, 0)
    BY <1>3, BegunNone
  <1>13. r = Qn(12 + (m + 1), c1, b1 - 0, FALSE)
    BY <1>7, <1>11
  <1>14. m + 1 = a1 + 1 + 0 /\ 0 <= b1 /\ 0 \in Nat
    BY <1>4
  <1> QED  BY <1>2, <1>3, <1>12, <1>13, <1>14 DEF LabelUpTo

\* The first label's length.
LEMMA NameFirstLabel ==
    ASSUME NEW d, NEW x, NEW l, NEW labels, NEW n, NEW E, NEW D, Naming(d, x, l, labels, n, E, D), 1 \in 1 .. n,
           12 < l, NEW s, s = Qn(12, <<>>, 0, FALSE), NEW r, r = QnameByte(d, s)
    PROVE  LabelUpTo(r, D, labels, E, 1, FALSE, 1, 0)
  <1>0. Reading(d, x, l) /\ l \in Nat /\ Len(d) = l
    BY DEF Naming, Reading
  <1>1. PICK h : h = 1 /\ h \in 1 .. n /\ h - 1 = 0
    OBVIOUS
  <1>2. PICK a, b, c, y, e : LabelLies(x, labels, E, D, h, a, b, c, y, e)
    BY <1>1, LabelFacts
  <1>3. /\ a \in Nat /\ b \in Nat /\ c \in Seq(Nat)
        /\ a = E[h - 1] /\ b = Len(labels[h]) /\ c = Dots(D[h - 1]) /\ a = Len(c) /\ y = labels[h]
        /\ b >= 1 /\ b <= 63 /\ x[12 + (a + 1)] = b
    BY <1>2 DEF LabelLies
  <1>. a \in Nat /\ b \in Nat
    BY <1>3
  <1>4. a = 0 /\ c = <<>>
    <2>1. E[0] = 0
      BY DEF Naming, LabelsIn
    <2>2. D[0] = <<>>
      BY DEF Naming, Spelled
    <2> QED  BY <1>1, <1>3, <2>1, <2>2 DEF Dots
  <1>5. PICK o, q, z : o \in Nat /\ o = 12 /\ o + 1 = 13 /\ q = <<>> /\ z = 0
    OBVIOUS
  <1>. o \in Nat
    BY <1>5
  <1>6. QnRound(d, l, o, q, z, FALSE, r)
    <2>1. s = Qn(o, q, z, FALSE) /\ FALSE \in BOOLEAN
      BY <1>5
    <2> QED  BY <1>0, <2>1, QnRoundIs
  <1>7. At(d, o) = b
    <2>1. o + 1 <= l /\ o + 1 = 12 + (0 + 1)
      BY <1>0, <1>5
    <2>2. At(d, o) = x[o + 1]
      BY <1>0, <2>1, ByteRead
    <2> QED  BY <1>3, <1>4, <2>1, <2>2
  <1>8. r = Qn(o + 1, q, b, FALSE)
    <2>1. ~(o >= l) /\ ~(b = 0 \/ b >= 192)
      BY <1>0, <1>3, <1>5
    <2> QED  BY <1>5, <1>6, <1>7, <2>1 DEF QnRound
  <1>9. BegunIs(c, c, a, y, 0)
    BY <1>3, BegunNone
  <1>10. r = Qn(12 + 1, c, b - 0, FALSE)
    <2>1. b - 0 = b /\ 12 + 1 = o + 1 /\ c = q
      BY <1>4, <1>5
    <2> QED  BY <1>8, <2>1
  <1>11. 1 = a + 1 + 0 /\ 0 <= b /\ 0 \in Nat
    BY <1>4
  <1> QED  BY <1>1, <1>3, <1>9, <1>10, <1>11 DEF LabelUpTo

\* At the byte that ends the name no label is left.
LEMMA NameEnds ==
    ASSUME NEW d, NEW x, NEW l, NEW labels, NEW n, NEW E, NEW D, Naming(d, x, l, labels, n, E, D),
           NEW m \in Nat, m = E[n], NEW t \in BOOLEAN, NEW s, NameUpTo(s, D, labels, n, E, m, t)
    PROVE  s = Qn(12 + m, JoinLabels(labels), 0, t)
  <1>0. n \in Nat /\ E[0] = 0 /\ D[0] = <<>> /\ D[n] = JoinLabels(labels)
    BY DEF Naming, IsName, LabelsIn, Spelled
  <1>1. CASE m = 0 /\ s = Qn(12, <<>>, 0, t)
    <2>1. n = 0
      <3>1. ASSUME n # 0 PROVE FALSE
        <4>1. n \in 1 .. n
          BY <1>0, <3>1
        <4>2. PICK a, b, c, y, e : LabelLies(x, labels, E, D, n, a, b, c, y, e)
          BY <4>1, LabelFacts
        <4>3. a \in Nat /\ b \in Nat /\ m = a + 1 + b
          BY <4>2 DEF LabelLies
        <4> QED  BY <1>1, <4>3
      <3> QED  BY <3>1
    <2>2. 12 + m = 12
      BY <1>1
    <2> QED  BY <1>0, <1>1, <2>1, <2>2
  <1>2. CASE \E k \in 1 .. n, j \in Nat : LabelUpTo(s, D, labels, E, m, t, k, j)
    <2>1. PICK k \in 1 .. n, j \in Nat : LabelUpTo(s, D, labels, E, m, t, k, j)
      BY <1>2
    <2>2. PICK a, b, c, y, e : LabelLies(x, labels, E, D, k, a, b, c, y, e)
      BY LabelFacts
    <2>3. /\ a \in Nat /\ b \in Nat /\ e \in Nat /\ c \in Seq(Nat) /\ y \in Seq(Nat) /\ a = Len(c) /\ b = Len(y)
          /\ e = E[k] /\ e = a + 1 + b /\ D[k] = c \o y
      BY <2>2 DEF LabelLies
    <2>4. PICK q : BegunIs(q, c, a, y, j) /\ s = Qn(12 + m, q, b - j, t) /\ m = a + 1 + j /\ j <= b
      BY <2>1, <2>2 DEF LabelUpTo, LabelLies
    <2>5. k = n
      <3>1. ASSUME k # n PROVE FALSE
        <4>1. PICK h : h = k + 1 /\ h \in 1 .. n /\ h - 1 = k
          BY <1>0, <3>1
        <4>2. PICK a1, b1, c1, y1, e1 : LabelLies(x, labels, E, D, h, a1, b1, c1, y1, e1)
          BY <4>1, LabelFacts
        <4>3. a1 = e /\ b1 \in Nat /\ e1 = e + 1 + b1 /\ e1 = E[h]
          BY <2>3, <4>1, <4>2 DEF LabelLies
        <4>4. E[h] <= m
          BY <4>1 DEF Naming, LabelsIn
        <4>5. e + 1 + b1 <= a + 1 + j
          BY <2>4, <4>3, <4>4
        <4> QED  BY <2>3, <2>4, <4>3, <4>5
      <3> QED  BY <3>1
    <2>6. j = b
      <3>1. a + 1 + j = a + 1 + b
        BY <2>3, <2>4, <2>5
      <3> QED  BY <2>3, <3>1
    <2>7. PICK u : u = c \o y
      OBVIOUS
    <2>8. q = u
      <3>1. c \in Seq(Nat) /\ a \in Nat /\ a = Len(c) /\ y \in Seq(Nat) /\ j = Len(y) /\ BegunIs(q, c, a, y, j)
        BY <2>3, <2>4, <2>6
      <3> QED  BY <2>7, <3>1, BegunWhole
    <2>9. b - j = 0
      BY <2>3, <2>6
    <2> QED  BY <1>0, <2>3, <2>4, <2>5, <2>7, <2>8, <2>9
  <1> QED  BY <1>1, <1>2 DEF NameUpTo

Halts(s, r, m, t) == \A o, q, b : s = Qn(o, q, b, t) /\ o = 12 + m => r = Qn(o, q, b, TRUE)

LEMMA NameStays ==
    ASSUME NEW labels, NEW n, NEW E, NEW D, NEW m \in Nat, NEW t, NEW s, NameUpTo(s, D, labels, n, E, m, t), NEW r,
           Halts(s, r, m, t)
    PROVE  NameUpTo(r, D, labels, n, E, m, TRUE)
  <1>2. CASE m = 0 /\ s = Qn(12, <<>>, 0, t)
    <2>1. PICK o, q, b : o = 12 /\ q = <<>> /\ b = 0 /\ o = 12 + m
      BY <1>2
    <2>2. r = Qn(o, q, b, TRUE)
      BY <1>2, <2>1 DEF Halts
    <2> QED  BY <1>2, <2>1, <2>2 DEF NameUpTo
  <1>3. CASE \E k \in 1 .. n, j \in Nat : LabelUpTo(s, D, labels, E, m, t, k, j)
    <2>1. PICK k \in 1 .. n, j \in Nat : LabelUpTo(s, D, labels, E, m, t, k, j)
      BY <1>3
    <2>2. PICK q : /\ BegunIs(q, Dots(D[k - 1]), E[k - 1], labels[k], j)
                   /\ s = Qn(12 + m, q, Len(labels[k]) - j, t)
      BY <2>1 DEF LabelUpTo
    <2>3. PICK o, b : o = 12 + m /\ b = Len(labels[k]) - j
      OBVIOUS
    <2>4. r = Qn(o, q, b, TRUE)
      BY <2>2, <2>3 DEF Halts
    <2>5. LabelUpTo(r, D, labels, E, m, TRUE, k, j)
      BY <2>1, <2>2, <2>3, <2>4 DEF LabelUpTo
    <2> QED  BY <2>5 DEF NameUpTo
  <1> QED  BY <1>2, <1>3 DEF NameUpTo

\* A loop that has stopped, or is behind what was read, stays.
LEMMA NameStops ==
    ASSUME NEW d, NEW l \in Nat, Len(d) = l, NEW labels, NEW n, NEW E, NEW D, NEW m \in Nat, NEW t \in BOOLEAN,
           t \/ 12 + m >= l, NEW s, NameUpTo(s, D, labels, n, E, m, t), NEW r, r = QnameByte(d, s)
    PROVE  NameUpTo(r, D, labels, n, E, m, TRUE)
  <1>1. ASSUME NEW o, NEW q, NEW b, s = Qn(o, q, b, t), o = 12 + m PROVE r = Qn(o, q, b, TRUE)
    <2>1. QnRound(d, l, o, q, b, t, r)
      BY <1>1, QnRoundIs
    <2> QED  BY <1>1, <2>1 DEF QnRound
  <1>2. Halts(s, r, m, t)
    BY <1>1 DEF Halts
  <1> QED  BY <1>2, NameStays

\* So does one at the byte that ends the name.
LEMMA NameDone ==
    ASSUME NEW d, NEW x, NEW l, NEW labels, NEW n, NEW E, NEW D, Naming(d, x, l, labels, n, E, D),
           NEW m \in Nat, m = E[n], 12 + m < l, NEW s, NameUpTo(s, D, labels, n, E, m, FALSE), NEW r, r = QnameByte(d, s)
    PROVE  NameUpTo(r, D, labels, n, E, m, TRUE)
  <1>0. Reading(d, x, l) /\ l \in Nat /\ Len(d) = l
    BY DEF Naming, Reading
  <1>0a. PICK f \in BOOLEAN : f = FALSE
    OBVIOUS
  <1>1. PICK T, z : f = FALSE /\ T = JoinLabels(labels) /\ z = 0
    BY <1>0a
  <1>. f \in BOOLEAN
    BY <1>0a
  <1>2. NameUpTo(s, D, labels, n, E, m, f)
    BY <1>1
  <1>3. s = Qn(12 + m, T, z, f)
    BY <1>1, <1>2, NameEnds
  <1>4. ASSUME NEW o, NEW q, NEW b, s = Qn(o, q, b, f), o = 12 + m PROVE r = Qn(o, q, b, TRUE)
    <2>1. s.label = b
      BY <1>4, QnOne
    <2>2. s.label = z
      BY <1>3, QnOne
    <2>3. b = 0
      BY <1>1, <2>1, <2>2
    <2>4. QnRound(d, l, o, q, b, f, r)
      BY <1>0, <1>1, <1>4, QnRoundIs
    <2>5. At(d, o) = 0
      <3>1. o \in Nat /\ o + 1 <= l /\ o + 1 = 12 + (E[n] + 1)
        BY <1>0, <1>4
      <3>2. At(d, o) = x[o + 1]
        BY <1>0, <3>1, ByteRead
      <3>3. x[12 + (E[n] + 1)] = 0
        BY DEF Naming, LabelsIn
      <3> QED  BY <3>1, <3>2, <3>3
    <2>6. ~(o >= l)
      BY <1>0, <1>4
    <2> QED  BY <1>1, <2>3, <2>4, <2>5, <2>6 DEF QnRound
  <1>5. Halts(s, r, m, f)
    BY <1>4 DEF Halts
  <1> QED  BY <1>2, <1>5, NameStays

\* In the name it goes on by a byte.
LEMMA NameGoes ==
    ASSUME NEW d, NEW x, NEW l, NEW labels, NEW n, NEW E, NEW D, Naming(d, x, l, labels, n, E, D),
           NEW m \in Nat, m < E[n], 12 + m < l, m < NAME_ROOM,
           NEW s, NameUpTo(s, D, labels, n, E, m, FALSE), NEW r, r = QnameByte(d, s)
    PROVE  NameUpTo(r, D, labels, n, E, m + 1, FALSE)
  <1>0. n \in Nat /\ E[0] = 0
    BY DEF Naming, IsName, LabelsIn
  <1>1. CASE m = 0 /\ s = Qn(12, <<>>, 0, FALSE)
    <2>1. n # 0
      BY <1>0, <1>1
    <2>2. 1 \in 1 .. n
      BY <1>0, <2>1
    <2>3. 12 < l
      BY <1>1
    <2>4. PICK g, h : g = 1 /\ h = 0 /\ LabelUpTo(r, D, labels, E, g, FALSE, g, h)
      BY <1>1, <2>2, <2>3, NameFirstLabel
    <2>5. m + 1 = g /\ g \in 1 .. n /\ h \in Nat
      BY <1>1, <2>2, <2>4
    <2> QED  BY <2>4, <2>5 DEF NameUpTo
  <1>2. CASE \E k \in 1 .. n, j \in Nat : LabelUpTo(s, D, labels, E, m, FALSE, k, j)
    <2>1. PICK k \in 1 .. n, j \in Nat : LabelUpTo(s, D, labels, E, m, FALSE, k, j)
      BY <1>2
    <2>2. PICK a, b, c, y, e : LabelLies(x, labels, E, D, k, a, b, c, y, e)
      BY LabelFacts
    <2>3. a \in Nat /\ b \in Nat /\ b = Len(labels[k]) /\ a = E[k - 1] /\ e = E[k] /\ e = a + 1 + b
      BY <2>2 DEF LabelLies
    <2>4. j <= b /\ m = a + 1 + j
      BY <2>1, <2>3 DEF LabelUpTo
    <2>5. CASE j < b
      <3>1. PICK g \in Nat, h \in Nat : g = m + 1 /\ h = j + 1
        OBVIOUS
      <3>2. LabelUpTo(r, D, labels, E, g, FALSE, k, h)
        BY <2>1, <2>3, <2>5, <3>1, NameInLabel
      <3> QED  BY <3>1, <3>2 DEF NameUpTo
    <2>6. CASE j = b
      <3>1. k # n
        <4>1. m = e
          BY <2>3, <2>4, <2>6
        <4>2. m = E[k]
          BY <2>3, <4>1
        <4>3. ASSUME k = n PROVE FALSE
          <5>1. E[n] = m
            BY <4>2, <4>3
          <5>2. PICK g : g = E[n] /\ m < g
            OBVIOUS
          <5> QED  BY <5>1, <5>2
        <4> QED  BY <4>3
      <3>2. k + 1 \in 1 .. n
        BY <1>0, <3>1
      <3>3. PICK g \in Nat, h \in 1 .. n, z \in Nat : g = m + 1 /\ h = k + 1 /\ z = 0
        BY <3>2
      <3>4. LabelUpTo(r, D, labels, E, g, FALSE, h, z)
        BY <2>1, <2>3, <2>6, <3>2, <3>3, NameNextLabel
      <3> QED  BY <3>3, <3>4 DEF NameUpTo
    <2>7. j < b \/ j = b
      BY <2>3, <2>4
    <2> QED  BY <2>5, <2>6, <2>7
  <1> QED  BY <1>1, <1>2 DEF NameUpTo

\* After p rounds.
NameKept(s, D, labels, n, E, l, p) ==
    \E m \in Nat, t \in BOOLEAN :
        /\ NameUpTo(s, D, labels, n, E, m, t) /\ m <= E[n]
        /\ ~t => m = p
        /\ t => m = E[n] \/ 12 + m >= l

LEMMA NameRound ==
    ASSUME NEW d, NEW x, NEW l, NEW labels, NEW n, NEW E, NEW D, Naming(d, x, l, labels, n, E, D),
           NEW p \in Nat, p < NAME_ROOM, NEW s, NameKept(s, D, labels, n, E, l, p), NEW r, r = QnameByte(d, s)
    PROVE  NameKept(r, D, labels, n, E, l, p + 1)
  <1>0. l \in Nat /\ Len(d) = l /\ E[n] \in Nat
    BY DEF Naming, Reading, IsName, LabelsIn
  <1>1. PICK m \in Nat, t \in BOOLEAN :
            /\ NameUpTo(s, D, labels, n, E, m, t) /\ m <= E[n]
            /\ ~t => m = p
            /\ t => m = E[n] \/ 12 + m >= l
    BY DEF NameKept
  <1>2. CASE t \/ 12 + m >= l
    <2>1. NameUpTo(r, D, labels, n, E, m, TRUE)
      BY <1>0, <1>1, <1>2, NameStops
    <2> QED  BY <1>1, <1>2, <2>1 DEF NameKept
  <1>3. CASE t = FALSE /\ 12 + m < l /\ m = E[n]
    <2>1. NameUpTo(s, D, labels, n, E, m, FALSE)
      BY <1>1, <1>3
    <2>2. NameUpTo(r, D, labels, n, E, m, TRUE)
      BY <1>3, <2>1, NameDone
    <2> QED  BY <1>1, <1>3, <2>2 DEF NameKept
  <1>4. CASE t = FALSE /\ 12 + m < l /\ m < E[n]
    <2>1. NameUpTo(s, D, labels, n, E, m, FALSE) /\ m = p /\ m < NAME_ROOM
      BY <1>1, <1>4
    <2>2. PICK g \in Nat : g = m + 1 /\ g = p + 1 /\ g <= E[n]
      BY <1>0, <1>4, <2>1
    <2>3. NameUpTo(r, D, labels, n, E, g, FALSE)
      BY <1>4, <2>1, <2>2, NameGoes
    <2> QED  BY <2>2, <2>3 DEF NameKept
  <1>5. t = FALSE \/ t
    BY <1>1
  <1>6. 12 + m >= l \/ 12 + m < l
    BY <1>0
  <1>7. m = E[n] \/ m < E[n]
    <2>1. PICK g \in Nat : g = E[n] /\ m <= g
      BY <1>0, <1>1
    <2> QED  BY <2>1
  <1> QED  BY <1>2, <1>3, <1>4, <1>5, <1>6, <1>7

LEMMA NameWalked ==
    ASSUME NEW d, NEW x, NEW l, NEW labels, NEW n, NEW E, NEW D, Naming(d, x, l, labels, n, E, D),
           NEW M \in Nat, M <= NAME_ROOM, NEW s, s = Qn(12, <<>>, 0, FALSE), NEW v, QnWalk(v, d, s, M)
    PROVE  NameKept(v[M], D, labels, n, E, l, M)
  <1>0. E[n] \in Nat
    BY DEF Naming, IsName, LabelsIn
  <1> DEFINE B == {p \in 0 .. M : NameKept(v[p], D, labels, n, E, l, p)}
  <1>1. 0 \in B
    <2>1. PICK z \in Nat, f \in BOOLEAN : z = 0 /\ f = FALSE
      OBVIOUS
    <2>2. NameUpTo(s, D, labels, n, E, z, f)
      BY <2>1 DEF NameUpTo
    <2>3. NameKept(s, D, labels, n, E, l, z)
      <3>1. z <= E[n]
        BY <1>0, <2>1
      <3>2. ~f /\ z = z
        BY <2>1
      <3> QED  BY <2>2, <3>1, <3>2 DEF NameKept
    <2>4. v[0] = s /\ 0 \in 0 .. M
      BY DEF QnWalk
    <2> QED  BY <2>1, <2>3, <2>4
  <1>2. ASSUME NEW p \in 1 .. M, p - 1 \in B PROVE p \in B
    <2>1. PICK g \in Nat : g = p - 1 /\ g + 1 = p /\ g < NAME_ROOM /\ p \in 0 .. M
      <3>1. NAME_ROOM \in Nat
        BY PacketSizesAssumption
      <3> QED  BY <3>1
    <2>2. v[p] = QnameByte(d, v[g])
      BY <2>1 DEF QnWalk
    <2>3. NameKept(v[g], D, labels, n, E, l, g)
      BY <1>2, <2>1
    <2>4. PICK s0, r0 : s0 = v[g] /\ r0 = v[p] /\ r0 = QnameByte(d, s0)
      BY <2>2
    <2>5. NameKept(s0, D, labels, n, E, l, g)
      BY <2>3, <2>4
    <2>6. NameKept(r0, D, labels, n, E, l, g + 1)
      BY <2>1, <2>4, <2>5, NameRound
    <2> QED  BY <2>1, <2>4, <2>6
  <1>3. \A p \in 0 .. M : p \in B
    <2> HIDE DEF B
    <2> QED  BY <1>1, <1>2, NatUp
  <1>4. M \in 0 .. M
    OBVIOUS
  <1> QED  BY <1>3, <1>4

\* An answer behind the first o bytes of a packet.
AnswerIn(x, o, a) ==
    /\ ~a.compressed => x[o + 1] < 192
    /\ a.compressed => /\ x[o + 1] = 192
                       /\ x[o + 3] = a.type \div 256 /\ x[o + 4] = a.type % 256
                       /\ x[o + 5] = a.class \div 256 /\ x[o + 6] = a.class % 256
                       /\ x[o + 11] = Len(a.data) \div 256 /\ x[o + 12] = Len(a.data) % 256
                       /\ TextIn(x, o + 12, a.data)

Reply == [type : Word, class : Word, data : Seq(Octet), compressed : BOOLEAN]
IsAnswers(as, N) ==
    /\ N \in Nat /\ as \in Seq(Reply) /\ Len(as) = N
    /\ \A k \in 1 .. N : as[k] \in Reply

LEMMA ReplyTyped ==
    ASSUME NEW a \in Reply
    PROVE  /\ a.type \in Nat /\ a.class \in Nat /\ a.data \in Seq(Nat) /\ Len(a.data) \in Nat
           /\ a.compressed \in BOOLEAN
  <1>1. a.type \in Word /\ a.class \in Word /\ a.data \in Seq(Octet) /\ a.compressed \in BOOLEAN
    BY DEF Reply
  <1>2. Seq(Octet) \subseteq Seq(Nat)
    <2>1. Octet \subseteq Nat
      BY DEF Octet
    <2> QED  BY <2>1, SeqMonotonic
  <1>3. a.data \in Seq(Nat)
    BY <1>1, <1>2
  <1>4. a.type \in Nat /\ a.class \in Nat
    BY <1>1, WordIs
  <1> QED  BY <1>1, <1>3, <1>4, LenProperties

\* What stands behind the name p of an answer.
AnswerTail(s, p, m, f, g, t, l) ==
    /\ s \in Seq(Nat) /\ Len(s) = m + 10 + l
    /\ \A i \in 1 .. m : s[i] = p[i]
    /\ s[m + 1] = f \div 256 /\ s[m + 2] = f % 256 /\ s[m + 3] = g \div 256 /\ s[m + 4] = g % 256
    /\ s[m + 9] = l \div 256 /\ s[m + 10] = l % 256
    /\ \A j \in 1 .. l : s[m + 10 + j] = t[j]

TailBytes(p, f, g, l, t) == p \o TwoBytes(f) \o TwoBytes(g) \o Zeros(4) \o TwoBytes(l) \o t

LEMMA AnswerTailIs ==
    ASSUME NEW p \in Seq(Nat), NEW m \in Nat, m = Len(p), NEW f \in Nat, NEW g \in Nat,
           NEW t \in Seq(Nat), NEW l \in Nat, l = Len(t),
           NEW s, s = TailBytes(p, f, g, l, t)
    PROVE  AnswerTail(s, p, m, f, g, t, l)
  <1>1. PICK a, b, c, e : a = TwoBytes(f) /\ b = TwoBytes(g) /\ c = Zeros(4) /\ e = TwoBytes(l)
    OBVIOUS
  <1>2. TwoBytesOf(a, f) /\ TwoBytesOf(b, g) /\ TwoBytesOf(e, l)
    BY <1>1, TwoBytesIs
  <1>3. PICK m2 \in Nat, m4 \in Nat, m8 \in Nat, m10 \in Nat :
            m2 = m + 2 /\ m4 = m2 + 2 /\ m8 = m4 + 4 /\ m10 = m8 + 2
    OBVIOUS
  <1>4. PICK u, v, w, z : u = p \o a /\ v = u \o b /\ w = v \o c /\ z = w \o e /\ s = z \o t
    BY <1>1 DEF TailBytes
  <1>5. Joined(u, p, m, a, 2)
    BY <1>2, <1>4, TwoMore
  <1>6. u \in Seq(Nat) /\ m2 = Len(u)
    BY <1>3, <1>5, JoinedTyped
  <1>7. Joined(v, u, m2, b, 2)
    BY <1>2, <1>4, <1>6, TwoMore
  <1>8. v \in Seq(Nat) /\ m4 = Len(v)
    BY <1>3, <1>7, JoinedTyped
  <1>9. Joined(w, v, m4, c, 4)
    <2>1. PICK k \in Nat : k = 4 /\ w = v \o Zeros(k) /\ c = Zeros(k)
      BY <1>1, <1>4
    <2>2. Joined(w, v, m4, Zeros(k), k)
      BY <1>8, <2>1, ZerosMore
    <2> QED  BY <2>1, <2>2
  <1>10. w \in Seq(Nat) /\ m8 = Len(w)
    BY <1>3, <1>9, JoinedTyped
  <1>11. Joined(z, w, m8, e, 2)
    BY <1>2, <1>4, <1>10, TwoMore
  <1>12. z \in Seq(Nat) /\ m10 = Len(z)
    BY <1>3, <1>11, JoinedTyped
  <1>13. Joined(s, z, m10, t, l)
    BY <1>4, <1>12, Joins
  <1>14. s \in Seq(Nat) /\ Len(s) = m + 10 + l
    BY <1>3, <1>13 DEF Joined
  <1>15. Starts(s, z, m10) /\ Starts(z, w, m8) /\ Starts(w, v, m4) /\ Starts(v, u, m2) /\ Starts(u, p, m)
    BY <1>5, <1>7, <1>9, <1>11, <1>13 DEF Joined, Starts
  <1>16. /\ \A i \in 1 .. m4 : s[i] = v[i]
         /\ \A i \in 1 .. m2 : s[i] = u[i]
         /\ \A i \in 1 .. m : s[i] = p[i]
    <2>1. ASSUME NEW i \in 1 .. m4 PROVE s[i] = v[i]
      <3>1. i \in 1 .. m8 /\ i \in 1 .. m10
        BY <1>3
      <3> QED  BY <1>15, <3>1 DEF Starts
    <2>2. ASSUME NEW i \in 1 .. m2 PROVE s[i] = u[i]
      <3>1. i \in 1 .. m4
        BY <1>3
      <3> QED  BY <1>15, <2>1, <3>1 DEF Starts
    <2>3. ASSUME NEW i \in 1 .. m PROVE s[i] = p[i]
      <3>1. i \in 1 .. m2
        BY <1>3
      <3> QED  BY <1>15, <2>2, <3>1 DEF Starts
    <2> QED  BY <2>1, <2>2, <2>3
  <1>17. s[m + 1] = a[1] /\ s[m + 2] = a[2]
    <2>1. m + 1 \in 1 .. m2 /\ m + 2 \in 1 .. m2
      BY <1>3
    <2>2. u[m + 1] = a[1] /\ u[m + 2] = a[2]
      BY <1>5 DEF Joined
    <2> QED  BY <1>16, <2>1, <2>2
  <1>18. s[m + 3] = b[1] /\ s[m + 4] = b[2]
    <2>1. PICK i \in Nat, h \in Nat : i = m + 3 /\ h = m + 4
      OBVIOUS
    <2>2. i \in 1 .. m4 /\ h \in 1 .. m4 /\ i = m2 + 1 /\ h = m2 + 2
      BY <1>3, <2>1
    <2>3. v[m2 + 1] = b[1] /\ v[m2 + 2] = b[2]
      BY <1>7 DEF Joined
    <2>4. v[i] = b[1] /\ v[h] = b[2]
      BY <2>2, <2>3
    <2> QED  BY <1>16, <2>1, <2>2, <2>4
  <1>19. s[m + 9] = e[1] /\ s[m + 10] = e[2]
    <2>1. m + 9 \in 1 .. m10 /\ m + 10 \in 1 .. m10 /\ m + 9 = m8 + 1 /\ m + 10 = m8 + 2
      BY <1>3
    <2>2. z[m8 + 1] = e[1] /\ z[m8 + 2] = e[2]
      BY <1>11 DEF Joined
    <2> QED  BY <1>15, <2>1, <2>2 DEF Starts
  <1>20. \A j \in 1 .. l : s[m + 10 + j] = t[j]
    <2>1. m + 10 = m10
      BY <1>3
    <2> QED  BY <1>13, <2>1 DEF Joined
  <1>21. /\ a[1] = f \div 256 /\ a[2] = f % 256 /\ b[1] = g \div 256 /\ b[2] = g % 256
         /\ e[1] = l \div 256 /\ e[2] = l % 256
    BY <1>2 DEF TwoBytesOf
  <1> QED  BY <1>14, <1>16, <1>17, <1>18, <1>19, <1>20, <1>21 DEF AnswerTail

\* An answer's bytes.
AnswerOf(s, a) ==
    /\ s \in Seq(Nat) /\ Len(s) >= 11
    /\ a.compressed => Len(s) = 12 + Len(a.data)
    /\ AnswerIn(s, 0, a)

LEMMA AnswerOfIs ==
    ASSUME NEW labels, NEW n, IsName(labels, n), NEW a \in Reply
    PROVE  AnswerOf(AnswerBytes(a, labels), a)
  <1>1. PICK f \in Nat, g \in Nat, t \in Seq(Nat), l \in Nat : f = a.type /\ g = a.class /\ t = a.data /\ l = Len(t)
    BY ReplyTyped
  <1>2. PICK s : s = AnswerBytes(a, labels)
    OBVIOUS
  <1>3. CASE a.compressed
    <2>0. PICK m \in Nat : m = 2
      OBVIOUS
    <2>1. PICK p : p = <<192, 12>> /\ m = 2
      BY <2>0
    <2>2. p \in Seq(Nat) /\ m = Len(p) /\ p[1] = 192
      BY <2>1
    <2>3. s = TailBytes(p, f, g, l, t)
      BY <1>1, <1>2, <1>3, <2>1 DEF AnswerBytes, TailBytes
    <2>4. AnswerTail(s, p, m, f, g, t, l)
      BY <1>1, <2>2, <2>3, AnswerTailIs
    <2>5. Len(s) = 12 + l /\ s \in Seq(Nat)
      BY <2>1, <2>4 DEF AnswerTail
    <2>6. /\ s[1] = 192 /\ s[3] = f \div 256 /\ s[4] = f % 256 /\ s[5] = g \div 256 /\ s[6] = g % 256
          /\ s[11] = l \div 256 /\ s[12] = l % 256
      <3>1. m + 1 = 3 /\ m + 2 = 4 /\ m + 3 = 5 /\ m + 4 = 6 /\ m + 9 = 11 /\ m + 10 = 12 /\ 1 \in 1 .. m
        BY <2>1
      <3>2. s[1] = 192
        BY <2>2, <2>4, <3>1 DEF AnswerTail
      <3>3. /\ s[m + 1] = f \div 256 /\ s[m + 2] = f % 256 /\ s[m + 3] = g \div 256 /\ s[m + 4] = g % 256
            /\ s[m + 9] = l \div 256 /\ s[m + 10] = l % 256
        BY <2>4 DEF AnswerTail
      <3> QED  BY <3>1, <3>2, <3>3
    <2>7. \A j \in 1 .. l : s[12 + j] = t[j]
      <3>1. m + 10 = 12
        BY <2>1
      <3> QED  BY <2>4, <3>1 DEF AnswerTail
    <2>8. TextIn(s, 12, a.data)
      BY <1>1, <2>7 DEF TextIn
    <2>9. 0 + 1 = 1 /\ 0 + 3 = 3 /\ 0 + 4 = 4 /\ 0 + 5 = 5 /\ 0 + 6 = 6 /\ 0 + 11 = 11 /\ 0 + 12 = 12
      OBVIOUS
    <2>10. AnswerIn(s, 0, a)
      <3>1. /\ s[0 + 1] = 192 /\ s[0 + 3] = f \div 256 /\ s[0 + 4] = f % 256 /\ s[0 + 5] = g \div 256
            /\ s[0 + 6] = g % 256 /\ s[0 + 11] = l \div 256 /\ s[0 + 12] = l % 256
        BY <2>6, <2>9
      <3>2. TextIn(s, 0 + 12, a.data)
        BY <2>8, <2>9
      <3> QED  BY <1>1, <1>3, <3>1, <3>2 DEF AnswerIn
    <2>11. Len(s) >= 11
      BY <2>5
    <2> QED  BY <1>1, <1>2, <2>5, <2>10, <2>11 DEF AnswerOf
  <1>4. CASE ~a.compressed
    <2>1. PICK p : p = LabelsBytes(labels)
      OBVIOUS
    <2>2. PICK y, E : LabelsOf(p, y, labels, n, E)
      BY <2>1, LabelsLaid
    <2>3. p \in Seq(Nat) /\ y \in Nat /\ y = Len(p) /\ y >= 1
      BY <2>2 DEF LabelsOf
    <2>4. s = TailBytes(p, f, g, l, t)
      BY <1>1, <1>2, <1>4, <2>1 DEF AnswerBytes, TailBytes
    <2>5. AnswerTail(s, p, y, f, g, t, l)
      BY <1>1, <2>3, <2>4, AnswerTailIs
    <2>6. s \in Seq(Nat) /\ Len(s) >= 11
      BY <2>3, <2>5 DEF AnswerTail
    <2>7. p[1] < 192
      <3>1. LabelsIn(p, 0, labels, n, E) /\ n \in Nat /\ E[0] = 0
        BY <2>2 DEF LabelsOf, LabelsIn, IsName
      <3>2. 0 + (0 + 1) = 1
        OBVIOUS
      <3>3. CASE n = 0
        <4>1. p[0 + (0 + 1)] = 0
          BY <3>1, <3>3 DEF LabelsIn
        <4> QED  BY <3>2, <4>1
      <3>4. CASE n # 0
        <4>1. PICK k \in 1 .. n : k = 1 /\ k - 1 = 0
          BY <3>1, <3>4
        <4>2. p[0 + (0 + 1)] = Len(labels[k])
          BY <3>1, <4>1 DEF LabelsIn
        <4>3. Len(labels[k]) \in 1 .. 63
          BY DEF IsName
        <4>4. PICK c \in 1 .. 63 : c = Len(labels[k])
          BY <4>3
        <4>5. p[1] = c
          BY <3>2, <4>2, <4>4
        <4>6. c < 192
          OBVIOUS
        <4> QED  BY <4>5, <4>6
      <3> QED  BY <3>3, <3>4
    <2>8. s[0 + 1] < 192
      <3>1. 1 \in 1 .. y /\ 0 + 1 = 1
        BY <2>3
      <3> QED  BY <2>5, <2>7, <3>1 DEF AnswerTail
    <2>9. AnswerIn(s, 0, a)
      BY <1>4, <2>8 DEF AnswerIn
    <2> QED  BY <1>2, <1>4, <2>6, <2>9 DEF AnswerOf
  <1> QED  BY <1>3, <1>4

\* Where the answers are: from o to e.
AnswersIn(x, as, N, B, o, e) ==
    /\ B \in [0 .. N -> Nat] /\ B[0] = o /\ B[N] = e /\ e \in Nat
    /\ \A k \in 1 .. N : /\ B[k] >= B[k - 1] + 11 /\ B[k] <= e
                         /\ as[k].compressed => B[k] = B[k - 1] + 12 + Len(as[k].data)
                         /\ AnswerIn(x, B[k - 1], as[k])

LEMMA AnswerMoved ==
    ASSUME NEW a \in Reply, NEW s, AnswerOf(s, a), NEW o \in Nat, NEW x, NEW l \in Nat, l = Len(s), Follows(x, o, s, l)
    PROVE  AnswerIn(x, o, a)
  <1>1. PICK t \in Seq(Nat), m \in Nat : t = a.data /\ m = Len(t)
    BY ReplyTyped
  <1>2. l >= 11 /\ (a.compressed => l = 12 + m) /\ AnswerIn(s, 0, a)
    BY <1>1 DEF AnswerOf
  <1>3. CASE ~a.compressed
    <2>1. s[1] < 192
      <3>1. 0 + 1 = 1
        OBVIOUS
      <3> QED  BY <1>2, <1>3, <3>1 DEF AnswerIn
    <2>2. x[o + 1] = s[1]
      <3>1. 1 \in 1 .. l
        BY <1>2
      <3> QED  BY <3>1 DEF Follows
    <2> QED  BY <1>3, <2>1, <2>2 DEF AnswerIn
  <1>4. CASE a.compressed
    <2>0. l = 12 + m
      BY <1>2, <1>4
    <2>1. 0 + 1 = 1 /\ 0 + 3 = 3 /\ 0 + 4 = 4 /\ 0 + 5 = 5 /\ 0 + 6 = 6 /\ 0 + 11 = 11 /\ 0 + 12 = 12
      OBVIOUS
    <2>2. /\ s[1] = 192 /\ s[3] = a.type \div 256 /\ s[4] = a.type % 256
          /\ s[5] = a.class \div 256 /\ s[6] = a.class % 256
          /\ s[11] = Len(a.data) \div 256 /\ s[12] = Len(a.data) % 256
      <3>1. /\ s[0 + 1] = 192 /\ s[0 + 3] = a.type \div 256 /\ s[0 + 4] = a.type % 256
            /\ s[0 + 5] = a.class \div 256 /\ s[0 + 6] = a.class % 256
            /\ s[0 + 11] = Len(a.data) \div 256 /\ s[0 + 12] = Len(a.data) % 256
        BY <1>2, <1>4, Zenon DEF AnswerIn
      <3> QED  BY <2>1, <3>1, Zenon
    <2>3. TextIn(s, 12, t)
      BY <1>1, <1>2, <1>4, <2>1 DEF AnswerIn
    <2>4. 1 \in 1 .. l /\ 3 \in 1 .. l /\ 4 \in 1 .. l /\ 5 \in 1 .. l /\ 6 \in 1 .. l /\ 11 \in 1 .. l /\ 12 \in 1 .. l
      BY <2>0
    <2>5. /\ x[o + 1] = s[1] /\ x[o + 3] = s[3] /\ x[o + 4] = s[4] /\ x[o + 5] = s[5] /\ x[o + 6] = s[6]
          /\ x[o + 11] = s[11] /\ x[o + 12] = s[12]
      BY <2>4 DEF Follows
    <2>6. ASSUME NEW j \in 1 .. m PROVE x[o + 12 + j] = t[j]
      <3>1. 12 + j \in 1 .. l /\ o + (12 + j) = o + 12 + j
        BY <2>0
      <3>2. x[o + (12 + j)] = s[12 + j]
        BY <3>1 DEF Follows
      <3>3. s[12 + j] = t[j]
        BY <1>1, <2>3 DEF TextIn
      <3> QED  BY <3>1, <3>2, <3>3
    <2>7. TextIn(x, o + 12, a.data)
      BY <1>1, <2>6 DEF TextIn
    <2> QED  BY <1>4, <2>2, <2>5, <2>7 DEF AnswerIn
  <1> QED  BY <1>3, <1>4

AnswersBytes(as, labels) == FlattenSeq([i \in DOMAIN as |-> AnswerBytes(as[i], labels)])

\* The pieces of the answers.
Replies(ss, as, labels, N) ==
    /\ ss \in Seq(Seq(Nat)) /\ Len(ss) = N
    /\ \A k \in 1 .. N : ss[k] \in Seq(Nat) /\ Len(ss[k]) \in Nat /\ AnswerOf(ss[k], as[k])

LEMMA RepliesAre ==
    ASSUME NEW labels, NEW n, IsName(labels, n), NEW as, NEW N, IsAnswers(as, N), NEW w, w = AnswersBytes(as, labels)
    PROVE  \E ss, A : Replies(ss, as, labels, N) /\ Laid(w, A, ss, N)
  <1>. N \in Nat
    BY DEF IsAnswers
  <1>1. PICK ss : ss = [i \in DOMAIN as |-> AnswerBytes(as[i], labels)]
    OBVIOUS
  <1>2. DOMAIN as = 1 .. N
    BY LenProperties DEF IsAnswers
  <1>3. ASSUME NEW k \in 1 .. N PROVE ss[k] \in Seq(Nat) /\ AnswerOf(ss[k], as[k])
    <2>1. as[k] \in Reply
      BY DEF IsAnswers
    <2>2. ss[k] = AnswerBytes(as[k], labels)
      BY <1>1, <1>2
    <2>3. AnswerOf(ss[k], as[k])
      BY <2>1, <2>2, AnswerOfIs
    <2> QED  BY <2>3 DEF AnswerOf
  <1>4. ss \in [1 .. N -> Seq(Nat)]
    BY <1>1, <1>2, <1>3
  <1>5. ss \in Seq(Seq(Nat)) /\ Len(ss) = N
    BY <1>4, FunSeq, LenProperties
  <1>6. w = FlattenSeq(ss)
    BY <1>1 DEF AnswersBytes
  <1>7. PICK A : Laid(w, A, ss, N)
    BY <1>5, <1>6, LaidOut
  <1>8. Replies(ss, as, labels, N)
    <2>1. \A k \in 1 .. N : Len(ss[k]) \in Nat
      BY <1>3, LenProperties
    <2> QED  BY <1>3, <1>5, <2>1 DEF Replies
  <1> QED  BY <1>7, <1>8

LEMMA AnswersMoved ==
    ASSUME NEW labels, NEW as, NEW N, IsAnswers(as, N), NEW ss, Replies(ss, as, labels, N),
           NEW w, NEW A, Laid(w, A, ss, N), NEW y \in Nat, y = Len(w), NEW o \in Nat, NEW x, Follows(x, o, w, y)
    PROVE  \E B : AnswersIn(x, as, N, B, o, o + y)
  <1>. N \in Nat
    BY DEF IsAnswers
  <1>0. ss \in Seq(Seq(Nat)) /\ Len(ss) = N
    BY DEF Replies
  <1>1. PICK B : LaidAt(x, B, ss, N, o) /\ B[N] = o + y
    BY <1>0, LaidMoved
  <1>2. B \in [0 .. N -> Nat] /\ B[0] = o
    BY <1>1 DEF LaidAt
  <1>3. ASSUME NEW k \in 1 .. N
        PROVE  /\ B[k] >= B[k - 1] + 11
               /\ as[k].compressed => B[k] = B[k - 1] + 12 + Len(as[k].data)
               /\ AnswerIn(x, B[k - 1], as[k])
    <2>1. PICK b \in Nat : b = B[k - 1]
      <3>1. k - 1 \in 0 .. N
        OBVIOUS
      <3> QED  BY <1>2, <3>1
    <2>2. PICK l \in Nat : l = Len(ss[k])
      BY DEF Replies
    <2>3. PICK s, a : s = ss[k] /\ a = as[k]
      OBVIOUS
    <2>4. a \in Reply
      BY <2>3 DEF IsAnswers
    <2>5. AnswerOf(s, a)
      BY <2>3 DEF Replies
    <2>6. B[k] = b + l /\ Follows(x, b, s, l)
      BY <1>1, <2>1, <2>2, <2>3 DEF LaidAt
    <2>7. AnswerIn(x, b, a)
      BY <2>2, <2>3, <2>4, <2>5, <2>6, AnswerMoved
    <2>8. PICK m \in Nat : m = Len(a.data)
      BY <2>4, ReplyTyped
    <2>9. l >= 11 /\ (a.compressed => l = 12 + m)
      BY <2>2, <2>3, <2>5, <2>8 DEF AnswerOf
    <2>10. b + l >= b + 11 /\ (a.compressed => b + l = b + 12 + m)
      BY <2>9
    <2> QED  BY <2>1, <2>3, <2>6, <2>7, <2>8, <2>10
  <1>4. ASSUME NEW k \in 1 .. N PROVE B[k] <= o + y
    <2>1. ASSUME NEW i \in 1 .. N PROVE B[i - 1] \in Nat /\ B[i] \in Nat /\ B[i] >= B[i - 1]
      <3>1. i - 1 \in 0 .. N /\ i \in 0 .. N
        OBVIOUS
      <3>2. PICK a \in Nat, b \in Nat : a = B[i - 1] /\ b = B[i]
        BY <1>2, <3>1
      <3>3. b >= a + 11
        BY <1>3, <3>2
      <3> QED  BY <3>2, <3>3
    <2> DEFINE C == {j \in 0 .. N : j < k \/ B[k] <= B[j]}
    <2>2. 0 \in C
      OBVIOUS
    <2>3. ASSUME NEW j \in 1 .. N, j - 1 \in C PROVE j \in C
      <3>1. B[j - 1] \in Nat /\ B[j] \in Nat /\ B[j] >= B[j - 1]
        BY <2>1
      <3>2. j < k \/ j = k \/ B[k] <= B[j - 1]
        BY <2>3
      <3>3. B[k] \in Nat
        BY <2>1
      <3> QED  BY <3>1, <3>2, <3>3
    <2>4. \A j \in 0 .. N : j \in C
      <3> HIDE DEF C
      <3> QED  BY <2>2, <2>3, NatUp
    <2>5. N \in 0 .. N /\ ~(N < k)
      OBVIOUS
    <2> QED  BY <1>1, <2>4, <2>5
  <1>5. o + y \in Nat
    OBVIOUS
  <1> QED  BY <1>1, <1>2, <1>3, <1>4, <1>5 DEF AnswersIn

\* A buffer that begins with a response: the name at 12, the answers from a to e.
ResponseIn(x, labels, n, as, N, E, B, a, e) ==
    /\ x[3] = 129 /\ x[5] = 0 /\ x[6] = 1 /\ x[7] = N \div 256 /\ x[8] = N % 256
    /\ LabelsIn(x, 12, labels, n, E) /\ E[n] \in Nat /\ a = 12 + E[n] + 5
    /\ x[a - 3] = 0 /\ x[a - 2] = 1 /\ x[a - 1] = 0 /\ x[a] = 1
    /\ AnswersIn(x, as, N, B, a, e)

\* The response put together.
Response(w, h, b, c, L, t, W, y, z) ==
    \E p1, p2, p3, p4 :
        /\ Joined(p1, h, 6, b, 2) /\ Joined(p2, p1, 8, c, 4) /\ Joined(p3, p2, 12, L, y)
        /\ Joined(p4, p3, 12 + y, t, 4) /\ Joined(w, p4, 12 + y + 4, W, z)

Fixed(h, c, t) == h = <<0, 0, 129, 128, 0, 1>> /\ c = Zeros(4) /\ t = <<0, 1, 0, 1>>

LEMMA ResponseJoined ==
    ASSUME NEW r, NEW N \in Nat, N = Len(r.answers),
           NEW L \in Seq(Nat), L = LabelsBytes(r.labels), NEW y \in Nat, y = Len(L),
           NEW W \in Seq(Nat), W = AnswersBytes(r.answers, r.labels), NEW z \in Nat, z = Len(W),
           NEW w, w = DnsBytes(r), NEW h, NEW c, NEW t, Fixed(h, c, t), NEW b, b = TwoBytes(N)
    PROVE  Response(w, h, b, c, L, t, W, y, z)
  <1>1. h = <<0, 0, 129, 128, 0, 1>> /\ b = TwoBytes(N) /\ c = Zeros(4) /\ t = <<0, 1, 0, 1>>
    BY DEF Fixed
  <1>2. h \in Seq(Nat) /\ Len(h) = 6 /\ t \in Seq(Nat) /\ Len(t) = 4
    BY <1>1
  <1>3. TwoBytesOf(b, N)
    BY <1>1, TwoBytesIs
  <1>4. PICK p1, p2, p3, p4 : p1 = h \o b /\ p2 = p1 \o c /\ p3 = p2 \o L /\ p4 = p3 \o t
    OBVIOUS
  <1>5. w = p4 \o W
    <2>1. 128 + 1 = 129
      OBVIOUS
    <2> QED  BY <1>1, <1>4, <2>1 DEF DnsBytes, AnswersBytes
  <1>6a. PICK m6 \in Nat, m8 \in Nat, m12 \in Nat, m4 \in Nat : m6 = 6 /\ m8 = 8 /\ m12 = 12 /\ m4 = 4
    OBVIOUS
  <1>6b. PICK my \in Nat : my = 12 + y
    OBVIOUS
  <1>. m6 \in Nat /\ m8 \in Nat /\ m12 \in Nat /\ m4 \in Nat /\ my \in Nat
    BY <1>6a, <1>6b
  <1>6. m6 = 6 /\ m8 = 8 /\ m12 = 12 /\ my = 12 + y /\ m4 = 4
    BY <1>6a, <1>6b
  <1>7. Joined(p1, h, m6, b, 2)
    BY <1>2, <1>3, <1>4, <1>6, TwoMore
  <1>8. p1 \in Seq(Nat) /\ m8 = Len(p1)
    <2>1. m8 = m6 + 2
      BY <1>6
    <2> QED  BY <1>7, <2>1, JoinedTyped
  <1>9. Joined(p2, p1, m8, c, m4)
    <2>1. p2 = p1 \o Zeros(m4) /\ c = Zeros(m4)
      BY <1>1, <1>4, <1>6
    <2>2. Joined(p2, p1, m8, Zeros(m4), m4)
      BY <1>8, <2>1, ZerosMore
    <2> QED  BY <2>1, <2>2
  <1>10. p2 \in Seq(Nat) /\ m12 = Len(p2)
    <2>1. m12 = m8 + m4
      BY <1>6
    <2> QED  BY <1>9, <2>1, JoinedTyped
  <1>11. Joined(p3, p2, m12, L, y)
    <2>1. L \in Seq(Nat) /\ y \in Nat /\ y = Len(L)
      OBVIOUS
    <2> QED  BY <1>4, <1>10, <2>1, Joins, ZenonT(30)
  <1>12. p3 \in Seq(Nat) /\ my = Len(p3)
    <2>1. my = m12 + y
      BY <1>6
    <2> QED  BY <1>11, <2>1, JoinedTyped
  <1>13. Joined(p4, p3, my, t, m4)
    <2>1. t \in Seq(Nat) /\ m4 \in Nat /\ m4 = Len(t)
      BY <1>2, <1>6
    <2> QED  BY <1>4, <1>12, <2>1, Joins, ZenonT(30)
  <1>14. PICK mz \in Nat : mz = 12 + y + 4
    OBVIOUS
  <1>15. p4 \in Seq(Nat) /\ mz = Len(p4)
    <2>1. mz = my + m4
      BY <1>6, <1>14
    <2> QED  BY <1>13, <2>1, JoinedTyped
  <1>16. Joined(w, p4, mz, W, z)
    BY <1>5, <1>15, Joins
  <1>17. Response(w, h, b, c, L, t, W, y, z)
    BY <1>6, <1>7, <1>9, <1>11, <1>13, <1>14, <1>16, Zenon DEF Response
  <1> QED  BY <1>17

LEMMA ResponseFound ==
    ASSUME NEW labels, NEW n, IsName(labels, n), NEW as, NEW N, IsAnswers(as, N),
           NEW r, r.labels = labels, r.answers = as,
           NEW w, w = DnsBytes(r), NEW l \in Nat, l = Len(w), NEW x, Starts(x, w, l)
    PROVE  \E E, B, a : ResponseIn(x, labels, n, as, N, E, B, a, l) /\ a \in Nat /\ w \in Seq(Nat)
  <1>. N \in Nat /\ n \in Nat /\ N = Len(as)
    BY DEF IsAnswers, IsName
  <1>1. PICK L, W : L = LabelsBytes(labels) /\ W = AnswersBytes(as, labels)
    OBVIOUS
  <1>2. PICK y, E : LabelsOf(L, y, labels, n, E)
    BY <1>1, LabelsLaid
  <1>3. L \in Seq(Nat) /\ y \in Nat /\ Len(L) = y /\ E[n] \in Nat /\ y = E[n] + 1
    BY <1>2 DEF LabelsOf
  <1>4. PICK ss, A : Replies(ss, as, labels, N) /\ Laid(W, A, ss, N)
    BY <1>1, RepliesAre
  <1>5. W \in Seq(Nat)
    BY <1>4 DEF Laid
  <1>6. PICK z \in Nat : z = Len(W)
    BY <1>5, LenProperties
  <1>7. PICK h, b, c, t : h = <<0, 0, 129, 128, 0, 1>> /\ b = TwoBytes(N) /\ c = Zeros(4) /\ t = <<0, 1, 0, 1>>
    OBVIOUS
  <1>8. Response(w, h, b, c, L, t, W, y, z)
    <2>1. L = LabelsBytes(r.labels) /\ W = AnswersBytes(r.answers, r.labels) /\ N = Len(r.answers)
      BY <1>1
    <2>2. y = Len(L) /\ y \in Nat /\ L \in Seq(Nat) /\ z \in Nat /\ z = Len(W) /\ W \in Seq(Nat)
      BY <1>3, <1>5, <1>6
    <2>3. Fixed(h, c, t) /\ b = TwoBytes(N)
      BY <1>7 DEF Fixed
    <2> QED  BY <2>1, <2>2, <2>3, ResponseJoined
  <1>9. PICK p1, p2, p3, p4 :
            /\ Joined(p1, h, 6, b, 2) /\ Joined(p2, p1, 8, c, 4) /\ Joined(p3, p2, 12, L, y)
            /\ Joined(p4, p3, 12 + y, t, 4) /\ Joined(w, p4, 12 + y + 4, W, z)
    BY <1>8 DEF Response
  <1>10. PICK m \in Nat, a \in Nat : m = 12 + y /\ a = 12 + y + 4
    BY <1>3
  <1>11. w \in Seq(Nat) /\ l = a + z
    BY <1>9, <1>10 DEF Joined
  <1>12. Starts(x, p4, a) /\ Follows(x, a, W, z)
    BY <1>9, <1>10, <1>11, StartsOn
  <1>13. Starts(x, p3, m) /\ Follows(x, m, t, 4)
    <2>1. PICK k \in Nat : k = 4 /\ a = m + k
      BY <1>10
    <2>2. Joined(p4, p3, m, t, k)
      BY <1>9, <1>10, <2>1
    <2> QED  BY <1>12, <2>1, <2>2, StartsOn
  <1>14. PICK o \in Nat, e \in Nat, k \in Nat : o = 12 /\ e = 8 /\ k = 6
    OBVIOUS
  <1>15. Starts(x, p2, o) /\ Follows(x, o, L, y)
    <2>1. Joined(p3, p2, o, L, y) /\ m = o + y
      BY <1>3, <1>9, <1>10, <1>14
    <2> QED  BY <1>3, <1>13, <2>1, StartsOn
  <1>16. Starts(x, p1, e)
    <2>1. PICK i \in Nat : i = 4 /\ o = e + i
      BY <1>14
    <2>2. Joined(p2, p1, e, c, i)
      BY <1>9, <1>14, <2>1
    <2> QED  BY <1>15, <2>1, <2>2, StartsOn
  <1>17. Starts(x, h, k) /\ Follows(x, k, b, 2)
    <2>1. PICK i \in Nat : i = 2 /\ e = k + i
      BY <1>14
    <2>2. Joined(p1, h, k, b, i)
      BY <1>9, <1>14, <2>1
    <2> QED  BY <1>16, <2>1, <2>2, StartsOn
  <1>18. x[3] = 129 /\ x[5] = 0 /\ x[6] = 1
    <2>1. 3 \in 1 .. 6 /\ 5 \in 1 .. 6 /\ 6 \in 1 .. 6 /\ h[3] = 129 /\ h[5] = 0 /\ h[6] = 1
      BY <1>7
    <2> QED  BY <1>14, <1>17, <2>1 DEF Starts
  <1>19. x[7] = N \div 256 /\ x[8] = N % 256
    <2>1. b[1] = N \div 256 /\ b[2] = N % 256
      BY <1>7, TwoBytesIs DEF TwoBytesOf
    <2>2. 6 + 1 = 7 /\ 6 + 2 = 8 /\ 1 \in 1 .. 2 /\ 2 \in 1 .. 2
      OBVIOUS
    <2>3. x[6 + 1] = b[1] /\ x[6 + 2] = b[2]
      BY <1>14, <1>17, <2>2 DEF Follows
    <2> QED  BY <2>1, <2>2, <2>3
  <1>20. LabelsIn(x, 12, labels, n, E)
    <2>1. \A k1 \in 1 .. n : Len(labels[k1]) \in Nat
      <3>1. ASSUME NEW k1 \in 1 .. n PROVE Len(labels[k1]) \in Nat
        <4>1. labels[k1] \in Seq(Nat)
          BY DEF IsName
        <4> QED  BY <4>1, LenProperties
      <3> QED  BY <3>1
    <2>2. LabelsIn(x, o, labels, n, E)
      BY <1>2, <1>15, <2>1, LabelsMoved
    <2> QED  BY <1>14, <2>2
  <1>21. x[a - 3] = 0 /\ x[a - 2] = 1 /\ x[a - 1] = 0 /\ x[a] = 1
    <2>1. 1 \in 1 .. 4 /\ 2 \in 1 .. 4 /\ 3 \in 1 .. 4 /\ 4 \in 1 .. 4 /\ t[1] = 0 /\ t[2] = 1 /\ t[3] = 0 /\ t[4] = 1
      BY <1>7
    <2>2. x[m + 1] = 0 /\ x[m + 2] = 1 /\ x[m + 3] = 0 /\ x[m + 4] = 1
      BY <1>13, <2>1 DEF Follows
    <2>3. a - 3 = m + 1 /\ a - 2 = m + 2 /\ a - 1 = m + 3 /\ a = m + 4
      <3>1. a = m + 4
        BY <1>3, <1>10
      <3> QED  BY <3>1
    <2> QED  BY <2>2, <2>3
  <1>22. a = 12 + E[n] + 5
    <2>1. PICK g \in Nat : g = E[n]
      BY <1>3
    <2>2. y = g + 1
      BY <1>3, <2>1
    <2>3. a = 12 + y + 4
      BY <1>10
    <2>4. a = 12 + g + 5
      BY <2>2, <2>3
    <2> QED  BY <2>1, <2>4
  <1>23. PICK B : AnswersIn(x, as, N, B, a, l)
    <2>1. \E B : AnswersIn(x, as, N, B, a, a + z)
      BY <1>4, <1>6, <1>12, AnswersMoved
    <2> QED  BY <1>11, <2>1
  <1>24. ResponseIn(x, labels, n, as, N, E, B, a, l)
    BY <1>3, <1>18, <1>19, <1>20, <1>21, <1>22, <1>23 DEF ResponseIn
  <1> QED  BY <1>11, <1>24

\* The loop over a response's answers.
Ans(o, n, t, x) == [off |-> o, n |-> n, stop |-> t, lines |-> x]
Line(q, y) == [qname |-> q, ip |-> y]
AnsLine == [qname : Seq(Nat), ip : Seq(Nat)]
AnsState == [off : Nat, n : Nat, stop : BOOLEAN, lines : Seq(AnsLine)]

LEMMA AnsOne ==
    ASSUME NEW o, NEW n, NEW t, NEW x, NEW s, s = Ans(o, n, t, x), NEW y
    PROVE  /\ s.off = o /\ s.n = n /\ s.stop = t /\ s.lines = x
           /\ [s EXCEPT !.off = y] = Ans(y, n, t, x)
           /\ [s EXCEPT !.n = y] = Ans(o, y, t, x)
           /\ [s EXCEPT !.stop = y] = Ans(o, n, y, x)
           /\ [s EXCEPT !.lines = y] = Ans(o, n, t, y)
  <1>1. s = [off |-> o, n |-> n, stop |-> t, lines |-> x]
    BY DEF Ans
  <1>2. /\ [s EXCEPT !.off = y] = [off |-> y, n |-> n, stop |-> t, lines |-> x]
        /\ [s EXCEPT !.n = y] = [off |-> o, n |-> y, stop |-> t, lines |-> x]
    BY <1>1
  <1>3. /\ [s EXCEPT !.stop = y] = [off |-> o, n |-> n, stop |-> y, lines |-> x]
        /\ [s EXCEPT !.lines = y] = [off |-> o, n |-> n, stop |-> t, lines |-> y]
    BY <1>1
  <1>4. s.off = o /\ s.n = n /\ s.stop = t /\ s.lines = x
    BY <1>1
  <1> QED  BY <1>2, <1>3, <1>4 DEF Ans

NextAns(s, y, z, u) == [s EXCEPT !.n = y, !.off = z, !.lines = u]

LEMMA AnsExcept ==
    ASSUME NEW o, NEW n, NEW t, NEW x, NEW s, s = Ans(o, n, t, x), NEW y, NEW z, NEW u
    PROVE  NextAns(s, y, z, u) = Ans(z, y, t, u)
  <1>1. PICK s1 : s1 = [s EXCEPT !.n = y]
    OBVIOUS
  <1>2. PICK s2 : s2 = [s1 EXCEPT !.off = z]
    OBVIOUS
  <1>3. PICK s3 : s3 = [s2 EXCEPT !.lines = u]
    OBVIOUS
  <1>4. s1 = Ans(o, y, t, x)
    BY <1>1, AnsOne
  <1>5. s2 = Ans(z, y, t, x)
    BY <1>2, <1>4, AnsOne
  <1>6. s3 = Ans(z, y, t, u)
    BY <1>3, <1>5, AnsOne
  <1>7. [s EXCEPT !.n = y, !.off = z, !.lines = u] = [[[s EXCEPT !.n = y] EXCEPT !.off = z] EXCEPT !.lines = u]
    OBVIOUS
  <1> QED  BY <1>1, <1>2, <1>3, <1>6, <1>7 DEF NextAns

LEMMA AnsIs ==
    ASSUME NEW s \in AnsState
    PROVE  \E o \in Nat, n \in Nat, t \in BOOLEAN, x \in Seq(AnsLine) : s = Ans(o, n, t, x)
  BY DEF AnsState, Ans

\* One round, from where the loop is.
AnsStops(d, l, N, o, n, t) ==
    t \/ n = N \/ o >= l \/ At(d, o) < 192 \/ o + 12 > l \/ o + 12 + U16(d, o + 10) > l
Kind(f, g, m) == <<f, g, m>> \in {<<1, 1, 4>>, <<28, 1, 16>>}
AnsRound(d, l, N, q, o, n, t, x, r) ==
    /\ AnsStops(d, l, N, o, n, t) => r = Ans(o, n, TRUE, x)
    /\ ~AnsStops(d, l, N, o, n, t) /\ Kind(U16(d, o + 2), U16(d, o + 4), U16(d, o + 10)) =>
          r = Ans(o + 12 + U16(d, o + 10), n + 1, FALSE, Append(x, Line(q, Slice(d, o + 12, U16(d, o + 10)))))
    /\ ~AnsStops(d, l, N, o, n, t) /\ ~Kind(U16(d, o + 2), U16(d, o + 4), U16(d, o + 10)) =>
          r = Ans(o + 12 + U16(d, o + 10), n + 1, FALSE, x)

LEMMA AnsRoundIs ==
    ASSUME NEW d, NEW l, Len(d) = l, NEW st, NEW N, N = st.ancount, NEW q, q = st.qname,
           NEW o \in Nat, NEW n, NEW t \in BOOLEAN, NEW x, NEW s, s = Ans(o, n, t, x)
    PROVE  AnsRound(d, l, N, q, o, n, t, x, Answer(d, st, s))
  <1>1. s.off = o /\ s.n = n /\ s.stop = t /\ s.lines = x
    BY AnsOne
  <1>2. [s EXCEPT !.stop = TRUE] = Ans(o, n, TRUE, x)
    <2>1. \A y : [s EXCEPT !.stop = y] = Ans(o, n, y, x)
      BY AnsOne
    <2> QED  BY <2>1, Zenon
  <1>3. \A y, z, u : NextAns(s, y, z, u) = Ans(z, y, t, u)
    BY AnsExcept
  <1>4. PICK r, a, b, c, e : r = Answer(d, st, s) /\ a = o + 2 /\ b = o + 4 /\ c = o + 10 /\ e = o + 12
    OBVIOUS
  <1>5. PICK m : m = U16(d, c)
    OBVIOUS
  <1>6. r = IF \/ s.stop \/ s.n = st.ancount \/ s.off >= Len(d)
               \/ At(d, s.off) < 192 \/ s.off + 2 + 10 > Len(d)
               \/ s.off + 2 + 10 + U16(d, s.off + 2 + 8) > Len(d)
            THEN [s EXCEPT !.stop = TRUE]
            ELSE [s EXCEPT !.n = @ + 1, !.off = s.off + 2 + 10 + U16(d, s.off + 2 + 8),
                           !.lines = IF <<U16(d, s.off + 2), U16(d, s.off + 2 + 2), U16(d, s.off + 2 + 8)>>
                                        \in {<<1, 1, 4>>, <<28, 1, 16>>}
                                     THEN Append(@, [qname |-> st.qname,
                                                     ip |-> Slice(d, s.off + 2 + 10, U16(d, s.off + 2 + 8))])
                                     ELSE @]
    BY <1>4, Zenon DEF Answer
  <1>7. o + 2 = a /\ o + 2 + 10 = e /\ o + 2 + 8 = c /\ o + 2 + 2 = b
    BY <1>4
  <1>8. s.off + 2 = a /\ s.off + 2 + 10 = e /\ s.off + 2 + 8 = c /\ s.off + 2 + 2 = b
    BY <1>1, <1>7
  <1>9. PICK y : y = IF Kind(U16(d, a), U16(d, b), m) THEN Append(x, Line(q, Slice(d, e, m))) ELSE x
    OBVIOUS
  <1>10. r = IF t \/ n = N \/ o >= l \/ At(d, o) < 192 \/ e > l \/ e + m > l
             THEN [s EXCEPT !.stop = TRUE] ELSE NextAns(s, n + 1, e + m, y)
    BY <1>1, <1>5, <1>6, <1>8, <1>9 DEF NextAns, Kind, Line
  <1>11. PICK u : u = (t \/ n = N \/ o >= l \/ At(d, o) < 192 \/ e > l \/ e + m > l)
    OBVIOUS
  <1>12. /\ u => r = Ans(o, n, TRUE, x)
         /\ ~u => r = Ans(e + m, n + 1, t, y)
    <2>1. PICK f, g : f = [s EXCEPT !.stop = TRUE] /\ g = NextAns(s, n + 1, e + m, y)
      OBVIOUS
    <2>2. r = IF t \/ n = N \/ o >= l \/ At(d, o) < 192 \/ e > l \/ e + m > l THEN f ELSE g
      BY <1>10, <2>1, Zenon
    <2>3. f = Ans(o, n, TRUE, x)
      BY <1>2, <2>1, Zenon
    <2>4. g = Ans(e + m, n + 1, t, y)
      BY <1>3, <2>1, Zenon
    <2>5. (u => r = f) /\ (~u => r = g)
      BY <1>11, <2>2
    <2> QED  BY <2>3, <2>4, <2>5
  <1>13. u <=> AnsStops(d, l, N, o, n, t)
    BY <1>4, <1>5, <1>11 DEF AnsStops
  <1>14. ~u => t = FALSE
    BY <1>11
  <1>15. AnsRound(d, l, N, q, o, n, t, x, r)
    <2>1. AnsStops(d, l, N, o, n, t) => r = Ans(o, n, TRUE, x)
      BY <1>12, <1>13
    <2>2. ~AnsStops(d, l, N, o, n, t) => r = Ans(e + m, n + 1, FALSE, y)
      BY <1>12, <1>13, <1>14
    <2>3. /\ Kind(U16(d, a), U16(d, b), m) => y = Append(x, Line(q, Slice(d, e, m)))
          /\ ~Kind(U16(d, a), U16(d, b), m) => y = x
      BY <1>9
    <2> QED  BY <1>4, <1>5, <2>1, <2>2, <2>3, Zenon DEF AnsRound
  <1> QED  BY <1>4, <1>15

LEMMA AnswerTyped ==
    ASSUME NEW d, NEW w, NEW l, Reading(d, w, l), NEW st, st.qname \in Seq(Nat), NEW s \in AnsState
    PROVE  Answer(d, st, s) \in AnsState
  <1>0. l \in Nat /\ Len(d) = l
    BY DEF Reading
  <1>. l \in Nat
    BY <1>0
  <1>1. PICK o \in Nat, n \in Nat, t \in BOOLEAN, x \in Seq(AnsLine) : s = Ans(o, n, t, x)
    BY AnsIs
  <1>2. ASSUME NEW p \in Nat, NEW m \in Nat, NEW b \in BOOLEAN, NEW y \in Seq(AnsLine) PROVE Ans(p, m, b, y) \in AnsState
    BY DEF Ans, AnsState
  <1>3. PICK r, N, q : r = Answer(d, st, s) /\ N = st.ancount /\ q = st.qname
    OBVIOUS
  <1>4. AnsRound(d, l, N, q, o, n, t, x, r)
    BY <1>0, <1>1, <1>3, AnsRoundIs
  <1>5. CASE AnsStops(d, l, N, o, n, t)
    <2>1. r = Ans(o, n, TRUE, x)
      BY <1>4, <1>5 DEF AnsRound
    <2>2. TRUE \in BOOLEAN
      OBVIOUS
    <2> QED  BY <1>2, <1>3, <2>1, <2>2
  <1>6. CASE ~AnsStops(d, l, N, o, n, t)
    <2>1. o + 12 <= l /\ ~(o + 12 + U16(d, o + 10) > l)
      BY <1>6 DEF AnsStops
    <2>2. PICK m \in Nat : m = U16(d, o + 10)
      <3>1. o + 10 \in Nat /\ (o + 10) + 2 <= l
        BY <2>1
      <3> QED  BY <3>1, WordTyped
    <2>3. PICK e \in Nat : e = o + 12 /\ e + m <= l
      BY <2>1, <2>2
    <2>4. PICK y : y = Slice(d, e, m)
      OBVIOUS
    <2>5. y \in Seq(Nat)
      BY <2>3, <2>4, SliceIs DEF Piece
    <2>6. Line(q, y) \in AnsLine
      BY <1>3, <2>5 DEF Line, AnsLine
    <2>7. Append(x, Line(q, y)) \in Seq(AnsLine)
      BY <2>6, AppendProperties
    <2>8. e + m \in Nat /\ n + 1 \in Nat /\ FALSE \in BOOLEAN
      OBVIOUS
    <2>9. r = Ans(e + m, n + 1, FALSE, Append(x, Line(q, y))) \/ r = Ans(e + m, n + 1, FALSE, x)
      BY <1>4, <1>6, <2>2, <2>3, <2>4, Zenon DEF AnsRound
    <2> QED  BY <1>2, <1>3, <2>7, <2>8, <2>9
  <1> QED  BY <1>5, <1>6

\* The rounds one after the other.
AnsFold(it, d, st, base, x) ==
    it = [s \in SUBSET DOMAIN x |-> IF s = {} THEN base ELSE Answer(d, st, it[s \ {Max(s)}])]
AnsAll(d, st, base, x) == FoldLeft(LAMBDA w, i : Answer(d, st, w), base, x)

AnsWalk(v, d, st, base, M) ==
    /\ v \in [0 .. M -> AnsState] /\ v[0] = base
    /\ \A p \in 1 .. M : v[p] = Answer(d, st, v[p - 1])

AnsRuns(v, d, st, base, x, M) == AnsWalk(v, d, st, base, M) /\ AnsAll(d, st, base, x) = v[M]

LEMMA AnsSteps ==
    ASSUME NEW d, NEW w, NEW l, Reading(d, w, l), NEW st, st.qname \in Seq(Nat),
           NEW base \in AnsState, NEW x, NEW M \in Nat, DOMAIN x = 1 .. M
    PROVE  \E v : AnsRuns(v, d, st, base, x, M)
  <1> DEFINE V == AnsState
             g == [y \in V \X (1 .. M) |-> Answer(d, st, y[1])]
  <1>0. ASSUME NEW c \in V PROVE Answer(d, st, c) \in V
    BY AnswerTyped
  <1>3. base \in V
    OBVIOUS
  <1> HIDE DEF V
  <1>4. IsStep(g, M, V, base)
    BY <1>0, <1>3 DEF IsStep
  <1>5. \A c \in V, k \in 1 .. M : g[<<c, k>>] = Answer(d, st, c)
    OBVIOUS
  <1> HIDE DEF g
  <1>6. ASSUME NEW s \in SUBSET (1 .. M), s # {} PROVE Max(s) \in 1 .. M
    <2>1. s \subseteq 0 .. M
      OBVIOUS
    <2> QED  BY <1>6, <2>1, MaxIs
  <1>7. PICK h \in [SUBSET (1 .. M) -> V] : IsFold(h, M, base, g)
    BY <1>4, FoldExists
  <1>8. AnsFold(h, d, st, base, x)
    <2>1. ASSUME NEW s \in SUBSET (1 .. M), s # {}
          PROVE  h[s] = Answer(d, st, h[s \ {Max(s)}])
      <3>1. h[s \ {Max(s)}] \in V
        OBVIOUS
      <3>2. h[s] = g[<<h[s \ {Max(s)}], Max(s)>>]
        BY <1>7, <2>1 DEF IsFold
      <3> QED  BY <1>5, <1>6, <2>1, <3>1, <3>2
    <2>2. h[{}] = base
      BY <1>7 DEF IsFold
    <2> QED  BY <1>7, <2>1, <2>2 DEF AnsFold
  <1>9. PICK it : it = CHOOSE i0 : AnsFold(i0, d, st, base, x)
    OBVIOUS
  <1>10. AnsFold(it, d, st, base, x)
    BY <1>8, <1>9
  <1>11. AnsAll(d, st, base, x) = it[1 .. M]
    BY <1>9 DEF AnsAll, FoldLeft, MapThenFoldSet, AnsFold
  <1>12. it[{}] = base
    BY <1>10 DEF AnsFold
  <1>13. ASSUME NEW s \in SUBSET (1 .. M), s # {}, it[s \ {Max(s)}] \in V
         PROVE  it[s] = g[<<it[s \ {Max(s)}], Max(s)>>]
    <2>1. it[s] = Answer(d, st, it[s \ {Max(s)}])
      BY <1>10, <1>13 DEF AnsFold
    <2> QED  BY <1>5, <1>6, <1>13, <2>1
  <1>14. PICK v : IsWalk(v, M, V, base, g) /\ v[M] = it[1 .. M]
    <2>1. Unrolls(it, M, V, base, g)
      BY <1>12, <1>13 DEF Unrolls
    <2> QED  BY <1>4, <2>1, FoldSteps
  <1>15. ASSUME NEW k \in 1 .. M PROVE v[k] = Answer(d, st, v[k - 1])
    <2>1. v[k - 1] \in V
      <3>1. k - 1 \in 0 .. M
        OBVIOUS
      <3> QED  BY <1>14, <3>1 DEF IsWalk
    <2>2. v[k] = g[<<v[k - 1], k>>]
      BY <1>14 DEF IsWalk
    <2> QED  BY <1>5, <2>1, <2>2
  <1>16. v \in [0 .. M -> V] /\ v[0] = base
    BY <1>14 DEF IsWalk
  <1>17. AnsWalk(v, d, st, base, M)
    BY <1>15, <1>16 DEF V, AnsWalk
  <1> QED  BY <1>11, <1>14, <1>17 DEF AnsRuns

\* A number that is small enough is read as it is, and no other is read as it.
LEMMA SmallRead ==
    ASSUME NEW x, NEW n \in Nat, ReadAs(x, n), NEW c \in 0 .. 127
    PROVE  x = c <=> n = c
  <1>1. x \in Nat
    BY DEF ReadAs
  <1>2. PICK b \in 0 .. 255 : b = n % 256
    BY DivMod
  <1>3. CASE b < 128
    BY <1>2, <1>3 DEF ReadAs
  <1>4. CASE ~(b < 128)
    <2>1. x >= 65408
      BY <1>2, <1>4 DEF ReadAs
    <2>2. x # c
      BY <1>1, <2>1
    <2>3. n # c
      BY <1>2, <1>4
    <2> QED  BY <2>2, <2>3
  <1> QED  BY <1>3, <1>4

LEMMA KindRead ==
    ASSUME NEW f, NEW g, NEW a \in Nat, NEW b \in Nat, ReadAs(f, a), ReadAs(g, b), NEW m
    PROVE  Kind(f, g, m) <=> Kind(a, b, m)
  <1>1. (f = 1 <=> a = 1) /\ (f = 28 <=> a = 28) /\ (g = 1 <=> b = 1)
    BY SmallRead
  <1>2. ASSUME NEW y, NEW z PROVE Kind(y, z, m) <=> (y = 1 /\ z = 1 /\ m = 4) \/ (y = 28 /\ z = 1 /\ m = 16)
    BY DEF Kind
  <1> QED  BY <1>1, <1>2

\* What the first k answers say.
Told(f, as, N, q) ==
    /\ f \in [0 .. N -> Seq(AnsLine)] /\ f[0] = <<>>
    /\ \A k \in 1 .. N : f[k] = f[k - 1] \o AddressIn(as[k], q)

LEMMA AddressTyped ==
    ASSUME NEW a \in Reply, NEW q \in Seq(Nat)
    PROVE  /\ AddressIn(a, q) \in Seq(AnsLine)
           /\ Kind(a.type, a.class, Len(a.data)) => AddressIn(a, q) = <<Line(q, a.data)>>
           /\ ~Kind(a.type, a.class, Len(a.data)) => AddressIn(a, q) = <<>>
  <1>1. PICK y : y = Line(q, a.data)
    OBVIOUS
  <1>2. y \in AnsLine
    BY <1>1, ReplyTyped DEF Line, AnsLine
  <1>3. <<y>> \in Seq(AnsLine) /\ <<>> \in Seq(AnsLine)
    BY <1>2, EmptySeq
  <1>4. AddressIn(a, q) = IF Kind(a.type, a.class, Len(a.data)) THEN <<y>> ELSE <<>>
    BY <1>1, Zenon DEF AddressIn, Kind, Line
  <1> QED  BY <1>1, <1>3, <1>4

Telled(as, q) == FlattenSeq([i \in DOMAIN as |-> AddressIn(as[i], q)])

TellsAll(f, as, N, q, w) == Told(f, as, N, q) /\ f[N] = w

LEMMA TellIs ==
    ASSUME NEW as, NEW N, IsAnswers(as, N), NEW q \in Seq(Nat),
           NEW w, w = Telled(as, q)
    PROVE  \E f : TellsAll(f, as, N, q, w)
  <1>. N \in Nat
    BY DEF IsAnswers
  <1>1. PICK ss : ss = [i \in DOMAIN as |-> AddressIn(as[i], q)]
    OBVIOUS
  <1>2. DOMAIN as = 1 .. N
    BY LenProperties DEF IsAnswers
  <1>3. ASSUME NEW k \in 1 .. N PROVE ss[k] \in Seq(AnsLine) /\ ss[k] = AddressIn(as[k], q)
    <2>1. as[k] \in Reply
      BY DEF IsAnswers
    <2>2. ss[k] = AddressIn(as[k], q)
      BY <1>1, <1>2
    <2> QED  BY <2>1, <2>2, AddressTyped
  <1>4. ss \in [1 .. N -> Seq(AnsLine)]
    BY <1>1, <1>2, <1>3
  <1>5. ss \in Seq(Seq(AnsLine)) /\ Len(ss) = N
    BY <1>4, FunSeq, LenProperties
  <1>6. w = FlattenSeq(ss)
    <2>1. w = FlattenSeq([i \in DOMAIN as |-> AddressIn(as[i], q)])
      BY Zenon DEF Telled
    <2> QED  BY <1>1, <2>1, Zenon
  <1>7. CASE N = 0
    <2>1. w = <<>>
      <3>1. ss = <<>>
        BY <1>5, <1>7, EmptySeq
      <3> QED  BY <1>6, <3>1 DEF FlattenSeq
    <2>2. PICK f : f = [k \in 0 .. N |-> w]
      OBVIOUS
    <2>3. w \in Seq(AnsLine)
      BY <2>1, EmptySeq
    <2>4. f \in [0 .. N -> Seq(AnsLine)]
      BY <2>2, <2>3
    <2>5. f[0] = <<>> /\ f[N] = w
      BY <1>7, <2>1, <2>2
    <2>6. 1 .. N = {}
      BY <1>7
    <2>7. Told(f, as, N, q)
      BY <2>4, <2>5, <2>6 DEF Told
    <2> QED  BY <2>5, <2>7 DEF TellsAll
  <1>8. CASE N # 0
    <2>1. N \in Nat \ {0}
      BY <1>8
    <2>2. PICK f : EndToEnd(f, ss, N, AnsLine)
      BY <1>5, <2>1, FlattenSteps
    <2>3. /\ f \in [0 .. N -> Seq(AnsLine)] /\ f[0] = <<>> /\ f[N] = w
          /\ \A k \in 1 .. N : f[k] = f[k - 1] \o ss[k]
      BY <1>6, <2>2 DEF EndToEnd
    <2>4. Told(f, as, N, q)
      BY <1>3, <2>3 DEF Told
    <2> QED  BY <2>3, <2>4 DEF TellsAll
  <1> QED  BY <1>7, <1>8

LEMMA ToldPrefix ==
    ASSUME NEW as, NEW N, IsAnswers(as, N), NEW q \in Seq(Nat), NEW f, Told(f, as, N, q), NEW k \in 0 .. N
    PROVE  IsPrefix(f[k], f[N])
  <1>. N \in Nat
    BY DEF IsAnswers
  <1>1. \A j \in 0 .. N : f[j] \in Seq(AnsLine)
    BY DEF Told
  <1>2. PICK s : s = f[k]
    OBVIOUS
  <1>3. PICK m \in Nat : m = Len(s)
    BY <1>1, <1>2, LenProperties
  <1> DEFINE Begins(t) == m <= Len(t) /\ \A i \in 1 .. m : s[i] = t[i]
  <1> DEFINE C == {j \in 0 .. N : j < k \/ Begins(f[j])}
  <1>4. k \in C
    BY <1>2, <1>3
  <1>5. 0 \in C
    BY <1>4
  <1>6. ASSUME NEW j \in 1 .. N, j - 1 \in C PROVE j \in C
    <2>1. j < k \/ j = k \/ Begins(f[j - 1])
      BY <1>6
    <2>2. CASE Begins(f[j - 1])
      <3>0. j - 1 \in 0 .. N /\ j \in 0 .. N
        OBVIOUS
      <3>1. PICK u, y, r : u = f[j - 1] /\ y = AddressIn(as[j], q) /\ r = f[j]
        OBVIOUS
      <3>2. r = u \o y
        BY <3>1 DEF Told
      <3>3. u \in Seq(AnsLine) /\ y \in Seq(AnsLine)
        <4>1. as[j] \in Reply
          BY DEF IsAnswers
        <4> QED  BY <1>1, <3>0, <3>1, <4>1, AddressTyped
      <3>4. PICK a \in Nat, b \in Nat : a = Len(u) /\ b = Len(y)
        BY <3>3, LenProperties
      <3>5. Len(r) = a + b /\ \A i \in 1 .. a : r[i] = u[i]
        BY <3>2, <3>3, <3>4, JoinIs
      <3>6. m <= a /\ \A i \in 1 .. m : s[i] = u[i]
        BY <2>2, <3>1, <3>4
      <3>7. \A i \in 1 .. m : i \in 1 .. a
        BY <3>6
      <3>8. Begins(r)
        BY <3>5, <3>6, <3>7
      <3> QED  BY <3>0, <3>1, <3>8
    <2>3. CASE j = k
      BY <1>4, <2>3
    <2> QED  BY <2>1, <2>2, <2>3
  <1>7. \A j \in 0 .. N : j \in C
    <2> HIDE DEF C
    <2> QED  BY <1>5, <1>6, NatUp
  <1>8. N \in 0 .. N /\ ~(N < k)
    OBVIOUS
  <1>9. Begins(f[N])
    BY <1>7, <1>8
  <1> QED  BY <1>1, <1>2, <1>3, <1>8, <1>9, PrefixIs

\* What the loop over answers reads and what it makes of it.
Telling(d, x, l, as, N, B, o, e, f, q, c) ==
    /\ Reading(d, x, l) /\ IsAnswers(as, N) /\ AnswersIn(x, as, N, B, o, e) /\ o \in Nat
    /\ q \in Seq(Nat) /\ Told(f, as, N, q) /\ ReadAs(c, N)

\* The k-th answer, from b on.
AnswerAt(x, as, N, B, f, q, k, b, a, t, m, e) ==
    /\ b \in Nat /\ b = B[k - 1] /\ a = as[k] /\ a \in Reply /\ AnswerIn(x, b, a)
    /\ t \in Seq(Nat) /\ t = a.data /\ m \in Nat /\ m = Len(t)
    /\ e \in Nat /\ e = B[k] /\ (a.compressed => e = b + 12 + m)
    /\ f[k] = f[k - 1] \o AddressIn(a, q) /\ f[k - 1] \in Seq(AnsLine)

LEMMA AnswerFacts ==
    ASSUME NEW d, NEW x, NEW l, NEW as, NEW N, NEW B, NEW o, NEW e, NEW f, NEW q, NEW c,
           Telling(d, x, l, as, N, B, o, e, f, q, c), NEW k \in 1 .. N
    PROVE  \E b, a, t, m, z : AnswerAt(x, as, N, B, f, q, k, b, a, t, m, z)
  <1>1. N \in Nat /\ IsAnswers(as, N) /\ AnswersIn(x, as, N, B, o, e) /\ Told(f, as, N, q)
    BY DEF Telling, IsAnswers
  <1>2. k - 1 \in 0 .. N /\ k \in 0 .. N
    BY <1>1
  <1>3. PICK b, z : b = B[k - 1] /\ z = B[k]
    OBVIOUS
  <1>4. b \in Nat /\ z \in Nat
    BY <1>1, <1>2, <1>3 DEF AnswersIn
  <1>5. PICK a : a = as[k]
    OBVIOUS
  <1>6. a \in Reply
    BY <1>1, <1>5 DEF IsAnswers
  <1>7. PICK t, m : t = a.data /\ m = Len(t)
    OBVIOUS
  <1>8. t \in Seq(Nat) /\ m \in Nat
    BY <1>6, <1>7, ReplyTyped
  <1>9. AnswerIn(x, b, a)
    BY <1>1, <1>3, <1>5 DEF AnswersIn
  <1>10. a.compressed => z = b + 12 + m
    BY <1>1, <1>3, <1>5, <1>7 DEF AnswersIn
  <1>11. f[k] = f[k - 1] \o AddressIn(a, q)
    BY <1>1, <1>5 DEF Told
  <1>12. f[k - 1] \in Seq(AnsLine)
    BY <1>1, <1>2 DEF Told
  <1>13. AnswerAt(x, as, N, B, f, q, k, b, a, t, m, z)
    BY <1>3, <1>4, <1>5, <1>6, <1>7, <1>8, <1>9, <1>10, <1>11, <1>12 DEF AnswerAt
  <1> QED  BY <1>13

\* An answer whose fields are read: its kind and its length.
AnswerRead(d, l, b, a, m) ==
    /\ U16(d, b + 10) \in Nat /\ ReadAs(U16(d, b + 10), m)
    /\ b + 12 + U16(d, b + 10) <= l => U16(d, b + 10) = m
    /\ Kind(U16(d, b + 2), U16(d, b + 4), m) <=> Kind(a.type, a.class, m)

LEMMA LargeRead ==
    ASSUME NEW u, NEW m \in Nat, ReadAs(u, m), u # m
    PROVE  u >= 65408
  <1>1. PICK b \in 0 .. 255 : b = m % 256
    BY DivMod
  <1>2. CASE b < 128
    BY <1>1, <1>2 DEF ReadAs
  <1>3. CASE ~(b < 128)
    BY <1>1, <1>3 DEF ReadAs
  <1> QED  BY <1>2, <1>3

LEMMA AnswerIsRead ==
    ASSUME NEW d, NEW x, NEW l, Reading(d, x, l), NEW b \in Nat, NEW a \in Reply, a.compressed, AnswerIn(x, b, a),
           NEW m \in Nat, m = Len(a.data), b + 12 <= l
    PROVE  AnswerRead(d, l, b, a, m)
  <1>. l \in Nat /\ l <= 255
    BY DEF Reading
  <1>1. PICK f \in Nat, g \in Nat : f = a.type /\ g = a.class
    BY ReplyTyped
  <1>2. /\ x[b + 3] = f \div 256 /\ x[b + 4] = f % 256 /\ x[b + 5] = g \div 256 /\ x[b + 6] = g % 256
        /\ x[b + 11] = m \div 256 /\ x[b + 12] = m % 256
    BY <1>1 DEF AnswerIn
  <1>3. PICK p2 \in Nat, p4 \in Nat, p10 \in Nat : p2 = b + 2 /\ p4 = b + 4 /\ p10 = b + 10
    OBVIOUS
  <1>4. /\ p2 + 1 = b + 3 /\ p2 + 2 = b + 4 /\ p4 + 1 = b + 5 /\ p4 + 2 = b + 6
        /\ p10 + 1 = b + 11 /\ p10 + 2 = b + 12 /\ p2 + 2 <= l /\ p4 + 2 <= l /\ p10 + 2 <= l
    BY <1>3
  <1>5. ReadAs(U16(d, p2), f)
    <2>1. x[p2 + 1] = f \div 256 /\ x[p2 + 2] = f % 256
      BY <1>2, <1>4
    <2> QED  BY <1>4, <2>1, WordRead
  <1>6. ReadAs(U16(d, p4), g)
    <2>1. x[p4 + 1] = g \div 256 /\ x[p4 + 2] = g % 256
      BY <1>2, <1>4
    <2> QED  BY <1>4, <2>1, WordRead
  <1>7. ReadAs(U16(d, p10), m)
    <2>1. x[p10 + 1] = m \div 256 /\ x[p10 + 2] = m % 256
      BY <1>2, <1>4
    <2> QED  BY <1>4, <2>1, WordRead
  <1>8. PICK u : u = U16(d, p10) /\ ReadAs(u, m)
    BY <1>7
  <1>9. u \in Nat
    BY <1>8 DEF ReadAs
  <1>10. b + 12 + u <= l => u = m
    <2>1. CASE u = m
      BY <2>1
    <2>2. CASE u # m
      <3>1. u >= 65408
        BY <1>8, <2>2, LargeRead
      <3> QED  BY <1>9, <3>1
    <2> QED  BY <2>1, <2>2
  <1>11. Kind(U16(d, p2), U16(d, p4), m) <=> Kind(f, g, m)
    BY <1>5, <1>6, KindRead
  <1> QED  BY <1>1, <1>3, <1>8, <1>9, <1>10, <1>11 DEF AnswerRead

Rounded(r, as, B, f, k, h, l, c) ==
    /\ r = Ans(B[h], h, TRUE, f[h]) \/ r = Ans(B[k], k, FALSE, f[k])
    /\ as[k].compressed /\ Len(as[k].data) < 128 /\ B[k] <= l /\ h # c => r = Ans(B[k], k, FALSE, f[k])

\* A round at an answer: the loop stops, or goes on behind it.
LEMMA AnswerRound ==
    ASSUME NEW d, NEW x, NEW l, NEW as, NEW N, NEW B, NEW o, NEW e, NEW f, NEW q, NEW c,
           Telling(d, x, l, as, N, B, o, e, f, q, c), NEW k \in 1 .. N,
           NEW st, st.qname = q, st.ancount = c,
           NEW h, h = k - 1, NEW u, u = FALSE, NEW s, s = Ans(B[h], h, u, f[h]), NEW r, r = Answer(d, st, s)
    PROVE  Rounded(r, as, B, f, k, h, l, c)
  <1>1. PICK b, a, t, m, z : AnswerAt(x, as, N, B, f, q, k, b, a, t, m, z)
    BY AnswerFacts
  <1>2. /\ b \in Nat /\ b = B[k - 1] /\ a = as[k] /\ a \in Reply /\ AnswerIn(x, b, a)
        /\ t \in Seq(Nat) /\ t = a.data /\ m \in Nat /\ m = Len(t)
        /\ z \in Nat /\ z = B[k] /\ (a.compressed => z = b + 12 + m)
    BY <1>1 DEF AnswerAt
  <1>3. PICK y, w : y = f[k - 1] /\ w = f[k]
    OBVIOUS
  <1>4. w = y \o AddressIn(a, q) /\ y \in Seq(AnsLine) /\ q \in Seq(Nat)
    BY <1>1, <1>3 DEF AnswerAt, Telling
  <1>5. Reading(d, x, l) /\ l \in Nat /\ Len(d) = l /\ l <= 255
    BY DEF Telling, Reading
  <1>. b \in Nat /\ m \in Nat /\ z \in Nat /\ l \in Nat
    BY <1>2, <1>5
  <1>5a. N \in Nat
    BY DEF Telling, IsAnswers
  <1>5b. PICK p1 \in Nat : p1 = k - 1
    BY <1>5a
  <1>. h \in Nat
    BY <1>5b
  <1>5c. PICK u1 \in BOOLEAN : u1 = FALSE
    OBVIOUS
  <1>. u \in BOOLEAN
    BY <1>5c
  <1>6. h = k - 1 /\ u = FALSE
    OBVIOUS
  <1>7. s = Ans(b, h, u, y)
    BY <1>2, <1>3, <1>6
  <1>8. AnsRound(d, l, c, q, b, h, u, y, r)
    BY <1>2, <1>5, <1>7, AnsRoundIs
  <1>9. CASE AnsStops(d, l, c, b, h, u)
    <2>1. r = Ans(b, h, TRUE, y)
      BY <1>8, <1>9 DEF AnsRound
    <2>2. ASSUME a.compressed, m < 128, z <= l, h # c PROVE FALSE
      <3>1. z = b + 12 + m
        BY <1>2, <2>2
      <3>2. b + 12 <= l
        <4>1. b + 12 <= b + 12 + m
          OBVIOUS
        <4>2. PICK p \in Nat : p = b + 12 + m /\ p <= l
          BY <2>2, <3>1
        <4> QED  BY <4>1, <4>2
      <3>3. AnswerRead(d, l, b, a, m)
        BY <1>2, <1>5, <2>2, <3>2, AnswerIsRead
      <3>4. U16(d, b + 10) = m
        <4>1. m % 256 < 128
          BY <2>2
        <4> QED  BY <3>3, <4>1 DEF AnswerRead, ReadAs
      <3>5. At(d, b) = 192
        <4>1. b + 1 <= l
          BY <1>2, <1>5, <3>2
        <4>2. At(d, b) = x[b + 1]
          BY <1>2, <1>5, <4>1, ByteRead
        <4>3. x[b + 1] = 192
          BY <1>2, <2>2 DEF AnswerIn
        <4> QED  BY <4>2, <4>3
      <3>6. ~(b >= l) /\ ~(b + 12 > l) /\ ~(b + 12 + m > l)
        <4>1. b + 12 + m <= l
          BY <2>2, <3>1
        <4> QED  BY <3>2, <4>1
      <3> QED  BY <1>6, <1>9, <2>2, <3>4, <3>5, <3>6 DEF AnsStops
    <2>3. B[h] = b /\ f[h] = y
      BY <1>2, <1>3, <1>6
    <2> QED  BY <1>2, <2>1, <2>2, <2>3 DEF Rounded
  <1>10. CASE ~AnsStops(d, l, c, b, h, u)
    <2>1. ~(b >= l) /\ ~(At(d, b) < 192) /\ ~(b + 12 > l) /\ ~(b + 12 + U16(d, b + 10) > l)
      BY <1>10 DEF AnsStops
    <2>2. b + 1 <= l /\ b + 12 <= l
      BY <1>2, <1>5, <2>1
    <2>3. a.compressed
      <3>1. At(d, b) = x[b + 1]
        BY <1>2, <1>5, <2>2, ByteRead
      <3> QED  BY <1>2, <2>1, <3>1 DEF AnswerIn
    <2>4. AnswerRead(d, l, b, a, m)
      BY <1>2, <1>5, <2>2, <2>3, AnswerIsRead
    <2>5. PICK v \in Nat : v = U16(d, b + 10)
      BY <2>4 DEF AnswerRead
    <2>6. b + 12 + v <= l
      BY <1>2, <1>5, <2>1, <2>5
    <2>7. v = m
      BY <2>4, <2>5, <2>6 DEF AnswerRead
    <2>8. z = b + 12 + v
      BY <1>2, <2>3, <2>7
    <2>9. PICK g : g = Slice(d, b + 12, v)
      OBVIOUS
    <2>10. g = t
      <3>1. PICK p \in Nat : p = b + 12
        BY <1>2
      <3>2. Piece(g, x, p, v)
        BY <1>5, <2>6, <2>9, <3>1, SliceIs
      <3>3. \A j \in 1 .. m : x[p + j] = t[j]
        BY <1>2, <2>3, <3>1 DEF AnswerIn, TextIn
      <3>4. g \in Seq(Nat) /\ Len(g) = m /\ \A j \in 1 .. m : g[j] = t[j]
        BY <2>7, <3>2, <3>3 DEF Piece
      <3> QED  BY <1>2, <3>4, SeqEqual
    <2>11. PICK i : i = (Kind(U16(d, b + 2), U16(d, b + 4), m))
      OBVIOUS
    <2>12. i <=> Kind(a.type, a.class, m)
      BY <2>4, <2>11 DEF AnswerRead
    <2>13. /\ i => AddressIn(a, q) = <<Line(q, t)>>
           /\ ~i => AddressIn(a, q) = <<>>
      BY <1>2, <1>4, <2>12, AddressTyped
    <2>14. /\ i => r = Ans(z, h + 1, FALSE, Append(y, Line(q, t)))
           /\ ~i => r = Ans(z, h + 1, FALSE, y)
      BY <1>8, <1>10, <2>5, <2>7, <2>8, <2>9, <2>10, <2>11, Zenon DEF AnsRound
    <2>15. /\ i => w = Append(y, Line(q, t))
           /\ ~i => w = y
      <3>1. Append(y, Line(q, t)) = y \o <<Line(q, t)>>
        <4>1. PICK j : j = Line(q, t)
          OBVIOUS
        <4>2. Append(y, j) = y \o <<j>>
          BY <1>4
        <4> QED  BY <4>1, <4>2
      <3>2. y \o <<>> = y
        BY <1>4, ConcatEmptySeq
      <3> QED  BY <1>4, <2>13, <3>1, <3>2
    <2>16. r = Ans(z, h + 1, FALSE, w)
      BY <2>14, <2>15
    <2>17. h + 1 = k
      BY <1>6
    <2> QED  BY <1>2, <1>3, <2>16, <2>17 DEF Rounded
  <1> QED  BY <1>9, <1>10

\* Answers take eleven bytes and more.
LEMMA AnswersGrow ==
    ASSUME NEW x, NEW as, NEW N \in Nat, NEW B, NEW o \in Nat, NEW e, AnswersIn(x, as, N, B, o, e), NEW k \in 0 .. N
    PROVE  B[k] \in Nat /\ B[k] >= 11 * k
  <1>1. B \in [0 .. N -> Nat] /\ B[0] = o /\ \A j \in 1 .. N : B[j] >= B[j - 1] + 11
    BY DEF AnswersIn
  <1> DEFINE C == {j \in 0 .. N : B[j] >= 11 * j}
  <1>2. 0 \in C
    BY <1>1
  <1>3. ASSUME NEW j \in 1 .. N, j - 1 \in C PROVE j \in C
    <2>1. j \in 0 .. N /\ j - 1 \in 0 .. N
      OBVIOUS
    <2>2. PICK a \in Nat, b \in Nat : a = B[j - 1] /\ b = B[j]
      BY <1>1, <2>1
    <2>3. a >= 11 * (j - 1) /\ b >= a + 11
      BY <1>1, <1>3, <2>2
    <2> QED  BY <2>1, <2>2, <2>3
  <1>4. \A j \in 0 .. N : j \in C
    <2> HIDE DEF C
    <2> QED  BY <1>2, <1>3, NatUp
  <1> QED  BY <1>1, <1>4

\* A count of answers that is read as another one is larger than what is read has room for.
LEMMA CountRead ==
    ASSUME NEW d, NEW x, NEW l, NEW as, NEW N, NEW B, NEW o, NEW e, NEW f, NEW q, NEW c,
           Telling(d, x, l, as, N, B, o, e, f, q, c)
    PROVE  l \in Nat /\ B[N] \in Nat /\ (c = N \/ B[N] >= l + 1)
  <1>1. N \in Nat /\ l \in Nat /\ l <= 255 /\ o \in Nat /\ AnswersIn(x, as, N, B, o, e) /\ ReadAs(c, N)
    BY DEF Telling, IsAnswers, Reading
  <1>. N \in Nat /\ l \in Nat
    BY <1>1
  <1>2. B[N] \in Nat /\ B[N] >= 11 * N
    <2>1. N \in 0 .. N
      OBVIOUS
    <2> QED  BY <1>1, <2>1, AnswersGrow
  <1>3. PICK b \in 0 .. 255 : b = N % 256
    BY DivMod
  <1>4. CASE b < 128
    <2>1. c = N
      BY <1>1, <1>3, <1>4 DEF ReadAs
    <2> QED  BY <1>1, <1>2, <2>1
  <1>5. CASE ~(b < 128)
    <2>1. N >= 128
      BY <1>3, <1>5
    <2>2. B[N] >= 1408
      BY <1>2, <2>1
    <2> QED  BY <1>1, <1>2, <2>2
  <1> QED  BY <1>4, <1>5

\* A response that is read whole, in lengths that are read as they are.
Dealt(as, N, B, l) == B[N] <= l /\ \A k \in 1 .. N : as[k].compressed /\ Len(as[k].data) < 128

\* After p rounds.
AnsKept(s, as, N, B, f, l, p) ==
    \E k \in 0 .. N, t \in BOOLEAN :
        /\ s = Ans(B[k], k, t, f[k])
        /\ ~t => k = p
        /\ Dealt(as, N, B, l) /\ t => k = N

Halted(k, N, t) == t \/ k = N

Stopped(r, B, f, k) == r = Ans(B[k], k, TRUE, f[k])

LEMMA AnsKeptStops ==
    ASSUME NEW d, NEW x, NEW l, NEW as, NEW N, NEW B, NEW o, NEW e, NEW f, NEW q, NEW c,
           Telling(d, x, l, as, N, B, o, e, f, q, c), NEW k \in 0 .. N, NEW t \in BOOLEAN, Halted(k, N, t),
           NEW st, st.qname = q, st.ancount = c,
           NEW s, s = Ans(B[k], k, t, f[k]), NEW r, r = Answer(d, st, s)
    PROVE  Stopped(r, B, f, k)
  <1>1. N \in Nat /\ Len(d) = l /\ AnswersIn(x, as, N, B, o, e) /\ o \in Nat
    BY DEF Telling, IsAnswers, Reading
  <1>2. PICK b \in Nat : b = B[k]
    BY <1>1, AnswersGrow
  <1>3. PICK y : y = f[k]
    OBVIOUS
  <1>4. AnsRound(d, l, c, q, b, k, t, y, r)
    <2>1. s = Ans(b, k, t, y)
      BY <1>2, <1>3
    <2> QED  BY <1>1, <2>1, AnsRoundIs
  <1>5. AnsStops(d, l, c, b, k, t)
    <2>1. CASE t
      BY <2>1 DEF AnsStops
    <2>2. CASE k = N
      <3>1. l \in Nat /\ (c = N \/ b >= l + 1)
        BY <1>2, <2>2, CountRead
      <3>2. c = k \/ b >= l
        BY <2>2, <3>1
      <3> QED  BY <3>2 DEF AnsStops
    <2> QED  BY <2>1, <2>2 DEF Halted
  <1>6. r = Ans(b, k, TRUE, y)
    BY <1>4, <1>5 DEF AnsRound
  <1> QED  BY <1>2, <1>3, <1>6 DEF Stopped

LEMMA AnsKeptRound ==
    ASSUME NEW d, NEW x, NEW l, NEW as, NEW N, NEW B, NEW o, NEW e, NEW f, NEW q, NEW c,
           Telling(d, x, l, as, N, B, o, e, f, q, c), NEW st, st.qname = q, st.ancount = c,
           NEW p \in Nat, NEW s, AnsKept(s, as, N, B, f, l, p), NEW r, r = Answer(d, st, s)
    PROVE  AnsKept(r, as, N, B, f, l, p + 1)
  <1>1. PICK k \in 0 .. N, t \in BOOLEAN :
            /\ s = Ans(B[k], k, t, f[k])
            /\ ~t => k = p
            /\ Dealt(as, N, B, l) /\ t => k = N
    BY DEF AnsKept
  <1>2. N \in Nat /\ AnswersIn(x, as, N, B, o, e)
    BY DEF Telling, IsAnswers
  <1>3. CASE t \/ k = N
    <2>0. Halted(k, N, t)
      BY <1>3 DEF Halted
    <2>0a. s = Ans(B[k], k, t, f[k])
      BY <1>1
    <2>1. r = Ans(B[k], k, TRUE, f[k])
      <3>1. Stopped(r, B, f, k)
        BY <2>0, <2>0a, AnsKeptStops
      <3> QED  BY <3>1 DEF Stopped
    <2>2. PICK u \in BOOLEAN : u = TRUE
      OBVIOUS
    <2>3. Dealt(as, N, B, l) /\ u => k = N
      BY <1>1, <1>3
    <2> QED  BY <2>1, <2>2, <2>3 DEF AnsKept
  <1>4. CASE ~t /\ k # N
    <2>1. PICK h : h = k + 1
      OBVIOUS
    <2>2. h \in 1 .. N /\ h \in 0 .. N /\ h - 1 = k /\ h = p + 1
      BY <1>1, <1>2, <1>4, <2>1
    <2>3. PICK g, u0 : g = k /\ g = h - 1 /\ u0 = FALSE
      BY <2>2
    <2>3a. s = Ans(B[g], g, u0, f[g])
      <3>1. t = FALSE
        BY <1>4
      <3> QED  BY <1>1, <2>3, <3>1
    <2>4a. Rounded(r, as, B, f, h, g, l, c)
      BY <2>2, <2>3, <2>3a, AnswerRound
    <2>4. /\ r = Ans(B[k], k, TRUE, f[k]) \/ r = Ans(B[h], h, FALSE, f[h])
          /\ as[h].compressed /\ Len(as[h].data) < 128 /\ B[h] <= l /\ k # c => r = Ans(B[h], h, FALSE, f[h])
      BY <2>3, <2>4a DEF Rounded
    <2>5. PICK u \in BOOLEAN : u = FALSE
      OBVIOUS
    <2>6. CASE r = Ans(B[h], h, FALSE, f[h])
      <3>1. /\ r = Ans(B[h], h, u, f[h]) /\ h = p + 1 /\ ~u
        BY <2>2, <2>5, <2>6
      <3> QED  BY <2>2, <3>1 DEF AnsKept
    <2>7. CASE r # Ans(B[h], h, FALSE, f[h])
      <3>1. r = Ans(B[k], k, TRUE, f[k])
        BY <2>4, <2>7
      <3>2. ~Dealt(as, N, B, l)
        <4>1. ASSUME Dealt(as, N, B, l) PROVE FALSE
          <5>1. as[h].compressed /\ Len(as[h].data) < 128 /\ B[N] <= l
            BY <2>2, <4>1 DEF Dealt
          <5>2. l \in Nat /\ B[N] \in Nat /\ (c = N \/ B[N] >= l + 1)
            BY CountRead
          <5>3. c = N
            BY <5>1, <5>2
          <5>4. B[h] <= l
            <6>1. B[h] \in Nat /\ B[h] <= B[N]
              <7>1. o \in Nat
                BY DEF Telling
              <7>2. B[h] \in Nat
                BY <1>2, <2>2, <7>1, AnswersGrow
              <7> QED  BY <1>2, <2>2, <7>2 DEF AnswersIn
            <6> QED  BY <5>1, <5>2, <6>1
          <5> QED  BY <1>4, <2>2, <2>4, <2>7, <5>1, <5>3, <5>4
        <4> QED  BY <4>1
      <3>3. PICK z \in BOOLEAN : z = TRUE
        OBVIOUS
      <3>4. r = Ans(B[k], k, z, f[k])
        BY <3>1, <3>3
      <3> QED  BY <3>2, <3>3, <3>4 DEF AnsKept
    <2> QED  BY <2>6, <2>7
  <1> QED  BY <1>3, <1>4

Begun(s, o) == s = Ans(o, 0, FALSE, <<>>)

ToldSome(x, as, N, B, f, l, M) == \E k \in 0 .. N : x = f[k] /\ (Dealt(as, N, B, l) /\ N <= M => k = N)

LEMMA AnswersWalked ==
    ASSUME NEW d, NEW x, NEW l, NEW as, NEW N, NEW B, NEW o, NEW e, NEW f, NEW q, NEW c,
           Telling(d, x, l, as, N, B, o, e, f, q, c), NEW st, st.qname = q, st.ancount = c,
           NEW M \in Nat, NEW s, Begun(s, o), NEW v, AnsWalk(v, d, st, s, M)
    PROVE  ToldSome(v[M].lines, as, N, B, f, l, M)
  <1>. N \in Nat
    BY DEF Telling, IsAnswers
  <1> DEFINE C == {p \in 0 .. M : AnsKept(v[p], as, N, B, f, l, p)}
  <1>1. 0 \in C
    <2>1a. PICK z \in 0 .. N : z = 0
      OBVIOUS
    <2>1b. PICK u \in BOOLEAN : u = FALSE
      OBVIOUS
    <2>1. z = 0 /\ u = FALSE
      BY <2>1a, <2>1b
    <2>. z \in 0 .. N /\ u \in BOOLEAN
      BY <2>1a, <2>1b
    <2>2. B[0] = o /\ f[0] = <<>>
      BY DEF Telling, AnswersIn, Told
    <2>2a. s = Ans(o, 0, FALSE, <<>>)
      BY DEF Begun
    <2>3. s = Ans(B[z], z, u, f[z])
      BY <2>1, <2>2, <2>2a
    <2>4. AnsKept(s, as, N, B, f, l, z)
      BY <2>1, <2>3 DEF AnsKept
    <2>5. v[0] = s /\ 0 \in 0 .. M
      BY DEF AnsWalk
    <2> QED  BY <2>1, <2>4, <2>5
  <1>2. ASSUME NEW p \in 1 .. M, p - 1 \in C PROVE p \in C
    <2>1. PICK g \in Nat : g = p - 1 /\ g + 1 = p /\ p \in 0 .. M
      OBVIOUS
    <2>2. v[p] = Answer(d, st, v[g])
      BY <2>1 DEF AnsWalk
    <2>3. PICK s0, r0 : s0 = v[g] /\ r0 = v[p] /\ r0 = Answer(d, st, s0)
      BY <2>2
    <2>4. AnsKept(s0, as, N, B, f, l, g)
      BY <1>2, <2>1, <2>3
    <2>5. AnsKept(r0, as, N, B, f, l, g + 1)
      BY <2>3, <2>4, AnsKeptRound
    <2> QED  BY <2>1, <2>3, <2>5
  <1>3. \A p \in 0 .. M : p \in C
    <2> HIDE DEF C
    <2> QED  BY <1>1, <1>2, NatUp
  <1>4. M \in 0 .. M
    OBVIOUS
  <1>5. AnsKept(v[M], as, N, B, f, l, M)
    BY <1>3, <1>4
  <1>6. PICK w : w = v[M]
    OBVIOUS
  <1>7. PICK k \in 0 .. N, t \in BOOLEAN :
            /\ w = Ans(B[k], k, t, f[k])
            /\ ~t => k = M
            /\ Dealt(as, N, B, l) /\ t => k = N
    BY <1>5, <1>6 DEF AnsKept
  <1>8. w.lines = f[k]
    BY <1>7, AnsOne
  <1>9. Dealt(as, N, B, l) /\ N <= M => k = N
    BY <1>7
  <1> QED  BY <1>6, <1>8, <1>9 DEF ToldSome

\* No byte of a name is 0 or could begin a pointer.
LEMMA NameBytes ==
    ASSUME NEW labels, NEW n, IsName(labels, n), NEW x, NEW E, LabelsIn(x, 12, labels, n, E)
    PROVE  \A i \in 1 .. E[n] : x[12 + i] \in 1 .. 191
  <1>. n \in Nat
    BY DEF IsName
  <1>0. E \in [0 .. n -> Nat] /\ E[0] = 0
    BY DEF LabelsIn
  <1> DEFINE C == {k \in 0 .. n : \A i \in 1 .. E[k] : x[12 + i] \in 1 .. 191}
  <1>1. 0 \in C
    BY <1>0
  <1>2. ASSUME NEW k \in 1 .. n, k - 1 \in C PROVE k \in C
    <2>1. PICK a \in Nat, e \in Nat, b \in Nat : a = E[k - 1] /\ e = E[k] /\ b = Len(labels[k])
      <3>1. k - 1 \in 0 .. n /\ k \in 0 .. n
        OBVIOUS
      <3>2. Len(labels[k]) \in Nat
        BY DEF IsName
      <3> QED  BY <1>0, <3>1, <3>2
    <2>2. /\ e = a + 1 + b /\ b \in 1 .. 63 /\ x[12 + (a + 1)] = b
          /\ \A j \in 1 .. b : x[12 + (a + 1 + j)] \in 1 .. 191
      BY <2>1 DEF LabelsIn, IsName
    <2>3. ASSUME NEW i \in 1 .. e PROVE x[12 + i] \in 1 .. 191
      <3>1. CASE i <= a
        <4>1. i \in 1 .. a
          BY <3>1
        <4> QED  BY <1>2, <2>1, <4>1
      <3>2. CASE i = a + 1
        BY <2>2, <3>2
      <3>3. CASE i > a + 1
        <4>1. PICK j \in Nat : j = i - a - 1
          BY <3>3
        <4>2. j \in 1 .. b /\ i = a + 1 + j
          BY <2>2, <3>3, <4>1
        <4> QED  BY <2>2, <4>2
      <3> QED  BY <3>1, <3>2, <3>3
    <2> QED  BY <2>1, <2>3
  <1>3. \A k \in 0 .. n : k \in C
    <2> HIDE DEF C
    <2> QED  BY <1>1, <1>2, NatUp
  <1>4. n \in 0 .. n
    OBVIOUS
  <1> QED  BY <1>3, <1>4

\* Nor, up to the question's last byte, does any of the others.
LEMMA QuestionBytes ==
    ASSUME NEW labels, NEW n, IsName(labels, n), NEW x, NEW as, NEW N, NEW E, NEW B, NEW a, NEW e,
           ResponseIn(x, labels, n, as, N, E, B, a, e), NEW i \in 13 .. a
    PROVE  x[i] < 192
  <1>1. PICK z \in Nat : z = E[n] /\ a = z + 17
    BY DEF ResponseIn
  <1>2. LabelsIn(x, 12, labels, n, E) /\ x[a - 3] = 0 /\ x[a - 2] = 1 /\ x[a - 1] = 0 /\ x[a] = 1
    BY DEF ResponseIn
  <1>3. CASE i <= 12 + z
    <2>1. PICK j \in 1 .. z : i = 12 + j
      <3>1. i - 12 \in 1 .. z /\ i = 12 + (i - 12)
        BY <1>1, <1>3
      <3> QED  BY <3>1
    <2>2. x[12 + j] \in 1 .. 191
      BY <1>1, <1>2, <2>1, NameBytes
    <2> QED  BY <2>1, <2>2
  <1>4. CASE i = 13 + z
    <2>1. x[12 + (z + 1)] = 0
      BY <1>1, <1>2 DEF LabelsIn
    <2> QED  BY <1>4, <2>1
  <1>5. CASE i > 13 + z
    <2>1. i = a - 3 \/ i = a - 2 \/ i = a - 1 \/ i = a
      BY <1>1, <1>5
    <2> QED  BY <1>2, <2>1
  <1> QED  BY <1>1, <1>3, <1>4, <1>5

\* Where the name's loop has come to.
LEMMA NameOff ==
    ASSUME NEW D, NEW labels, NEW n, NEW E, NEW m, NEW t, NEW s, NameUpTo(s, D, labels, n, E, m, t)
    PROVE  s.off = 12 + m
  <1>1. \E q, b : s = Qn(12 + m, q, b, t)
    <2>1. CASE m = 0 /\ s = Qn(12, <<>>, 0, t)
      BY <2>1
    <2>2. ASSUME NEW k \in 1 .. n, NEW j \in Nat, LabelUpTo(s, D, labels, E, m, t, k, j)
          PROVE  \E q, b : s = Qn(12 + m, q, b, t)
      BY <2>2 DEF LabelUpTo
    <2> QED  BY <2>1, <2>2 DEF NameUpTo
  <1> QED  BY <1>1, QnOne

\* Past the byte that ends a name, or past a pointer.
Over(d, o) ==
    IF o >= Len(d) THEN 0 ELSE IF At(d, o) = 0 THEN 1 ELSE IF At(d, o) >= 192 THEN 2 ELSE 0

OverIs(d, l, o, u) ==
    /\ o >= l => u = 0
    /\ o < l /\ At(d, o) = 0 => u = 1
    /\ o < l /\ At(d, o) \in 1 .. 191 => u = 0

LEMMA OverOne ==
    ASSUME NEW d, NEW l \in Nat, Len(d) = l, NEW o \in Nat
    PROVE  OverIs(d, l, o, Over(d, o))
  <1>1. PICK u, b : u = Over(d, o) /\ b = At(d, o)
    OBVIOUS
  <1>2. u = IF o >= l THEN 0 ELSE IF b = 0 THEN 1 ELSE IF b >= 192 THEN 2 ELSE 0
    BY <1>1, Zenon DEF Over
  <1>3. b \in 1 .. 191 => b # 0 /\ ~(b >= 192)
    OBVIOUS
  <1>4. o < l => ~(o >= l)
    OBVIOUS
  <1>5. OverIs(d, l, o, u)
    BY <1>1, <1>2, <1>3, <1>4 DEF OverIs
  <1> QED  BY <1>1, <1>5

\* The question is read as it is, or what is read behind it is no answer.
Questioned(q, z, d, l, labels, E, n, a) ==
    /\ z \in Nat /\ q \in Seq(Nat)
    /\ (q = JoinLabels(labels) /\ z = a) \/ z >= l \/ At(d, z) < 192
    /\ E[n] <= NAME_ROOM /\ 12 + E[n] < l => q = JoinLabels(labels) /\ z = a

KeptAt(s, D, labels, n, E, l, p, m, t) ==
    /\ NameUpTo(s, D, labels, n, E, m, t) /\ m <= E[n]
    /\ ~t => m = p
    /\ t => m = E[n] \/ 12 + m >= l

LEMMA QuestionRead ==
    ASSUME NEW d, NEW x, NEW l, NEW labels, NEW n, NEW E, NEW D, Naming(d, x, l, labels, n, E, D),
           NEW as, NEW N, NEW B, NEW a, NEW e, ResponseIn(x, labels, n, as, N, E, B, a, e),
           NEW M, M = NAME_ROOM, NEW s, s \in QnState, NameKept(s, D, labels, n, E, l, M),
           NEW q, q = s.qname, NEW o, o = s.off, NEW z, z = o + Over(d, o) + 4
    PROVE  Questioned(q, z, d, l, labels, E, n, a)
  <1>1. PICK m \in Nat, t \in BOOLEAN : KeptAt(s, D, labels, n, E, l, M, m, t)
    BY DEF NameKept, KeptAt
  <1>1a. NameUpTo(s, D, labels, n, E, m, t)
    BY <1>1 DEF KeptAt
  <1>1b. m <= E[n] /\ (m = M \/ m = E[n] \/ 12 + m >= l)
    BY <1>1 DEF KeptAt
  <1>2. Reading(d, x, l) /\ l \in Nat /\ Len(d) = l /\ IsName(labels, n)
    BY DEF Naming, Reading
  <1>. l \in Nat
    BY <1>2
  <1>3. PICK y \in Nat : y = E[n] /\ a = y + 17 /\ m <= y
    <2>1. E[n] \in Nat /\ a = 12 + E[n] + 5
      BY DEF ResponseIn
    <2>2. PICK y \in Nat : y = E[n]
      BY <2>1
    <2> QED  BY <1>1b, <2>1, <2>2
  <1>. y \in Nat
    BY <1>3
  <1>4. o = 12 + m
    BY <1>1a, NameOff
  <1>5. PICK u : u = Over(d, o)
    OBVIOUS
  <1>6. OverIs(d, l, o, u)
    BY <1>2, <1>4, <1>5, OverOne
  <1>7. q \in Seq(Nat)
    BY DEF QnState
  <1>8. M \in Nat
    BY PacketSizesAssumption
  <1>9. CASE o >= l
    <2>1. u = 0
      BY <1>6, <1>9 DEF OverIs
    <2>2. z = o + 4 /\ z \in Nat /\ z >= l
      BY <1>4, <1>5, <1>9, <2>1
    <2>3. ~(E[n] <= NAME_ROOM /\ 12 + E[n] < l)
      <3>1. 12 + y >= l
        BY <1>3, <1>4, <1>9
      <3>2. ~(12 + y < l)
        BY <3>1
      <3> QED  BY <1>3, <3>2
    <2> QED  BY <1>7, <2>2, <2>3 DEF Questioned
  <1>10. CASE o < l /\ m = y
    <2>1. s = Qn(12 + m, JoinLabels(labels), 0, t)
      <3>1. m = E[n]
        BY <1>3, <1>10
      <3> QED  BY <1>1a, <3>1, NameEnds
    <2>2. q = JoinLabels(labels)
      BY <2>1, QnOne
    <2>3. At(d, o) = 0
      <3>1. x[12 + (y + 1)] = 0
        BY <1>3 DEF ResponseIn, LabelsIn
      <3>2. o \in Nat /\ o + 1 <= l /\ o + 1 = 12 + (y + 1)
        BY <1>4, <1>10
      <3>3. At(d, o) = x[o + 1]
        BY <1>2, <3>2, ByteRead
      <3> QED  BY <3>1, <3>2, <3>3
    <2>4. u = 1
      BY <1>6, <1>10, <2>3 DEF OverIs
    <2>5. z = a /\ z \in Nat
      BY <1>3, <1>4, <1>5, <1>10, <2>4
    <2> QED  BY <1>7, <2>2, <2>5 DEF Questioned
  <1>11. CASE o < l /\ m < y
    <2>1. m = M
      <3>1. m # E[n] /\ ~(12 + m >= l)
        BY <1>3, <1>4, <1>11
      <3> QED  BY <1>1b, <3>1
    <2>2. ~(E[n] <= NAME_ROOM)
      BY <1>3, <1>8, <1>11, <2>1
    <2>3. u = 0
      <3>1. m + 1 \in 1 .. y /\ o \in Nat /\ o + 1 <= l /\ o + 1 = 12 + (m + 1)
        BY <1>4, <1>11
      <3>2. LabelsIn(x, 12, labels, n, E)
        BY DEF ResponseIn
      <3>3. x[12 + (m + 1)] \in 1 .. 191
        BY <1>2, <1>3, <3>1, <3>2, NameBytes
      <3>4. At(d, o) = x[o + 1]
        BY <1>2, <3>1, ByteRead
      <3>5. At(d, o) \in 1 .. 191
        BY <3>1, <3>3, <3>4
      <3> QED  BY <1>6, <1>11, <3>5 DEF OverIs
    <2>4. z = m + 16 /\ z \in Nat
      BY <1>4, <1>5, <2>3
    <2>5. z >= l \/ At(d, z) < 192
      <3>1. CASE z < l
        <4>1. z + 1 <= l /\ z + 1 \in 13 .. a
          BY <1>3, <1>11, <2>4, <3>1
        <4>2. x[z + 1] < 192
          BY <1>2, <4>1, QuestionBytes
        <4>3. At(d, z) = x[z + 1]
          BY <1>2, <2>4, <4>1, ByteRead
        <4> QED  BY <4>2, <4>3
      <3>2. CASE z >= l
        BY <3>2
      <3> QED  BY <2>4, <3>1, <3>2
    <2> QED  BY <1>7, <2>2, <2>4, <2>5 DEF Questioned
  <1> QED  BY <1>3, <1>4, <1>9, <1>10, <1>11

\* The loop over the name, from its first round.
LEMMA NameRuns ==
    ASSUME NEW d, NEW x, NEW l, NEW labels, NEW n, NEW E, NEW D, Naming(d, x, l, labels, n, E, D),
           NEW M, M = NAME_ROOM, NEW b, b = Qn(12, <<>>, 0, FALSE), NEW y, DOMAIN y = 1 .. M,
           NEW s, s = QnAll(d, b, y)
    PROVE  s \in QnState /\ NameKept(s, D, labels, n, E, l, M)
  <1>1. M \in Nat /\ M <= NAME_ROOM
    BY PacketSizesAssumption
  <1>2. b \in QnState
    <2>1. <<>> \in Seq(Nat)
      OBVIOUS
    <2> QED  BY <2>1 DEF Qn, QnState
  <1>3. Reading(d, x, l)
    BY DEF Naming
  <1>4. PICK v : QnRuns(v, d, b, y, M)
    BY <1>1, <1>2, <1>3, QnSteps
  <1>5. QnWalk(v, d, b, M) /\ s = v[M]
    BY <1>4 DEF QnRuns
  <1>6. v[M] \in QnState
    <2>1. M \in 0 .. M
      BY <1>1
    <2> QED  BY <1>5, <2>1 DEF QnWalk
  <1>7. NameKept(v[M], D, labels, n, E, l, M)
    BY <1>1, <1>5, NameWalked
  <1> QED  BY <1>5, <1>6, <1>7

\* A loop that begins where there is no answer tells of none.
LEMMA NothingTold ==
    ASSUME NEW d, NEW l \in Nat, Len(d) = l, NEW st, NEW z \in Nat, z >= l \/ At(d, z) < 192,
           NEW M \in Nat, NEW s, Begun(s, z), NEW v, AnsWalk(v, d, st, s, M)
    PROVE  v[M].lines = <<>>
  <1> DEFINE C == {p \in 0 .. M : \E t \in BOOLEAN : v[p] = Ans(z, 0, t, <<>>)}
  <1>1. 0 \in C
    <2>1. PICK t \in BOOLEAN : t = FALSE
      OBVIOUS
    <2>2. v[0] = Ans(z, 0, t, <<>>)
      BY <2>1 DEF AnsWalk, Begun
    <2>3. 0 \in 0 .. M
      OBVIOUS
    <2> QED  BY <2>2, <2>3
  <1>2. ASSUME NEW p \in 1 .. M, p - 1 \in C PROVE p \in C
    <2>1. PICK g : g = p - 1
      OBVIOUS
    <2>2. PICK t \in BOOLEAN : v[g] = Ans(z, 0, t, <<>>)
      BY <1>2, <2>1
    <2>3. PICK r, f, q, c, y, i : /\ r = Answer(d, st, f) /\ f = v[g] /\ q = st.qname /\ c = st.ancount
                                  /\ y = <<>> /\ i = 0
      OBVIOUS
    <2>4. v[p] = r
      BY <2>1, <2>3 DEF AnsWalk
    <2>5. f = Ans(z, i, t, y)
      BY <2>2, <2>3
    <2>6. AnsRound(d, l, c, q, z, i, t, y, r)
      BY <2>3, <2>5, AnsRoundIs
    <2>7. AnsStops(d, l, c, z, i, t)
      BY DEF AnsStops
    <2>8. r = Ans(z, i, TRUE, y)
      BY <2>6, <2>7 DEF AnsRound
    <2>9. PICK u \in BOOLEAN : u = TRUE
      OBVIOUS
    <2>10. v[p] = Ans(z, 0, u, <<>>)
      BY <2>3, <2>4, <2>8, <2>9
    <2> QED  BY <2>10
  <1>3. \A p \in 0 .. M : p \in C
    <2> HIDE DEF C
    <2> QED  BY <1>1, <1>2, NatUp
  <1>4. M \in 0 .. M
    OBVIOUS
  <1>5. PICK t \in BOOLEAN : v[M] = Ans(z, 0, t, <<>>)
    BY <1>3, <1>4
  <1> QED  BY <1>5, AnsOne

\* What a response says, in the lemmas' terms.
LEMMA ResponseTyped ==
    ASSUME NEW r, IsResponse(r)
    PROVE  \E n, N : IsName(r.labels, n) /\ IsAnswers(r.answers, N)
  <1>1. PICK n : n = Len(r.labels)
    OBVIOUS
  <1>2. PICK N : N = Len(r.answers)
    OBVIOUS
  <1>3. IsName(r.labels, n)
    <2>1. PICK s : s = r.labels
      OBVIOUS
    <2>2. s \in Seq(Seq(1 .. 191)) /\ \A l \in Range(s) : Len(l) \in 1 .. 63
      BY <2>1 DEF IsResponse
    <2>3. n \in Nat /\ DOMAIN s = 1 .. n
      BY <1>1, <2>1, <2>2, LenProperties
    <2>4. ASSUME NEW k \in 1 .. n
          PROVE  /\ s[k] \in Seq(Nat) /\ Len(s[k]) \in 1 .. 63
                 /\ \A j \in 1 .. Len(s[k]) : s[k][j] \in 1 .. 191
      <3>1. PICK l : l = s[k]
        OBVIOUS
      <3>2. l \in Seq(1 .. 191)
        BY <2>2, <2>3, <3>1, ElementOfSeq, LenProperties
      <3>3. l \in Range(s)
        BY <2>3, <3>1 DEF Range
      <3>4. Len(l) \in 1 .. 63
        BY <2>2, <3>3
      <3>5. \A j \in 1 .. Len(l) : l[j] \in 1 .. 191
        BY <3>2, ElementOfSeq
      <3>6. l \in Seq(Nat)
        <4>1. PICK m \in Nat : m = Len(l)
          BY <3>2, LenProperties
        <4>2. \A j \in 1 .. m : l[j] \in Nat
          <5>1. ASSUME NEW j \in 1 .. m PROVE l[j] \in Nat
            <6>1. j \in 1 .. Len(l)
              BY <4>1
            <6>2. l[j] \in 1 .. 191
              BY <3>5, <6>1
            <6> QED  BY <6>2
          <5> QED  BY <5>1
        <4>3. l \in [1 .. m -> Nat]
          BY <3>2, <4>1, <4>2, LenProperties
        <4> QED  BY <4>3, FunSeq
      <3> QED  BY <3>1, <3>4, <3>5, <3>6
    <2>5. s \in Seq(Seq(Nat))
      <3>1. \A k \in 1 .. n : s[k] \in Seq(Nat)
        BY <2>4
      <3> QED  BY <2>2, <2>3, <3>1, SeqDef, LenProperties
    <2>6. Len(s) = n
      BY <1>1, <2>1
    <2> QED  BY <2>1, <2>3, <2>4, <2>5, <2>6 DEF IsName
  <1>4. IsAnswers(r.answers, N)
    <2>1. PICK s : s = r.answers
      OBVIOUS
    <2>2. s \in Seq(Reply)
      BY <2>1 DEF IsResponse, Reply
    <2>3. N \in Nat /\ Len(s) = N
      BY <1>2, <2>1, <2>2, LenProperties
    <2>4. \A k \in 1 .. N : s[k] \in Reply
      BY <2>2, <2>3, ElementOfSeq
    <2> QED  BY <2>1, <2>2, <2>3, <2>4 DEF IsAnswers
  <1> QED  BY <1>3, <1>4

\* A receiver's buffer that the message fits into.
LEMMA ReceivedIs ==
    ASSUME NEW r, NEW w \in Seq(Nat), w = r.bytes, NEW y \in Nat, y = Len(w), NEW b \in Nat, b = r.buf, y <= b,
           r.old \in Octet, NEW x, x = Received(r)
    PROVE  x \in Seq(Nat) /\ Len(x) = b /\ Starts(x, w, y)
  <1>1. PICK u : u = Cut(w, b)
    OBVIOUS
  <1>2. PICK l \in Nat : CutTo(u, w, y, b, l)
    BY <1>1, CutAt
  <1>3. l = y /\ u \in Seq(Nat) /\ Len(u) = y /\ Starts(u, w, y)
    BY <1>2 DEF CutTo
  <1>4. Min({b, y}) = y
    BY MinOfTwo
  <1>5a. PICK o \in Nat, m \in Nat : o = r.old /\ m = b - y
    <2>1. r.old \in Nat
      <3>1. Octet \subseteq Nat
        BY DEF Octet
      <3> QED  BY <3>1
    <2>2. PICK m \in Nat : m = b - y
      OBVIOUS
    <2> QED  BY <2>1, <2>2
  <1>5. PICK t : o = r.old /\ m = b - y /\ t = [i \in 1 .. m |-> o]
    BY <1>5a
  <1>6. t \in Seq(Nat) /\ Len(t) = m
    <2>1. t \in [1 .. m -> Nat]
      BY <1>5, <1>5a
    <2> QED  BY <1>5a, <2>1, FunSeq, LenProperties
  <1>7. x = u \o t
    <2>1. x = Cut(w, b) \o [i \in 1 .. b - Min({b, Len(w)}) |-> r.old]
      BY DEF Received
    <2> QED  BY <1>1, <1>4, <1>5, <2>1
  <1>8. x \in Seq(Nat) /\ Len(x) = y + m /\ \A i \in 1 .. y : x[i] = u[i]
    <2>1. Joined(x, u, y, t, m)
      BY <1>3, <1>5a, <1>6, <1>7, Joins
    <2> QED  BY <2>1 DEF Joined
  <1>9. y + m = b
    BY <1>5a
  <1> QED  BY <1>3, <1>8, <1>9 DEF Starts

\* What is read at all is read of a message that was received whole.
LEMMA ReadableIs ==
    ASSUME NEW r, NEW w, w = r.bytes, NEW y \in Nat, y = Len(w), NEW b \in Nat, b = r.buf, NEW n, n = ReadableLen(r)
    PROVE  n \in Nat /\ (n >= 12 => y <= b)
  <1>1. PICK m \in Nat : m = Min({b, y}) /\ m <= b /\ m <= y /\ (m = b \/ m = y)
    BY MinOfTwo
  <1>2. CASE r.iter = "ubuf"
    <2>1. n = b - m
      BY <1>1, <1>2 DEF ReadableLen
    <2> QED  BY <1>1, <2>1
  <1>3. CASE r.iter # "ubuf"
    <2>1. n = IF y < b THEN b ELSE 0
      BY <1>3 DEF ReadableLen
    <2> QED  BY <2>1
  <1> QED  BY <1>2, <1>3

\* The two programs, in the lemmas' terms.
QnameOf(d) == QnAll(d, Qn(12, <<>>, 0, FALSE), [i \in 1 .. NAME_ROOM |-> i])
State(d) ==
    [tail |-> TRUE, qname |-> QnameOf(d).qname, off |-> QnameOf(d).off + Over(d, QnameOf(d).off) + 4,
     ancount |-> U16(d, 6)]

LEMMA ParseQnameIs ==
    ASSUME NEW x, NEW len, NEW d, d = Read(x, len)
    PROVE  ParseQname(x, len) = IF len < 12 \/ At(d, 2) < 128 \/ U16(d, 4) # 1 \/ U16(d, 6) = 0
                                THEN [tail |-> FALSE] ELSE State(d)
  <1>1. ParseQname(x, len) =
            IF \/ len < 12 \/ At(Read(x, len), 2) < 128 \/ U16(Read(x, len), 4) # 1
               \/ U16(Read(x, len), 6) = 0
            THEN [tail |-> FALSE] ELSE State(Read(x, len))
    BY Zenon DEF ParseQname, State, QnameOf, QnAll, Qn, Over
  <1> QED  BY <1>1, Zenon

AnswersOf(d, st) == AnsAll(d, st, Ans(st.off, 0, FALSE, <<>>), [i \in 1 .. MAX_ANSWERS |-> i]).lines

LEMMA ParseAnswersIs ==
    ASSUME NEW x, NEW len, NEW d, d = Read(x, len), NEW st
    PROVE  ParseAnswers(x, len, st) = AnswersOf(d, st)
  <1>1. ParseAnswers(x, len, st) = AnswersOf(Read(x, len), st)
    BY Zenon DEF ParseAnswers, AnswersOf, AnsAll, Ans
  <1> QED  BY <1>1, Zenon

\* A response of y bytes, of which l are read.
Opened(d, x, l, labels, n, as, N, E, B, a, y) ==
    /\ Reading(d, x, l) /\ l >= 12 /\ IsName(labels, n) /\ IsAnswers(as, N)
    /\ ResponseIn(x, labels, n, as, N, E, B, a, y) /\ a \in Nat /\ y \in Nat

Stated(st, q, z, c) == st.qname = q /\ st.off = z /\ st.ancount = c

LEMMA OpenedName ==
    ASSUME NEW d, NEW x, NEW l, NEW labels, NEW n, NEW as, NEW N, NEW E, NEW B, NEW a, NEW y,
           Opened(d, x, l, labels, n, as, N, E, B, a, y)
    PROVE  /\ \E D : Naming(d, x, l, labels, n, E, D)
           /\ JoinLabels(labels) \in Seq(Nat)
           /\ Len(JoinLabels(labels)) < NAME_ROOM => E[n] <= NAME_ROOM
  <1>1. IsName(labels, n) /\ LabelsIn(x, 12, labels, n, E) /\ Reading(d, x, l)
    BY DEF Opened, ResponseIn
  <1>2. /\ E \in [0 .. n -> Nat] /\ E[0] = 0
        /\ \A k \in 1 .. n : E[k] = E[k - 1] + 1 + Len(labels[k])
    BY <1>1 DEF LabelsIn
  <1>3. PICK D : Spelled(D, labels, n, E)
    BY <1>1, <1>2, NameSpelled
  <1>4. n \in Nat /\ n \in 0 .. n
    BY <1>1 DEF IsName
  <1>5. Naming(d, x, l, labels, n, E, D)
    BY <1>1, <1>3 DEF Naming
  <1>6. PICK j : j = JoinLabels(labels)
    OBVIOUS
  <1>7. D[n] = j /\ j \in Seq(Nat) /\ (n > 0 => Len(j) + 1 = E[n])
    BY <1>3, <1>4, <1>6 DEF Spelled
  <1>8. Len(j) < NAME_ROOM => E[n] <= NAME_ROOM
    <2>1. NAME_ROOM \in Nat /\ NAME_ROOM >= 1
      BY PacketSizesAssumption
    <2>2. PICK m \in Nat, e \in Nat : m = Len(j) /\ e = E[n]
      BY <1>2, <1>4, <1>7, LenProperties
    <2>3. CASE n = 0
      BY <1>2, <2>1, <2>3
    <2>4. CASE n > 0
      BY <1>7, <2>1, <2>2, <2>4
    <2> QED  BY <1>4, <2>3, <2>4
  <1> QED  BY <1>5, <1>6, <1>7, <1>8

LEMMA QuestionOpened ==
    ASSUME NEW d, NEW x, NEW l, NEW labels, NEW n, NEW as, NEW N, NEW E, NEW B, NEW a, NEW y,
           Opened(d, x, l, labels, n, as, N, E, B, a, y), NEW st, st = State(d)
    PROVE  \E q, z, c : Stated(st, q, z, c) /\ Questioned(q, z, d, l, labels, E, n, a) /\ ReadAs(c, N)
  <1>1. PICK D : Naming(d, x, l, labels, n, E, D)
    BY OpenedName
  <1>2. PICK M, s, b, t : /\ M = NAME_ROOM /\ s = QnameOf(d) /\ b = Qn(12, <<>>, 0, FALSE)
                          /\ t = [i \in 1 .. M |-> i]
    OBVIOUS
  <1>3. s = QnAll(d, b, t) /\ DOMAIN t = 1 .. M
    BY <1>2 DEF QnameOf
  <1>4. s \in QnState /\ NameKept(s, D, labels, n, E, l, M)
    BY <1>1, <1>2, <1>3, NameRuns
  <1>5. PICK q, o, z, c : q = s.qname /\ o = s.off /\ z = o + Over(d, o) + 4 /\ c = U16(d, 6)
    OBVIOUS
  <1>6. ResponseIn(x, labels, n, as, N, E, B, a, y)
    BY DEF Opened
  <1>7. Questioned(q, z, d, l, labels, E, n, a)
    BY <1>1, <1>2, <1>4, <1>5, <1>6, QuestionRead
  <1>8. Stated(st, q, z, c)
    <2>1. st = [tail |-> TRUE, qname |-> QnameOf(d).qname, off |-> QnameOf(d).off + Over(d, QnameOf(d).off) + 4,
                ancount |-> U16(d, 6)]
      BY DEF State
    <2>2. st = [tail |-> TRUE, qname |-> q, off |-> z, ancount |-> c]
      BY <1>2, <1>5, <2>1, Zenon
    <2> QED  BY <2>2 DEF Stated
  <1>9. ReadAs(c, N)
    <2>1. PICK i \in Nat : i = 6
      OBVIOUS
    <2>2. Reading(d, x, l) /\ l \in Nat /\ l >= 12 /\ N \in Nat
      BY DEF Opened, Reading, IsAnswers
    <2>3. x[i + 1] = N \div 256 /\ x[i + 2] = N % 256
      <3>1. x[7] = N \div 256 /\ x[8] = N % 256
        BY <1>6 DEF ResponseIn
      <3>2. i + 1 = 7 /\ i + 2 = 8
        BY <2>1
      <3> QED  BY <3>1, <3>2
    <2>4. i + 2 <= l
      BY <2>1, <2>2
    <2>5. ReadAs(U16(d, i), N)
      BY <2>2, <2>3, <2>4, WordRead
    <2> QED  BY <1>5, <2>1, <2>5
  <1> QED  BY <1>7, <1>8, <1>9

\* Nothing is left out of what fits.
Fits(labels, as, N, y, l) ==
    /\ y <= l /\ Len(JoinLabels(labels)) < NAME_ROOM /\ N <= MAX_ANSWERS
    /\ \A k \in 1 .. N : as[k].compressed /\ Len(as[k].data) < 128

Shown(F, w, labels, as, N, y, l) == IsPrefix(F, w) /\ (Fits(labels, as, N, y, l) => F = w)

\* The shortest is of seventeen bytes, a name's end and a question.
LEMMA ResponseLong ==
    ASSUME NEW x, NEW labels, NEW n, NEW as, NEW N, IsAnswers(as, N), NEW E, NEW B, NEW a, NEW y,
           ResponseIn(x, labels, n, as, N, E, B, a, y)
    PROVE  a \in Nat /\ y \in Nat /\ a >= 17 /\ a <= y
  <1>1. N \in Nat /\ AnswersIn(x, as, N, B, a, y) /\ E[n] \in Nat /\ a = 12 + E[n] + 5
    BY DEF IsAnswers, ResponseIn
  <1>2. a \in Nat /\ a >= 17
    <2>1. PICK z \in Nat : z = E[n]
      BY <1>1
    <2> QED  BY <1>1, <2>1
  <1>3. y \in Nat
    BY <1>1 DEF AnswersIn
  <1>4. CASE N = 0
    BY <1>1, <1>2, <1>3, <1>4 DEF AnswersIn
  <1>5. CASE N # 0
    <2>1. 1 \in 1 .. N /\ 1 - 1 = 0 /\ 1 \in 0 .. N
      BY <1>1, <1>5
    <2>2. B[1] >= B[0] + 11 /\ B[1] <= y /\ B[0] = a /\ B[1] \in Nat
      BY <1>1, <2>1 DEF AnswersIn
    <2> QED  BY <1>2, <1>3, <2>2
  <1> QED  BY <1>4, <1>5

LEMMA AnswersOpened ==
    ASSUME NEW d, NEW x, NEW l, NEW labels, NEW n, NEW as, NEW N, NEW E, NEW B, NEW a, NEW y,
           Opened(d, x, l, labels, n, as, N, E, B, a, y),
           NEW st, NEW q, NEW z, NEW c, Stated(st, q, z, c), Questioned(q, z, d, l, labels, E, n, a), ReadAs(c, N),
           NEW w, w = Telled(as, JoinLabels(labels)),
           NEW F, F = AnswersOf(d, st)
    PROVE  Shown(F, w, labels, as, N, y, l)
  <1>1. PICK p : p = JoinLabels(labels)
    OBVIOUS
  <1>2. p \in Seq(Nat) /\ (Len(p) < NAME_ROOM => E[n] <= NAME_ROOM)
    BY <1>1, OpenedName
  <1>3. PICK f : Told(f, as, N, p) /\ f[N] = w
    <2>1. IsAnswers(as, N) /\ w = Telled(as, p)
      BY <1>1 DEF Opened
    <2>2. p \in Seq(Nat)
      BY <1>2
    <2>3. \E f : TellsAll(f, as, N, p, w)
      BY <2>1, <2>2, TellIs
    <2> QED  BY <2>3 DEF TellsAll
  <1>4. /\ Reading(d, x, l) /\ l \in Nat /\ Len(d) = l /\ IsAnswers(as, N) /\ N \in Nat /\ a \in Nat /\ y \in Nat
        /\ AnswersIn(x, as, N, B, a, y) /\ E[n] \in Nat /\ a = 12 + E[n] + 5
    BY DEF Opened, Reading, IsAnswers, ResponseIn
  <1>5. z \in Nat /\ q \in Seq(Nat)
    BY DEF Questioned
  <1>6. PICK M, s, t : M = MAX_ANSWERS /\ s = Ans(z, 0, FALSE, <<>>) /\ t = [i \in 1 .. M |-> i]
    OBVIOUS
  <1>7. M \in Nat
    BY <1>6, PacketSizesAssumption
  <1>8. s \in AnsState
    <2>1. <<>> \in Seq(AnsLine)
      OBVIOUS
    <2> QED  BY <1>5, <1>6, <2>1 DEF Ans, AnsState
  <1>9. st.qname = q /\ st.ancount = c /\ st.off = z
    BY DEF Stated
  <1>10. F = AnsAll(d, st, s, t).lines
    BY <1>6, <1>9, Zenon DEF AnswersOf
  <1>11. DOMAIN t = 1 .. M
    BY <1>6
  <1>12. PICK v : AnsRuns(v, d, st, s, t, M)
    <2>1. st.qname \in Seq(Nat)
      BY <1>5, <1>9
    <2> QED  BY <1>4, <1>7, <1>8, <1>11, <2>1, AnsSteps
  <1>13. AnsWalk(v, d, st, s, M) /\ F = v[M].lines
    BY <1>10, <1>12 DEF AnsRuns
  <1>14. CASE q = p /\ z = a
    <2>1. Telling(d, x, l, as, N, B, a, y, f, q, c)
      BY <1>3, <1>4, <1>5, <1>14 DEF Telling
    <2>2. Begun(s, a)
      BY <1>6, <1>14 DEF Begun
    <2>3a. ToldSome(v[M].lines, as, N, B, f, l, M)
      BY <1>7, <1>9, <1>13, <2>1, <2>2, AnswersWalked
    <2>3. PICK k \in 0 .. N : v[M].lines = f[k] /\ (Dealt(as, N, B, l) /\ N <= M => k = N)
      BY <2>3a DEF ToldSome
    <2>4. IsPrefix(F, w)
      <3>1. IsPrefix(f[k], f[N])
        BY <1>2, <1>3, <1>4, <2>3, ToldPrefix
      <3> QED  BY <1>3, <1>13, <2>3, <3>1
    <2>5. ASSUME Fits(labels, as, N, y, l) PROVE F = w
      <3>1. B[N] <= l
        BY <1>4, <2>5 DEF Fits, AnswersIn
      <3>2. Dealt(as, N, B, l)
        BY <2>5, <3>1 DEF Fits, Dealt
      <3>3. N <= M
        BY <1>6, <2>5 DEF Fits
      <3> QED  BY <1>3, <1>13, <2>3, <3>2, <3>3
    <2> QED  BY <2>4, <2>5 DEF Shown
  <1>15. CASE ~(q = p /\ z = a)
    <2>1. z >= l \/ At(d, z) < 192
      BY <1>1, <1>15 DEF Questioned
    <2>2. F = <<>>
      <3>1. Begun(s, z)
        BY <1>6 DEF Begun
      <3> QED  BY <1>4, <1>5, <1>7, <1>13, <2>1, <3>1, NothingTold
    <2>3. IsPrefix(F, w)
      <3>1. PICK k \in 0 .. N : k = 0
        BY <1>4
      <3>2. IsPrefix(f[k], f[N])
        BY <1>2, <1>3, <1>4, ToldPrefix
      <3>3. f[0] = <<>>
        BY <1>3 DEF Told
      <3> QED  BY <1>3, <2>2, <3>1, <3>2, <3>3
    <2>4. ASSUME Fits(labels, as, N, y, l) PROVE FALSE
      <3>1. E[n] <= NAME_ROOM
        BY <1>1, <1>2, <2>4 DEF Fits
      <3>2. a <= y
        <4>1. ResponseIn(x, labels, n, as, N, E, B, a, y)
          BY DEF Opened
        <4> QED  BY <1>4, <4>1, ResponseLong
      <3>3. 12 + E[n] < l
        <4>1. y <= l
          BY <2>4 DEF Fits
        <4> QED  BY <1>4, <3>2, <4>1
      <3> QED  BY <1>1, <1>15, <3>1, <3>3 DEF Questioned
    <2> QED  BY <2>3, <2>4 DEF Shown
  <1> QED  BY <1>14, <1>15

LEMMA ResponseBytes ==
    ASSUME NEW r, NEW n, IsName(r.labels, n), NEW N, IsAnswers(r.answers, N), NEW w, w = DnsBytes(r)
    PROVE  w \in Seq(Nat)
  <1>1. N \in Nat /\ N = Len(r.answers)
    BY DEF IsAnswers
  <1>2. PICK L, W : L = LabelsBytes(r.labels) /\ W = AnswersBytes(r.answers, r.labels)
    OBVIOUS
  <1>3. PICK y, E : LabelsOf(L, y, r.labels, n, E)
    BY <1>2, LabelsLaid
  <1>4. PICK ss, A : Replies(ss, r.answers, r.labels, N) /\ Laid(W, A, ss, N)
    BY <1>2, RepliesAre
  <1>5. L \in Seq(Nat) /\ y \in Nat /\ Len(L) = y /\ W \in Seq(Nat)
    BY <1>3, <1>4 DEF LabelsOf, Laid
  <1>6. PICK z \in Nat : z = Len(W)
    BY <1>5, LenProperties
  <1>7. PICK h, b, c, t : h = <<0, 0, 129, 128, 0, 1>> /\ b = TwoBytes(N) /\ c = Zeros(4) /\ t = <<0, 1, 0, 1>>
    OBVIOUS
  <1>8. Response(w, h, b, c, L, t, W, y, z)
    <2>1. Fixed(h, c, t) /\ b = TwoBytes(N)
      BY <1>7 DEF Fixed
    <2> QED  BY <1>1, <1>2, <1>5, <1>6, <2>1, ResponseJoined
  <1> QED  BY <1>8 DEF Response, Joined

\* What is read of a response that was received whole.
LEMMA ResponseRead ==
    ASSUME NEW r, IsResponse(r), NEW n, IsName(r.labels, n), NEW N, IsAnswers(r.answers, N),
           NEW w, w = DnsBytes(r), NEW y \in Nat, y = Len(w), y <= r.buf,
           NEW x, x = Received(r), NEW len \in Nat, len >= 12, NEW d, d = Read(x, len)
    PROVE  \E l, E, B, a : /\ Opened(d, x, l, r.labels, n, r.answers, N, E, B, a, y)
                           /\ y <= len /\ y <= MAX_READ => y <= l
  <1>1. w \in Seq(Nat)
    BY ResponseBytes
  <1>2. PICK b \in Nat : b = r.buf
    BY DEF IsResponse
  <1>3. x \in Seq(Nat) /\ Len(x) = b /\ Starts(x, w, y)
    <2>1. w = r.bytes /\ r.old \in Octet /\ y <= b
      BY <1>2 DEF IsResponse
    <2> QED  BY <1>1, <1>2, <2>1, ReceivedIs
  <1>4. PICK s, as : s = r.labels /\ as = r.answers
    OBVIOUS
  <1>5. IsName(s, n) /\ IsAnswers(as, N)
    BY <1>4
  <1>6. PICK E, B, a : ResponseIn(x, s, n, as, N, E, B, a, y) /\ a \in Nat /\ w \in Seq(Nat)
    BY <1>3, <1>4, <1>5, ResponseFound
  <1>7. PICK l \in Nat : Got(d, x, b, len, l)
    BY <1>2, <1>3, ReadIs
  <1>8. Reading(d, x, l) /\ (l = b \/ l = len \/ l = MAX_READ)
    BY <1>7 DEF Got
  <1>9. MAX_READ \in Nat /\ MAX_READ >= 12
    BY PacketSizesAssumption
  <1>10. y >= 17 /\ y <= b
    <2>1. a >= 17 /\ a <= y /\ a \in Nat
      BY <1>5, <1>6, ResponseLong
    <2> QED  BY <1>2, <2>1
  <1>11. l >= 12
    BY <1>2, <1>8, <1>9, <1>10
  <1>12. y <= len /\ y <= MAX_READ => y <= l
    BY <1>8, <1>10
  <1>13. Opened(d, x, l, s, n, as, N, E, B, a, y)
    BY <1>5, <1>6, <1>8, <1>11 DEF Opened
  <1> QED  BY <1>4, <1>12, <1>13

\* The header is a response's to one question.
LEMMA HeaderRead ==
    ASSUME NEW d, NEW x, NEW l, NEW labels, NEW n, NEW as, NEW N, NEW E, NEW B, NEW a, NEW y,
           Opened(d, x, l, labels, n, as, N, E, B, a, y)
    PROVE  At(d, 2) = 129 /\ U16(d, 4) = 1
  <1>1. Reading(d, x, l) /\ l \in Nat /\ l >= 12
    BY DEF Opened, Reading
  <1>2. x[3] = 129 /\ x[5] = 0 /\ x[6] = 1
    BY DEF Opened, ResponseIn
  <1>3. PICK i \in Nat, j \in Nat, k \in Nat : i = 2 /\ j = 4 /\ k = 1
    OBVIOUS
  <1>4. /\ i + 1 = 3 /\ j + 1 = 5 /\ j + 2 = 6 /\ i + 1 <= l /\ j + 2 <= l
        /\ k \div 256 = 0 /\ k % 256 = 1
    BY <1>1, <1>3
  <1>5. At(d, i) = 129
    <2>1. At(d, i) = x[i + 1]
      BY <1>1, <1>3, <1>4, ByteRead
    <2> QED  BY <1>2, <1>4, <2>1
  <1>6. U16(d, j) = 1
    <2>1. x[j + 1] = k \div 256 /\ x[j + 2] = k % 256
      BY <1>2, <1>4
    <2>2. ReadAs(U16(d, j), k)
      BY <1>1, <1>3, <1>4, <2>1, WordRead
    <2>3. U16(d, j) = k
      BY <1>3, <1>4, <2>2 DEF ReadAs
    <2> QED  BY <1>3, <2>3
  <1> QED  BY <1>3, <1>5, <1>6

LEMMA NoAnswers ==
    ASSUME NEW as, NEW N, IsAnswers(as, N), N = 0, NEW q \in Seq(Nat), NEW w, w = Telled(as, q)
    PROVE  w = <<>>
  <1>1. PICK f : TellsAll(f, as, N, q, w)
    BY TellIs
  <1> QED  BY <1>1 DEF TellsAll, Told

\* A response that should be told of is read whole.
LEMMA DueFits ==
    ASSUME NEW r, IsResponse(r), NEW N, IsAnswers(r.answers, N), NEW y \in Nat, y = Len(DnsBytes(r)),
           NEW len \in Nat, AnswersDue(r, len)
    PROVE  y <= len /\ y <= MAX_READ /\ \A l : y <= l => Fits(r.labels, r.answers, N, y, l)
  <1>1. MAX_READ \in Nat
    BY PacketSizesAssumption
  <1>2. PICK m \in Nat : m = Min({len, MAX_READ}) /\ m <= len /\ m <= MAX_READ
    BY <1>1, MinOfTwo
  <1>3. y <= m
    BY <1>2 DEF AnswersDue
  <1>4. N = Len(r.answers) /\ DOMAIN r.answers = 1 .. N
    BY LenProperties DEF IsAnswers
  <1>5. /\ Len(JoinLabels(r.labels)) < NAME_ROOM /\ N <= MAX_ANSWERS
        /\ \A k \in 1 .. N : r.answers[k].compressed /\ Len(r.answers[k].data) < 128
    BY <1>4 DEF AnswersDue
  <1>6. \A l : y <= l => Fits(r.labels, r.answers, N, y, l)
    BY <1>5 DEF Fits
  <1> QED  BY <1>1, <1>2, <1>3, <1>6

LEMMA RecvRight ==
    ASSUME NEW r, IsResponse(r), NEW len, len = ReadableLen(r), NEW J, "qname" \in J, "answers" \in J
    PROVE  AnswersRight(r, len, RecvLogged(Received(r), len, J))
  <1>1. PICK n, N : IsName(r.labels, n) /\ IsAnswers(r.answers, N)
    BY ResponseTyped
  <1>2. PICK w : w = DnsBytes(r)
    OBVIOUS
  <1>3. w = r.bytes /\ r.buf \in Nat
    BY <1>2 DEF IsResponse
  <1>4. w \in Seq(Nat)
    BY <1>1, <1>2, ResponseBytes
  <1>5. PICK y \in Nat : y = Len(w)
    BY <1>4, LenProperties
  <1>6. len \in Nat /\ (len >= 12 => y <= r.buf)
    <2>1. PICK b \in Nat : b = r.buf
      BY <1>3
    <2> QED  BY <1>3, <1>5, <2>1, ReadableIs
  <1>. len \in Nat
    BY <1>6
  <1>7. PICK x, d : x = Received(r) /\ d = Read(x, len)
    OBVIOUS
  <1>8. PICK st, F : st = ParseQname(x, len) /\ F = RecvLogged(x, len, J)
    OBVIOUS
  <1>9. /\ ~st.tail => F = <<>>
        /\ st.tail => F = AnswersOf(d, st)
    <2>1. F = IF "qname" \notin J \/ ~st.tail \/ "answers" \notin J THEN <<>> ELSE ParseAnswers(x, len, st)
      <3>1. F = IF "qname" \notin J \/ ~ParseQname(x, len).tail \/ "answers" \notin J THEN <<>>
                ELSE ParseAnswers(x, len, ParseQname(x, len))
        BY <1>8, Zenon DEF RecvLogged
      <3> QED  BY <1>8, <3>1, Zenon
    <2>2. ParseAnswers(x, len, st) = AnswersOf(d, st)
      BY <1>7, ParseAnswersIs
    <2> QED  BY <2>1, <2>2, Zenon
  <1>10. st = IF len < 12 \/ At(d, 2) < 128 \/ U16(d, 4) # 1 \/ U16(d, 6) = 0
              THEN [tail |-> FALSE] ELSE State(d)
    <2>1. ParseQname(x, len) = IF len < 12 \/ At(d, 2) < 128 \/ U16(d, 4) # 1 \/ U16(d, 6) = 0
                               THEN [tail |-> FALSE] ELSE State(d)
      BY <1>7, ParseQnameIs
    <2> QED  BY <1>8, <2>1, Zenon
  <1>11. PICK T : T = Telled(r.answers, JoinLabels(r.labels))
    OBVIOUS
  <1>12. T = Addresses(r)
    BY <1>11, Zenon DEF Addresses, Telled
  <1>13. SUFFICES IsPrefix(F, T) /\ (AnswersDue(r, len) => F = T)
    BY <1>7, <1>8, <1>12 DEF AnswersRight
  <1>14. CASE len < 12
    <2>1. F = <<>>
      <3>1. st = [tail |-> FALSE]
        BY <1>10, <1>14
      <3>2. ~st.tail
        BY <3>1
      <3> QED  BY <1>9, <3>2
    <2>2. PICK s, as : s = r.labels /\ as = r.answers
      OBVIOUS
    <2>3. PICK E, B, a : ResponseIn(w, s, n, as, N, E, B, a, y)
      <3>1. Starts(w, w, y)
        BY DEF Starts
      <3>2. IsName(s, n) /\ IsAnswers(as, N)
        BY <1>1, <2>2
      <3> QED  BY <1>2, <1>5, <2>2, <3>1, <3>2, ResponseFound
    <2>4. y >= 17
      <3>1. a \in Nat /\ a >= 17 /\ a <= y
        BY <1>1, <2>2, <2>3, ResponseLong
      <3> QED  BY <3>1
    <2>5. ASSUME AnswersDue(r, len) PROVE FALSE
      <3>1. y <= len
        BY <1>1, <1>2, <1>5, <2>5, DueFits
      <3> QED  BY <1>14, <2>4, <3>1
    <2>6. IsPrefix(F, T)
      <3>1. PICK p : p = JoinLabels(r.labels) /\ p \in Seq(Nat)
        <4>1. IsName(s, n) /\ s \in Seq(Seq(Nat)) /\ n \in Nat /\ Len(s) = n
          BY <1>1, <2>2 DEF IsName
        <4>2. PICK D : Joining(D, s, n)
          BY <4>1, JoinSteps
        <4>3. n \in 0 .. n
          BY <4>1
        <4> QED  BY <2>2, <4>2, <4>3 DEF Joining
      <3>2. PICK f : TellsAll(f, r.answers, N, p, T)
        BY <1>1, <1>11, <3>1, TellIs
      <3>3. Told(f, r.answers, N, p) /\ f[N] = T
        BY <3>2 DEF TellsAll
      <3>4. PICK k \in 0 .. N : k = 0
        BY <1>1 DEF IsAnswers
      <3>5. IsPrefix(f[k], f[N])
        BY <1>1, <3>1, <3>3, ToldPrefix
      <3>6. f[0] = <<>>
        BY <3>3 DEF Told
      <3> QED  BY <2>1, <3>3, <3>4, <3>5, <3>6
    <2> QED  BY <2>5, <2>6
  <1>15. CASE len >= 12
    <2>1. y <= r.buf
      BY <1>6, <1>15
    <2>2. PICK l, E, B, a : /\ Opened(d, x, l, r.labels, n, r.answers, N, E, B, a, y)
                            /\ y <= len /\ y <= MAX_READ => y <= l
      BY <1>1, <1>2, <1>5, <1>7, <1>15, <2>1, ResponseRead
    <2>3. At(d, 2) = 129 /\ U16(d, 4) = 1
      BY <2>2, HeaderRead
    <2>4. PICK g : g = State(d)
      OBVIOUS
    <2>5. PICK q, z, c : /\ Stated(g, q, z, c) /\ Questioned(q, z, d, l, r.labels, E, n, a)
                         /\ ReadAs(c, N)
      BY <2>2, <2>4, QuestionOpened
    <2>6. U16(d, 6) = c
      <3>1. g.ancount = U16(d, 6)
        BY <2>4 DEF State
      <3> QED  BY <2>5, <3>1 DEF Stated
    <2>7. JoinLabels(r.labels) \in Seq(Nat)
      BY <2>2, OpenedName
    <2>8. CASE c = 0
      <3>1. N = 0
        BY <1>1, <2>5, <2>8 DEF ReadAs, IsAnswers
      <3>2. T = <<>>
        BY <1>1, <1>11, <2>7, <3>1, NoAnswers
      <3>3. F = <<>>
        <4>1. st = [tail |-> FALSE]
          BY <1>10, <2>6, <2>8
        <4>2. ~st.tail
          BY <4>1
        <4> QED  BY <1>9, <4>2
      <3>4. IsPrefix(T, T)
        BY <3>2 DEF IsPrefix
      <3> QED  BY <3>2, <3>3, <3>4
    <2>9. CASE c # 0
      <3>1. ~(len < 12 \/ At(d, 2) < 128 \/ U16(d, 4) # 1 \/ U16(d, 6) = 0)
        BY <1>15, <2>3, <2>6, <2>9
      <3>2. st = g
        BY <1>10, <2>4, <3>1
      <3>3. st.tail
        <4>1. g.tail = TRUE
          BY <2>4 DEF State
        <4> QED  BY <3>2, <4>1
      <3>4. F = AnswersOf(d, st)
        BY <1>9, <3>3
      <3>5. Shown(F, T, r.labels, r.answers, N, y, l)
        <4>1. Stated(st, q, z, c)
          BY <2>5, <3>2
        <4> QED  BY <1>11, <2>2, <2>5, <3>4, <4>1, AnswersOpened
      <3>6. ASSUME AnswersDue(r, len) PROVE F = T
        <4>1. /\ y <= len /\ y <= MAX_READ
              /\ \A k : y <= k => Fits(r.labels, r.answers, N, y, k)
          BY <1>1, <1>2, <1>5, <3>6, DueFits
        <4>2. Fits(r.labels, r.answers, N, y, l)
          BY <2>2, <4>1
        <4> QED  BY <3>5, <4>2 DEF Shown
      <3> QED  BY <3>5, <3>6 DEF Shown
    <2> QED  BY <2>8, <2>9
  <1> QED  BY <1>6, <1>14, <1>15

LEMMA ResponseCallRight ==
    ASSUME Inv, NEW c \in Calls, Call(c), c.kind = "response", phase = "serving"
    PROVE  AnswersRight(c, ReadableLen(c), call'.logged)
  <1>1. call'.logged = RecvLogged(Received(c), ReadableLen(c), jmp)
    BY CallLogged DEF Logged
  <1>2. IsResponse(c)
    BY CallsAssumption
  <1>3. ASSUME NEW x \in {"qname", "answers"} PROVE x \in jmp
    <2>1. Do("jmp", x) \in StepSet
      BY DEF StepSet, Do
    <2>2. Done(Do("jmp", x))
      BY <2>1, StepDone
    <2> QED  BY <2>2 DEF Done, Do
  <1>4. "qname" \in jmp /\ "answers" \in jmp
    BY <1>3
  <1>5. PICK n : n = ReadableLen(c)
    OBVIOUS
  <1>6. AnswersRight(c, n, RecvLogged(Received(c), n, jmp))
    BY <1>2, <1>4, <1>5, RecvRight
  <1> QED  BY <1>1, <1>5, <1>6

LEMMA NextAnswers == Inv /\ AnswersExact /\ [Next]_vars => AnswersExact'
  <1> SUFFICES ASSUME Inv, AnswersExact, [Next]_vars PROVE AnswersExact'
    OBVIOUS
  <1>1. ASSUME NEW c \in Calls, Call(c) PROVE AnswersExact'
    <2>1. call'.kind = c.kind /\ call'.of = c /\ call'.served = (phase = "serving")
      BY <1>1 DEF Call
    <2>2. ASSUME c.kind = "response", phase = "serving"
          PROVE  AnswersRight(call'.of, ReadableLen(call'.of), call'.logged)
      BY <1>1, <2>1, <2>2, ResponseCallRight
    <2> QED  BY <2>1, <2>2 DEF AnswersExact
  <1>2. CASE Return
    BY <1>2 DEF Return, NoCall, AnswersExact
  <1>3. CASE UNCHANGED call
    BY <1>3 DEF AnswersExact
  <1> QED
    BY <1>1, <1>2, <1>3
       DEF Next, Loading, Dropping, Load, LoadPattern, LoadRule, Attach, FillJmp, Bind, Leave,
           DropLink, DropObjects, Restart, Track, vars

\* Whatever response a tracked task receives, into a buffer of any size over either kind of iterator,
\* with any answers to any question: the lines logged are its addresses from the first on, in order
\* and each under the name that was asked for; none is left out when the response is read whole, its
\* name is within its room, its answers are within the rounds of the loop, no answer spells its name
\* out and no length is taken for more.
THEOREM AnswersCorrect == Spec => []AnswersExact
  <1>1. Init => Inv /\ AnswersExact
    <2>1. Init => AnswersExact
      BY DEF Init, NoCall, AnswersExact
    <2> QED  BY <2>1, InitInv
  <1>2. (Inv /\ AnswersExact) /\ [Next]_vars => (Inv /\ AnswersExact)'
    BY NextInv, NextAnswers
  <1> QED  BY <1>1, <1>2, PTL DEF Spec

=============================================================================
