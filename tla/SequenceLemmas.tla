--------------------------- MODULE SequenceLemmas ---------------------------
(* What the operators of Selection return, for every sequence.  They recur on  *)
(* a length; the facts about them are proved by induction on it, which is       *)
(* reduced to the well-foundedness of strict inclusion.  At the end, what      *)
(* listing a finite set in an order returns.                                 *)
EXTENDS Selection, TLAPS, FiniteSetTheorems, SequenceTheorems, WellFoundedInduction

-----------------------------------------------------------------------------
(* Induction and recursion                                                   *)

(* A set of numbers that has 0, and the successors of its members up to `top`, *)
(* has every number up to `top`.                                            *)
LEMMA AllUpTo ==
  ASSUME NEW top \in Nat, NEW S, 0 \in S,
         \A n \in Nat : n \in S /\ n < top => n + 1 \in S
  PROVE  0..top \subseteq S
<1> DEFINE All   == 1..top
           Out   == {n \in 0..top : n \notin S}
           Below == {1..n : n \in Out}
<1> SUFFICES ASSUME Out # {} PROVE FALSE
  OBVIOUS
<1>1. \A n \in Out : 1..n \in FiniteSubsetsOf(All)
  BY FS_Interval DEF FiniteSubsetsOf
<1>2. Below \subseteq FiniteSubsetsOf(All) /\ Below # {}
  BY <1>1
<1>3. IsWellFoundedOn(StrictSubsetOrdering(All), FiniteSubsetsOf(All))
  BY FS_StrictSubsetOrderingWellFounded
<1>4. PICK b \in Below : \A c \in Below : ~(<<c, b>> \in StrictSubsetOrdering(All))
  BY <1>2, <1>3, WFMin
<1>5. PICK n \in Out : b = 1..n
  BY <1>4
<1>6. n \in Nat /\ n # 0 /\ n - 1 \in Nat /\ n - 1 < top /\ n <= top
  BY <1>5
<1>7. n - 1 \in Out
  <2>1. n - 1 \notin S
    BY <1>5, <1>6
  <2> QED
    BY <1>6, <2>1
<1>8. <<1..(n - 1), 1..n>> \in StrictSubsetOrdering(All)
  <2>1. 1..(n - 1) \subseteq 1..n /\ 1..(n - 1) # 1..n /\ 1..n \subseteq All
    <3>1. n \in 1..n /\ n \notin 1..(n - 1)
      BY <1>6
    <3> QED
      BY <1>6, <3>1
  <2> QED
    BY <2>1 DEF StrictSubsetOrdering
<1> QED
  BY <1>4, <1>5, <1>7, <1>8

(* f recurs on numbers: it takes `base` to begin with and then `step` of the    *)
(* number and what it took before.                                           *)
Recurs(f, top, D, base, step) ==
  /\ f \in [0..top -> D]
  /\ f[0] = base
  /\ \A n \in 1..top : f[n] = step[<<n, f[n - 1]>>]

(* A set of numbers has a least one.                                           *)
LEMMA LeastExists ==
  ASSUME NEW S \in SUBSET Nat, S # {}
  PROVE  \E m \in S : \A n \in S : m <= n
<1>1. PICK top \in S : TRUE
  OBVIOUS
<1> SUFFICES ASSUME \A m \in S : \E n \in S : n < m PROVE FALSE
  OBVIOUS
<1> DEFINE G == {n \in 0..top : \A m \in S : m >= n}
<1>2. 0 \in G
  BY <1>1
<1>3. ASSUME NEW n \in Nat, n \in G, n < top PROVE n + 1 \in G
  <2>1. n \notin S
    <3> SUFFICES ASSUME n \in S PROVE FALSE
      OBVIOUS
    <3>1. PICK k \in S : k < n
      OBVIOUS
    <3> QED
      BY <1>3, <3>1
  <2>2. \A m \in S : m >= n + 1
    BY <1>3, <2>1
  <2> QED
    BY <1>1, <1>3, <2>2
<1>4. 0..top \subseteq G
  <2> HIDE DEF G
  <2> QED
    BY <1>1, <1>2, <1>3, AllUpTo
<1>5. PICK m \in S : m < top
  BY <1>1
<1> QED
  BY <1>1, <1>4, <1>5

LEMMA Recursion ==
  ASSUME NEW top \in Nat, NEW D, NEW base \in D, NEW step \in [(1..top) \X D -> D]
  PROVE  \E f : Recurs(f, top, D, base, step)
<1> DEFINE Is(f, m) == f[0] = base /\ \A n \in 1..m : f[n] = step[<<n, f[n - 1]>>]
           S == {m \in 0..top : \E f \in [0..m -> D] : Is(f, m)}
<1>1. 0 \in S
  <2>1. PICK f \in [0..0 -> D] : f = [n \in 0..0 |-> base]
    OBVIOUS
  <2>2. Is(f, 0)
    BY <2>1
  <2> QED
    BY <2>2
<1>2. ASSUME NEW m \in Nat, m \in S, m < top
      PROVE  m + 1 \in S
  <2>1. PICK f \in [0..m -> D] : Is(f, m)
    BY <1>2
  <2>2. m \in 0..m /\ m + 1 \in 1..top /\ f[m] \in D
    BY <1>2
  <2>3. PICK last \in D : last = step[<<m + 1, f[m]>>]
    BY <2>2
  <2> DEFINE g == [n \in 0..(m + 1) |-> IF n = m + 1 THEN last ELSE f[n]]
  <2>4. g \in [0..(m + 1) -> D]
    <3>1. \A n \in 0..(m + 1) : n = m + 1 \/ n \in 0..m
      OBVIOUS
    <3> QED
      BY <3>1
  <2>5. g[m + 1] = last /\ \A n \in 0..m : g[n] = f[n]
    OBVIOUS
  <2>6. Is(g, m + 1)
    <3> HIDE DEF g
    <3>1. g[0] = base
      BY <2>1, <2>5
    <3>2. ASSUME NEW n \in 1..(m + 1)
          PROVE  g[n] = step[<<n, g[n - 1]>>]
      <4>1. CASE n = m + 1
        <5>1. n - 1 = m
          BY <4>1
        <5> QED
          BY <2>2, <2>3, <2>5, <4>1, <5>1
      <4>2. CASE n # m + 1
        <5>1. n \in 1..m /\ n \in 0..m /\ n - 1 \in 0..m
          BY <4>2
        <5> QED
          BY <2>1, <2>5, <5>1
      <4> QED
        BY <4>1, <4>2
    <3> QED
      BY <3>1, <3>2
  <2>7. \E h \in [0..(m + 1) -> D] : Is(h, m + 1)
    <3> HIDE DEF g, Is
    <3> QED
      BY <2>4, <2>6
  <2>8. m + 1 \in 0..top
    BY <1>2
  <2> QED
    BY <2>7, <2>8
<1>3. 0..top \subseteq S
  <2> HIDE DEF S
  <2> QED
    BY <1>1, <1>2, AllUpTo
<1>4. PICK f \in [0..top -> D] : Is(f, top)
  <2>1. top \in S
    BY <1>3
  <2> QED
    BY <2>1
<1> QED
  BY <1>4 DEF Recurs

-----------------------------------------------------------------------------
(* Members                                                                   *)

Members(s)  == {s[i] : i \in 1..Len(s)}
Distinct(s) == \A i, j \in 1..Len(s) : s[i] = s[j] => i = j

LEMMA MembersOfAppend ==
  ASSUME NEW T, NEW s \in Seq(T), NEW e \in T
  PROVE  /\ Members(Append(s, e)) = Members(s) \cup {e}
         /\ Distinct(s) /\ e \notin Members(s) => Distinct(Append(s, e))
<1>1. PICK N \in Nat : N = Len(s)
  OBVIOUS
<1>1a. PICK g : g = Append(s, e)
  OBVIOUS
<1>2. Len(g) = N + 1 /\ g[N + 1] = e /\ \A i \in 1..N : g[i] = s[i]
  BY <1>1a, <1>1
<1>3. /\ \A i \in 1..(N + 1) : i \in 1..N \/ i = N + 1
      /\ 1..N \subseteq 1..(N + 1) /\ N + 1 \in 1..(N + 1)
  OBVIOUS
<1>4. Members(g) = Members(s) \cup {e}
  BY <1>1, <1>2, <1>3 DEF Members
<1>5. Distinct(s) /\ e \notin Members(s) => Distinct(g)
  BY <1>1, <1>2, <1>3 DEF Members, Distinct
<1> QED
  BY <1>1a, <1>4, <1>5

LEMMA MembersOfConcat ==
  ASSUME NEW T, NEW s \in Seq(T), NEW t \in Seq(T)
  PROVE  /\ Members(s \o t) = Members(s) \cup Members(t)
         /\ Distinct(s) /\ Distinct(t) /\ Members(s) \cap Members(t) = {}
              => Distinct(s \o t)
<1>1. PICK N, M \in Nat : N = Len(s) /\ M = Len(t)
  <2>1. Len(s) \in Nat /\ Len(t) \in Nat
    OBVIOUS
  <2> QED
    BY <2>1
<1>2. PICK g : g = s \o t
  OBVIOUS
<1>3. /\ Len(g) = N + M
      /\ \A i \in 1..N : g[i] = s[i]
      /\ \A i \in 1..M : g[N + i] = t[i]
  BY <1>1, <1>2
<1>4. /\ \A i \in 1..(N + M) : i \in 1..N \/ (\E j \in 1..M : i = N + j)
      /\ \A i \in 1..N : i \in 1..(N + M)
      /\ \A i \in 1..M : N + i \in 1..(N + M)
  <2>1. ASSUME NEW i \in 1..(N + M), i \notin 1..N
        PROVE  i - N \in 1..M /\ i = N + (i - N)
    BY <2>1
  <2> QED
    BY <2>1
<1>5. \A i \in 1..(N + M) : g[i] \in Members(s) \/ g[i] \in Members(t)
  BY <1>1, <1>3, <1>4 DEF Members
<1>6. Members(g) = Members(s) \cup Members(t)
  <2>1. Members(g) \subseteq Members(s) \cup Members(t)
    BY <1>3, <1>5 DEF Members
  <2>2. Members(s) \subseteq Members(g)
    BY <1>1, <1>3, <1>4 DEF Members
  <2>3. Members(t) \subseteq Members(g)
    BY <1>1, <1>3, <1>4 DEF Members
  <2> QED
    BY <2>1, <2>2, <2>3
<1>7. ASSUME Distinct(s), Distinct(t), Members(s) \cap Members(t) = {}
      PROVE  Distinct(g)
  <2>1. ASSUME NEW i \in 1..N, NEW j \in 1..M
        PROVE  g[i] # g[N + j]
    <3>1. s[i] \in Members(s) /\ t[j] \in Members(t)
      BY <1>1 DEF Members
    <3> QED
      BY <1>3, <1>7, <3>1
  <2>2. \A i, j \in 1..N : g[i] = g[j] => i = j
    BY <1>1, <1>3, <1>7 DEF Distinct
  <2>3. \A i, j \in 1..M : g[N + i] = g[N + j] => i = j
    BY <1>1, <1>3, <1>7 DEF Distinct
  <2>4. ASSUME NEW i \in 1..(N + M), NEW j \in 1..(N + M), g[i] = g[j]
        PROVE  i = j
    <3>1. CASE i \in 1..N /\ j \in 1..N
      BY <2>2, <2>4, <3>1
    <3>2. CASE i \in 1..N /\ j \notin 1..N
      BY <1>4, <2>1, <2>4, <3>2
    <3>3. CASE i \notin 1..N /\ j \in 1..N
      BY <1>4, <2>1, <2>4, <3>3
    <3>4. CASE i \notin 1..N /\ j \notin 1..N
      <4>1. PICK p \in 1..M : i = N + p
        BY <1>4, <3>4
      <4>2. PICK q \in 1..M : j = N + q
        BY <1>4, <3>4
      <4> QED
        BY <2>3, <2>4, <4>1, <4>2
    <3> QED
      BY <3>1, <3>2, <3>3, <3>4
  <2> QED
    BY <1>3, <2>4 DEF Distinct
<1> QED
  BY <1>2, <1>6, <1>7

(* The first member out of the way.                                          *)
LEMMA MembersOfTail ==
  ASSUME NEW T, NEW s \in Seq(T), s # <<>>, Distinct(s)
  PROVE  /\ Tail(s) \in Seq(T) /\ Distinct(Tail(s))
         /\ Members(Tail(s)) = Members(s) \ {Head(s)}
         /\ Head(s) \in Members(s)
<1>1. PICK N \in Nat : N + 1 = Len(s)
  <2>1. Len(s) \in Nat /\ Len(s) # 0
    OBVIOUS
  <2>2. Len(s) - 1 \in Nat /\ (Len(s) - 1) + 1 = Len(s)
    BY <2>1
  <2> QED
    BY <2>2
<1>2. PICK t : t = Tail(s)
  OBVIOUS
<1>1a. t \in Seq(T)
  BY <1>2
<1>3. Len(t) = N /\ \A i \in 1..N : t[i] = s[i + 1]
  BY <1>1, <1>2
<1>4. Head(s) = s[1] /\ 1 \in 1..(N + 1)
  BY <1>1
<1>5. /\ \A i \in 1..N : i + 1 \in 1..(N + 1) /\ i + 1 # 1
      /\ \A i \in 1..(N + 1) : i = 1 \/ (i - 1 \in 1..N /\ (i - 1) + 1 = i)
  OBVIOUS
<1>6. Distinct(t)
  BY <1>1, <1>3, <1>5 DEF Distinct
<1>7. Members(t) \subseteq Members(s) \ {s[1]}
  BY <1>1, <1>3, <1>4, <1>5 DEF Members, Distinct
<1>8. Members(s) \ {s[1]} \subseteq Members(t)
  <2>1. ASSUME NEW i \in 1..(N + 1), s[i] # s[1]
        PROVE  \E j \in 1..N : s[i] = t[j]
    BY <1>3, <1>5, <2>1
  <2> QED
    BY <1>1, <1>3, <2>1 DEF Members
<1>9. Head(s) \in Members(s)
  BY <1>1, <1>4 DEF Members
<1> QED
  BY <1>1a, <1>2, <1>4, <1>6, <1>7, <1>8, <1>9

-----------------------------------------------------------------------------
(* Without                                                                   *)

(* The step of Without: what the n-th member does to what is kept so far.     *)
Keeps(s, ids, T) ==
  [x \in (1..Len(s)) \X Seq(T) |->
     IF s[x[1]] \in ids THEN x[2] ELSE Append(x[2], s[x[1]])]

(* `kept` is what the recursion goes through.                                 *)
Keeping(kept, s, ids, T) ==
  /\ kept \in [0..Len(s) -> Seq(T)]
  /\ Without(s, ids) = kept[Len(s)]
  /\ kept[0] = <<>>
  /\ \A n \in 1..Len(s) :
        kept[n] = IF s[n] \in ids THEN kept[n - 1] ELSE Append(kept[n - 1], s[n])

LEMMA WithoutRecurs ==
  ASSUME NEW T, NEW s \in Seq(T), NEW ids
  PROVE  \E kept : Keeping(kept, s, ids, T)
<1> DEFINE L == Len(s)
           Is(f) == f = [n \in 0..L |->
                            IF n = 0 THEN <<>>
                            ELSE IF s[n] \in ids THEN f[n - 1] ELSE Append(f[n - 1], s[n])]
<1>1. L \in Nat
  OBVIOUS
<1>2. Keeps(s, ids, T) \in [(1..L) \X Seq(T) -> Seq(T)]
  <2>1. ASSUME NEW x \in (1..L) \X Seq(T)
        PROVE  (IF s[x[1]] \in ids THEN x[2] ELSE Append(x[2], s[x[1]])) \in Seq(T)
    <3>1. s[x[1]] \in T /\ x[2] \in Seq(T)
      OBVIOUS
    <3> QED
      BY <3>1
  <2> QED
    BY <2>1 DEF Keeps
<1>3. <<>> \in Seq(T)
  OBVIOUS
<1>4. PICK f \in [0..L -> Seq(T)] :
         f[0] = <<>> /\ \A n \in 1..L : f[n] = Keeps(s, ids, T)[<<n, f[n - 1]>>]
  <2>1. PICK top, D, step, base :
           top = L /\ D = Seq(T) /\ step = Keeps(s, ids, T) /\ base = <<>>
    OBVIOUS
  <2>2. top \in Nat /\ base \in D /\ step \in [(1..top) \X D -> D]
    BY <1>1, <1>2, <1>3, <2>1
  <2>3. PICK f : Recurs(f, top, D, base, step)
    BY <2>2, Recursion
  <2> HIDE DEF L
  <2> QED
    BY <2>1, <2>3 DEF Recurs
<1>5. ASSUME NEW n \in 1..L
      PROVE  f[n] = IF s[n] \in ids THEN f[n - 1] ELSE Append(f[n - 1], s[n])
  <2>1. n - 1 \in 0..L
    BY <1>1
  <2>2. PICK k \in Seq(T) : k = f[n - 1]
    BY <1>4, <2>1
  <2>3. Keeps(s, ids, T)[<<n, k>>] = IF s[n] \in ids THEN k ELSE Append(k, s[n])
    BY DEF Keeps
  <2> QED
    BY <1>4, <2>2, <2>3
<1>6. Is(f)
  <2>1. \A n \in 0..L : n = 0 \/ n \in 1..L
    BY <1>1
  <2>2. \A n \in 0..L : f[n] = IF n = 0 THEN <<>>
                               ELSE IF s[n] \in ids THEN f[n - 1] ELSE Append(f[n - 1], s[n])
    BY <1>4, <1>5, <2>1
  <2> QED
    BY <1>4, <2>2
<1> DEFINE kept == CHOOSE g : Is(g)
<1>7. Is(kept)
  BY <1>6
<1>8. Without(s, ids) = kept[L]
  BY DEF Without
<1>9. kept = f
  <2>1. DOMAIN kept = 0..L
    BY <1>7
  <2> DEFINE S == {n \in 0..L : kept[n] = f[n]}
  <2>2. 0 \in S
    <3> HIDE DEF kept
    <3>1. kept[0] = <<>>
      BY <1>1, <1>7
    <3> QED
      BY <1>1, <1>4, <3>1
  <2>3. ASSUME NEW n \in Nat, n \in S, n < L
        PROVE  n + 1 \in S
    <3>1. PICK m \in 1..L : m = n + 1
      BY <1>1, <2>3
    <3>2. m \in 0..L /\ m # 0 /\ m - 1 = n
      BY <1>1, <2>3, <3>1
    <3>3. kept[m] = IF s[m] \in ids THEN kept[n] ELSE Append(kept[n], s[m])
      <4> HIDE DEF kept
      <4> QED
        BY <1>7, <3>2
    <3>4. f[m] = IF s[m] \in ids THEN f[n] ELSE Append(f[n], s[m])
      BY <1>5, <3>2
    <3> QED
      BY <2>3, <3>1, <3>2, <3>3, <3>4
  <2>4. 0..L \subseteq S
    <3> HIDE DEF S
    <3> QED
      BY <1>1, <2>2, <2>3, AllUpTo
  <2>5. \A n \in 0..L : kept[n] = f[n]
    BY <2>4
  <2>6. kept = [n \in 0..L |-> kept[n]]
    <3> HIDE DEF kept
    <3> QED
      BY <1>7
  <2>7. f = [n \in 0..L |-> f[n]]
    BY <1>4
  <2> QED
    <3> HIDE DEF kept
    <3> QED
      BY <2>5, <2>6, <2>7
<1>10. Without(s, ids) = f[L]
  BY <1>8, <1>9
<1>11. Keeping(f, s, ids, T)
  BY <1>4, <1>5, <1>10 DEF Keeping
<1> QED
  BY <1>11

(* What Without returns has the members of the sequence that are not among      *)
(* `ids`, in the order they had.                                             *)
LEMMA WithoutEmbeds ==
  ASSUME NEW T, NEW s \in Seq(T), NEW ids
  PROVE  /\ Without(s, ids) \in Seq(T)
         /\ Members(Without(s, ids)) = Members(s) \ ids
         /\ \E at \in [1..Len(Without(s, ids)) -> 1..Len(s)] :
               /\ \A i \in 1..Len(Without(s, ids)) : Without(s, ids)[i] = s[at[i]]
               /\ \A i, j \in 1..Len(Without(s, ids)) : i < j => at[i] < at[j]
<1> DEFINE L == Len(s)
           First(n) == {s[i] : i \in 1..n} \ ids
           Embeds(k, n) == \E at \in [1..Len(k) -> 1..n] :
                              /\ \A i \in 1..Len(k) : k[i] = s[at[i]]
                              /\ \A i, j \in 1..Len(k) : i < j => at[i] < at[j]
<1>1. L \in Nat
  OBVIOUS
<1>2a. PICK kept : Keeping(kept, s, ids, T)
  BY WithoutRecurs
<1>2. /\ kept \in [0..L -> Seq(T)]
      /\ Without(s, ids) = kept[L]
      /\ kept[0] = <<>>
      /\ \A n \in 1..L :
            kept[n] = IF s[n] \in ids THEN kept[n - 1] ELSE Append(kept[n - 1], s[n])
  BY <1>2a DEF Keeping
<1> DEFINE S == {n \in 0..L : Members(kept[n]) = First(n) /\ Embeds(kept[n], n)}
<1>3. 0 \in S
  <2>1. Members(<<>>) = {} /\ First(0) = {}
    BY DEF Members
  <2>2. Embeds(<<>>, 0)
    <3>1. PICK at : at = [i \in 1..0 |-> 0]
      OBVIOUS
    <3>2. PICK k, N : k = <<>> /\ N = Len(k)
      OBVIOUS
    <3>3. N = 0 /\ at \in [1..N -> 1..0]
      BY <3>1, <3>2
    <3>4. \A i \in 1..N : FALSE
      BY <3>3
    <3>5. Embeds(k, 0)
      BY <3>2, <3>3, <3>4
    <3> QED
      BY <3>2, <3>5
  <2>3. PICK k : k = kept[0]
    OBVIOUS
  <2>4. k = <<>>
    BY <1>2, <2>3
  <2> HIDE DEF First, Embeds
  <2>5. Members(k) = First(0) /\ Embeds(k, 0)
    BY <2>1, <2>2, <2>4
  <2>6. 0 \in 0..L
    BY <1>1
  <2> QED
    BY <2>3, <2>5, <2>6
<1>4. ASSUME NEW n \in Nat, n \in S, n < L
      PROVE  n + 1 \in S
  <2>1. PICK m \in 1..L : m = n + 1
    BY <1>1, <1>4
  <2>2. m \in 0..L /\ m - 1 = n /\ n \in 0..L
    BY <1>1, <1>4, <2>1
  <2>3. PICK k \in Seq(T), last \in T : k = kept[n] /\ last = s[m]
    BY <1>2, <2>2
  <2>4. kept[m] = IF last \in ids THEN k ELSE Append(k, last)
    BY <1>2, <2>2, <2>3
  <2>5. Members(k) = First(n) /\ Embeds(k, n)
    BY <1>4, <2>3
  <2>6. First(m) = First(n) \cup ({last} \ ids)
    <3>1. \A i \in 1..m : i \in 1..n \/ i = m
      BY <2>1
    <3>2. 1..n \subseteq 1..m /\ m \in 1..m
      BY <2>1
    <3> QED
      BY <2>3, <3>1, <3>2
  <2>7. PICK N \in Nat : N = Len(k)
    BY <2>3
  <2>8. PICK at \in [1..N -> 1..n] : /\ \A i \in 1..N : k[i] = s[at[i]]
                                     /\ \A i, j \in 1..N : i < j => at[i] < at[j]
    BY <2>5, <2>7
  <2>9. 1..n \subseteq 1..m /\ m \in 1..m /\ \A i \in 1..n : i < m
    BY <2>1
  <2>10. CASE last \in ids
    <3>1. at \in [1..N -> 1..m]
      BY <2>8, <2>9
    <3>2. Embeds(k, m)
      BY <2>7, <2>8, <3>1
    <3>3. Members(k) = First(m)
      BY <2>5, <2>6, <2>10
    <3> HIDE DEF First, Embeds
    <3> QED
      BY <2>1, <2>2, <2>4, <2>10, <3>2, <3>3
  <2>11. CASE last \notin ids
    <3>1. PICK g : g = Append(k, last)
      OBVIOUS
    <3>2. /\ g \in Seq(T) /\ Len(g) = N + 1 /\ g[N + 1] = last
          /\ \A i \in 1..N : g[i] = k[i]
      BY <2>3, <2>7, <3>1
    <3>3. Members(g) = First(m)
      <4>1. Members(g) = Members(k) \cup {last}
        BY <2>3, <3>1, MembersOfAppend
      <4> QED
        BY <2>5, <2>6, <2>11, <4>1
    <3> DEFINE to == [i \in 1..(N + 1) |-> IF i = N + 1 THEN m ELSE at[i]]
    <3>4. \A i \in 1..(N + 1) : i = N + 1 \/ (i \in 1..N /\ i # N + 1 /\ i < N + 1)
      OBVIOUS
    <3>5. to \in [1..(N + 1) -> 1..m]
      BY <2>8, <2>9, <3>4
    <3>6. to[N + 1] = m /\ \A i \in 1..N : to[i] = at[i]
      OBVIOUS
    <3>7. \A i \in 1..(N + 1) : g[i] = s[to[i]]
      <4> HIDE DEF to
      <4> QED
        BY <2>3, <2>8, <3>2, <3>4, <3>6
    <3>8. ASSUME NEW i \in 1..(N + 1), NEW j \in 1..(N + 1), i < j
          PROVE  to[i] < to[j]
      <4> HIDE DEF to
      <4>1. i \in 1..N
        BY <3>8
      <4>2. CASE j = N + 1
        <5>1. to[i] \in 1..n
          BY <2>8, <3>6, <4>1
        <5> QED
          BY <2>9, <3>6, <4>2, <5>1
      <4>3. CASE j \in 1..N
        BY <2>8, <3>6, <3>8, <4>1, <4>3
      <4> QED
        BY <3>4, <4>2, <4>3
    <3>9. Embeds(g, m)
      <4> HIDE DEF to
      <4> QED
        BY <3>2, <3>5, <3>7, <3>8
    <3> HIDE DEF First, Embeds
    <3> QED
      BY <2>1, <2>2, <2>4, <2>11, <3>1, <3>3, <3>9
  <2> QED
    BY <2>10, <2>11
<1>5. L \in S
  <2> HIDE DEF S
  <2>1. 0..L \subseteq S
    BY <1>1, <1>3, <1>4, AllUpTo
  <2> QED
    BY <1>1, <2>1
<1>6. First(L) = Members(s) \ ids
  BY DEF Members
<1>7. PICK w : w = kept[L]
  OBVIOUS
<1>8. w \in Seq(T) /\ w = Without(s, ids)
  BY <1>1, <1>2, <1>7
<1>9. Members(w) = First(L) /\ Embeds(w, L)
  BY <1>5, <1>7
<1> QED
  BY <1>1, <1>6, <1>8, <1>9

(* Each once if each was there once.                                          *)
LEMMA WithoutKeeps ==
  ASSUME NEW T, NEW s \in Seq(T), NEW ids
  PROVE  /\ Without(s, ids) \in Seq(T)
         /\ Members(Without(s, ids)) = Members(s) \ ids
         /\ Distinct(s) => Distinct(Without(s, ids))
<1>1. PICK w \in Seq(T) : w = Without(s, ids)
  BY WithoutEmbeds
<1>2. PICK N \in Nat : N = Len(w)
  OBVIOUS
<1>3. PICK at \in [1..N -> 1..Len(s)] :
         /\ \A i \in 1..N : w[i] = s[at[i]]
         /\ \A i, j \in 1..N : i < j => at[i] < at[j]
  BY <1>1, <1>2, WithoutEmbeds
<1>4. ASSUME Distinct(s), NEW i \in 1..N, NEW j \in 1..N, w[i] = w[j]
      PROVE  i = j
  <2>1. at[i] = at[j]
    BY SMTT(30), <1>3, <1>4 DEF Distinct
  <2>2. at[i] \in Int /\ ~(at[i] < at[j]) /\ ~(at[j] < at[i])
    BY <2>1
  <2>3. ~(i < j) /\ ~(j < i)
    BY <1>3, <2>2
  <2> QED
    BY <2>3
<1>5. Distinct(s) => Distinct(w)
  BY <1>2, <1>4 DEF Distinct
<1> QED
  BY <1>1, <1>5, WithoutEmbeds

(* A sequence without repetitions is as long as it has members.              *)
LEMMA LengthOfDistinct ==
  ASSUME NEW T, NEW s \in Seq(T), Distinct(s)
  PROVE  IsFiniteSet(Members(s)) /\ Cardinality(Members(s)) = Len(s)
<1>1. PICK N \in Nat : N = Len(s)
  OBVIOUS
<1>2. PICK M : M = Members(s)
  OBVIOUS
<1>3. PICK f : f = [i \in 1..N |-> s[i]]
  OBVIOUS
<1>4. M = {s[i] : i \in 1..N} /\ \A i, j \in 1..N : s[i] = s[j] => i = j
  BY <1>1, <1>2 DEF Members, Distinct
<1>5. f \in Surjection(1..N, M)
  BY <1>3, <1>4 DEF Surjection
<1>6. f \in Injection(1..N, M)
  BY <1>3, <1>4 DEF Injection, IsInjective
<1>7. IsFiniteSet(1..N) /\ Cardinality(1..N) = N
  BY FS_Interval
<1>8. IsFiniteSet(M) /\ Cardinality(M) = N
  BY <1>5, <1>6, <1>7, FS_Surjection
<1> QED
  BY <1>1, <1>2, <1>8

(* Without one of its members it is one shorter.                             *)
LEMMA LengthWithoutOne ==
  ASSUME NEW T, NEW s \in Seq(T), Distinct(s), NEW e \in Members(s)
  PROVE  Len(Without(s, {e})) = Len(s) - 1
<1>1. PICK w : w = Without(s, {e})
  OBVIOUS
<1>2. w \in Seq(T) /\ Members(w) = Members(s) \ {e} /\ Distinct(w)
  BY <1>1, WithoutKeeps
<1>3. /\ IsFiniteSet(Members(s)) /\ Cardinality(Members(s)) = Len(s)
      /\ Cardinality(Members(w)) = Len(w)
  BY <1>2, LengthOfDistinct
<1>4. Cardinality(Members(s) \ {e}) = Cardinality(Members(s)) - 1
  BY <1>3, FS_RemoveElement
<1> QED
  BY <1>1, <1>2, <1>3, <1>4

LEMMA WithoutNone ==
  ASSUME NEW T, NEW s \in Seq(T), NEW ids, Members(s) \cap ids = {}
  PROVE  Without(s, ids) = s
<1>1. PICK L \in Nat : L = Len(s)
  OBVIOUS
<1>2a. PICK kept : Keeping(kept, s, ids, T)
  BY WithoutRecurs
<1>2. /\ kept \in [0..L -> Seq(T)]
      /\ Without(s, ids) = kept[L]
      /\ kept[0] = <<>>
      /\ \A n \in 1..L :
            kept[n] = IF s[n] \in ids THEN kept[n - 1] ELSE Append(kept[n - 1], s[n])
  BY <1>1, <1>2a DEF Keeping
<1> DEFINE Is(n) == Len(kept[n]) = n /\ \A i \in 1..n : kept[n][i] = s[i]
           S == {n \in 0..L : Is(n)}
<1>3. 0 \in S
  BY <1>1, <1>2
<1>4. ASSUME NEW n \in Nat, n \in S, n < L
      PROVE  n + 1 \in S
  <2>1. PICK m \in 1..L : m = n + 1
    BY <1>4
  <2>2. m \in 0..L /\ m - 1 = n /\ n \in 0..L
    BY <1>4, <2>1
  <2>3. PICK k \in Seq(T) : k = kept[n]
    BY <1>2, <2>2
  <2>4. PICK last \in T : last = s[m]
    BY <1>1
  <2>5. last \notin ids
    BY <1>1, <2>4 DEF Members
  <2>6. PICK g : g = Append(k, last)
    OBVIOUS
  <2>7. kept[m] = g
    BY <1>2, <2>2, <2>3, <2>4, <2>5, <2>6
  <2>8. Len(k) = n /\ \A i \in 1..n : k[i] = s[i]
    BY <1>4, <2>3
  <2>9. Len(g) = m /\ g[m] = last /\ \A i \in 1..n : g[i] = k[i]
    BY <2>1, <2>3, <2>6, <2>8
  <2>10. \A i \in 1..m : i = m \/ i \in 1..n
    BY <2>1
  <2>11. \A i \in 1..m : g[i] = s[i]
    BY <2>4, <2>8, <2>9, <2>10
  <2> QED
    BY <2>1, <2>2, <2>7, <2>9, <2>11
<1>5. L \in S
  <2> HIDE DEF S
  <2>1. 0..L \subseteq S
    BY <1>3, <1>4, AllUpTo
  <2> QED
    BY <2>1
<1>6. PICK w \in Seq(T) : w = kept[L]
  BY <1>2
<1>7. Len(w) = L /\ \A i \in 1..L : w[i] = s[i]
  BY <1>5, <1>6
<1>8. w = s
  BY <1>1, <1>7
<1> QED
  BY <1>2, <1>6, <1>8

-----------------------------------------------------------------------------
(* Joined                                                                    *)

Joining(joined, s, T) ==
  /\ joined \in [0..Len(s) -> Seq(T)]
  /\ Joined(s) = joined[Len(s)]
  /\ joined[0] = <<>>
  /\ \A n \in 1..Len(s) : joined[n] = joined[n - 1] \o s[n]

LEMMA JoinedRecurs ==
  ASSUME NEW T, NEW s \in Seq(Seq(T))
  PROVE  \E joined : Joining(joined, s, T)
<1> DEFINE L == Len(s)
           step == [x \in (1..L) \X Seq(T) |-> x[2] \o s[x[1]]]
           Is(f) == f = [n \in 0..L |-> IF n = 0 THEN <<>> ELSE f[n - 1] \o s[n]]
<1>1. L \in Nat
  OBVIOUS
<1>2. step \in [(1..L) \X Seq(T) -> Seq(T)]
  <2>1. ASSUME NEW x \in (1..L) \X Seq(T)
        PROVE  x[2] \o s[x[1]] \in Seq(T)
    <3>1. s[x[1]] \in Seq(T) /\ x[2] \in Seq(T)
      OBVIOUS
    <3> QED
      BY <3>1
  <2> QED
    BY <2>1
<1>3. <<>> \in Seq(T)
  OBVIOUS
<1>4. PICK f \in [0..L -> Seq(T)] :
         f[0] = <<>> /\ \A n \in 1..L : f[n] = step[<<n, f[n - 1]>>]
  <2>1. PICK top, D, does, base :
           top = L /\ D = Seq(T) /\ does = step /\ base = <<>>
    OBVIOUS
  <2>2. top \in Nat /\ base \in D /\ does \in [(1..top) \X D -> D]
    <3> HIDE DEF step, L
    <3> QED
      BY <1>1, <1>2, <1>3, <2>1
  <2>3. PICK f : Recurs(f, top, D, base, does)
    BY <2>2, Recursion
  <2> HIDE DEF L, step
  <2> QED
    BY <2>1, <2>3 DEF Recurs
<1>5. ASSUME NEW n \in 1..L
      PROVE  f[n] = f[n - 1] \o s[n]
  <2>1. n - 1 \in 0..L
    BY <1>1
  <2>2. PICK k \in Seq(T) : k = f[n - 1]
    BY <1>4, <2>1
  <2>3. step[<<n, k>>] = k \o s[n]
    OBVIOUS
  <2> QED
    BY <1>4, <2>2, <2>3
<1>6. Is(f)
  <2>1. \A n \in 0..L : n = 0 \/ n \in 1..L
    BY <1>1
  <2>2. \A n \in 0..L : f[n] = IF n = 0 THEN <<>> ELSE f[n - 1] \o s[n]
    BY <1>4, <1>5, <2>1
  <2> QED
    BY <1>4, <2>2
<1> DEFINE joined == CHOOSE g : Is(g)
<1>7. Is(joined)
  BY <1>6
<1>8. Joined(s) = joined[L]
  BY DEF Joined
<1>9. joined = f
  <2> DEFINE S == {n \in 0..L : joined[n] = f[n]}
  <2>2. 0 \in S
    <3> HIDE DEF joined
    <3>1. joined[0] = <<>>
      BY <1>1, <1>7
    <3> QED
      BY <1>1, <1>4, <3>1
  <2>3. ASSUME NEW n \in Nat, n \in S, n < L
        PROVE  n + 1 \in S
    <3>1. PICK m \in 1..L : m = n + 1
      BY <1>1, <2>3
    <3>2. m \in 0..L /\ m # 0 /\ m - 1 = n
      BY <1>1, <2>3, <3>1
    <3>3. joined[m] = joined[n] \o s[m]
      <4> HIDE DEF joined
      <4> QED
        BY <1>7, <3>2
    <3>4. f[m] = f[n] \o s[m]
      BY <1>5, <3>2
    <3> QED
      BY <2>3, <3>1, <3>2, <3>3, <3>4
  <2>4. 0..L \subseteq S
    <3> HIDE DEF S
    <3> QED
      BY <1>1, <2>2, <2>3, AllUpTo
  <2>5. \A n \in 0..L : joined[n] = f[n]
    BY <2>4
  <2>6. joined = [n \in 0..L |-> joined[n]]
    <3> HIDE DEF joined
    <3> QED
      BY <1>7
  <2>7. f = [n \in 0..L |-> f[n]]
    BY <1>4
  <2> QED
    <3> HIDE DEF joined
    <3> QED
      BY <2>5, <2>6, <2>7
<1>10. Joined(s) = f[L]
  BY <1>8, <1>9
<1>11. Joining(f, s, T)
  BY <1>4, <1>5, <1>10 DEF Joining
<1> QED
  BY <1>11

(* What Joined returns has the members of its parts, each once if no part has   *)
(* one twice and no two parts have one in common.                            *)
LEMMA JoinedHas ==
  ASSUME NEW T, NEW s \in Seq(Seq(T))
  PROVE  /\ Joined(s) \in Seq(T)
         /\ Members(Joined(s)) = UNION {Members(s[i]) : i \in 1..Len(s)}
         /\ (/\ \A i \in 1..Len(s) : Distinct(s[i])
             /\ \A i, j \in 1..Len(s) : i # j => Members(s[i]) \cap Members(s[j]) = {})
              => Distinct(Joined(s))
<1>1. PICK L \in Nat : L = Len(s)
  OBVIOUS
<1>2a. PICK joined : Joining(joined, s, T)
  BY JoinedRecurs
<1>2. /\ joined \in [0..L -> Seq(T)]
      /\ Joined(s) = joined[L]
      /\ joined[0] = <<>>
      /\ \A n \in 1..L : joined[n] = joined[n - 1] \o s[n]
  BY <1>1, <1>2a DEF Joining
<1> DEFINE Apart == /\ \A i \in 1..L : Distinct(s[i])
                    /\ \A i, j \in 1..L : i # j => Members(s[i]) \cap Members(s[j]) = {}
           First(n) == UNION {Members(s[i]) : i \in 1..n}
           S == {n \in 0..L : /\ Members(joined[n]) = First(n)
                              /\ Apart => Distinct(joined[n])}
<1>3. 0 \in S
  <2>1. Members(<<>>) = {} /\ Distinct(<<>>) /\ First(0) = {}
    BY DEF Members, Distinct
  <2>2. PICK k : k = joined[0]
    OBVIOUS
  <2>3. k = <<>>
    BY <1>2, <2>2
  <2> HIDE DEF First, Apart
  <2>4. Members(k) = First(0) /\ (Apart => Distinct(k))
    BY <2>1, <2>3
  <2> QED
    BY <2>2, <2>4
<1>4. ASSUME NEW n \in Nat, n \in S, n < L
      PROVE  n + 1 \in S
  <2>1. PICK m \in 1..L : m = n + 1
    <3> HIDE DEF S
    <3> QED
      BY <1>4
  <2>2. m \in 0..L /\ m - 1 = n /\ n \in 0..L
    <3> HIDE DEF S
    <3> QED
      BY <1>4, <2>1
  <2>3. PICK k \in Seq(T) : k = joined[n]
    BY <1>2, <2>2
  <2>4. PICK t \in Seq(T) : t = s[m]
    BY <1>1
  <2>5. joined[m] = k \o t
    BY <1>2, <2>2, <2>3, <2>4
  <2>6. Members(k) = First(n) /\ (Apart => Distinct(k))
    BY <1>4, <2>3
  <2>7. /\ Members(k \o t) = Members(k) \cup Members(t)
        /\ Distinct(k) /\ Distinct(t) /\ Members(k) \cap Members(t) = {} => Distinct(k \o t)
    BY MembersOfConcat
  <2>8. First(m) = First(n) \cup Members(t)
    <3>1. \A i \in 1..m : i \in 1..n \/ i = m
      BY <2>1
    <3>2. 1..n \subseteq 1..m /\ m \in 1..m
      BY <2>1
    <3> QED
      BY <2>4, <3>1, <3>2
  <2>9. ASSUME Apart PROVE Distinct(k \o t)
    <3>1. \A i \in 1..n : i \in 1..L /\ i # m
      BY <1>4, <2>1
    <3>2. First(n) \cap Members(t) = {}
      BY <2>4, <2>9, <3>1
    <3>3. Distinct(t)
      BY <2>4, <2>9
    <3> QED
      <4> HIDE DEF First, Apart
      <4> QED
        BY <2>6, <2>7, <2>9, <3>2, <3>3
  <2> HIDE DEF First, Apart
  <2> QED
    BY <2>1, <2>2, <2>5, <2>6, <2>7, <2>8, <2>9
<1>5. L \in S
  <2> HIDE DEF S
  <2>1. 0..L \subseteq S
    BY <1>3, <1>4, AllUpTo
  <2> QED
    BY <2>1
<1>6. Joined(s) \in Seq(T)
  BY <1>2
<1> QED
  BY <1>1, <1>2, <1>5, <1>6
IsConcat(k, s, t, T) ==
  /\ k \in Seq(T) /\ Len(k) = Len(s) + Len(t)
  /\ \A i \in 1..Len(s) : k[i] = s[i]
  /\ \A i \in 1..Len(t) : k[Len(s) + i] = t[i]

LEMMA ConcatForm ==
  ASSUME NEW T, NEW s \in Seq(T), NEW t \in Seq(T), NEW k, k = s \o t
  PROVE  IsConcat(k, s, t, T)
BY DEF IsConcat

(* The parts of two sequences, one after the other.                           *)
LEMMA JoinedOfConcat ==
  ASSUME NEW T, NEW s \in Seq(Seq(T)), NEW t \in Seq(Seq(T))
  PROVE  /\ Joined(s) \in Seq(T) /\ Joined(t) \in Seq(T)
         /\ Joined(s \o t) = Joined(s) \o Joined(t)
<1>1. PICK N \in Nat, M \in Nat : N = Len(s) /\ M = Len(t)
  OBVIOUS
<1>2. PICK g : g = s \o t
  OBVIOUS
<1>3. /\ g \in Seq(Seq(T)) /\ Len(g) = N + M
      /\ \A i \in 1..N : g[i] = s[i]
      /\ \A i \in 1..M : g[N + i] = t[i]
  BY <1>1, <1>2
<1>4. \A i \in 1..M : t[i] \in Seq(T)
  BY <1>1
<1>5. PICK a : Joining(a, s, T)
  BY JoinedRecurs
<1>6. PICK b : Joining(b, t, T)
  BY JoinedRecurs
<1>7. PICK c : Joining(c, g, T)
  BY <1>3, JoinedRecurs
<1>8. /\ a \in [0..N -> Seq(T)] /\ Joined(s) = a[N] /\ a[0] = <<>>
      /\ \A n \in 1..N : a[n] = a[n - 1] \o s[n]
  BY <1>1, <1>5 DEF Joining
<1>9. /\ b \in [0..M -> Seq(T)] /\ Joined(t) = b[M] /\ b[0] = <<>>
      /\ \A n \in 1..M : b[n] = b[n - 1] \o t[n]
  BY <1>1, <1>6 DEF Joining
<1>10. /\ c \in [0..(N + M) -> Seq(T)] /\ Joined(g) = c[N + M] /\ c[0] = <<>>
       /\ \A n \in 1..(N + M) : c[n] = c[n - 1] \o g[n]
  BY <1>3, <1>7 DEF Joining
<1>11. c[N] = a[N]
  <2> DEFINE S == {n \in 0..N : c[n] = a[n]}
  <2>1. 0 \in S
    BY <1>8, <1>10
  <2>2. ASSUME NEW n \in Nat, n \in S, n < N PROVE n + 1 \in S
    <3>1. PICK m \in 1..N : m = n + 1 /\ m - 1 = n /\ m \in 1..(N + M) /\ m \in 0..N
      <4>1. n < N
        BY <2>2
      <4>2. n + 1 \in 1..N /\ (n + 1) - 1 = n /\ n + 1 \in 1..(N + M) /\ n + 1 \in 0..N
        BY ONLY <4>1, n \in Nat, N \in Nat, M \in Nat
      <4> QED
        BY <4>2
    <3>2. c[n] = a[n]
      BY <2>2
    <3>3. c[m] = a[m]
      BY <1>3, <1>8, <1>10, <3>1, <3>2
    <3> QED
      BY <3>1, <3>3
  <2>3. 0..N \subseteq S
    <3> HIDE DEF S
    <3> QED
      BY <2>1, <2>2, AllUpTo
  <2> QED
    BY <2>3
<1>12. PICK w \in Seq(T) : w = a[N]
  BY <1>8
<1>13. c[N + M] = w \o b[M]
  <2> DEFINE S == {n \in 0..M : c[N + n] = w \o b[n]}
  <2>1. 0 \in S
    <3>1. w \o <<>> = w
      OBVIOUS
    <3>2. N + 0 = N
      OBVIOUS
    <3> QED
      BY <1>9, <1>11, <1>12, <3>1, <3>2
  <2>2. ASSUME NEW n \in Nat, n \in S, n < M PROVE n + 1 \in S
    <3>1. PICK m \in 1..M : /\ m = n + 1 /\ m - 1 = n /\ m \in 0..M /\ n \in 0..M
                            /\ N + m \in 1..(N + M) /\ (N + m) - 1 = N + n
      BY <2>2
    <3>2. c[N + n] = w \o b[n]
      BY <2>2
    <3>3. PICK x \in Seq(T), y \in Seq(T) : x = b[n] /\ y = t[m]
      BY <1>4, <1>9, <3>1
    <3>4. c[N + m] = (w \o x) \o y
      BY <1>3, <1>10, <3>1, <3>2, <3>3
    <3>5. b[m] = x \o y
      BY <1>9, <3>1, <3>3
    <3>6. (w \o x) \o y = w \o (x \o y)
      BY ConcatAssociative
    <3> QED
      BY <3>1, <3>4, <3>5, <3>6
  <2>3. 0..M \subseteq S
    <3> HIDE DEF S
    <3> QED
      BY <2>1, <2>2, AllUpTo
  <2> QED
    BY <2>3
<1> QED
  BY <1>2, <1>8, <1>9, <1>10, <1>12, <1>13

LEMMA JoinedOfAppend ==
  ASSUME NEW T, NEW s \in Seq(Seq(T)), NEW x \in Seq(T)
  PROVE  /\ Joined(s) \in Seq(T) /\ Joined(<<>>) = <<>>
         /\ Joined(Append(s, x)) = Joined(s) \o x
<1>1. PICK e, one : e = <<>> /\ one = <<x>>
  OBVIOUS
<1>2. e \in Seq(Seq(T)) /\ Len(e) = 0 /\ one \in Seq(Seq(T)) /\ Len(one) = 1 /\ one[1] = x
  BY <1>1
<1>3. PICK none : Joining(none, e, T)
  BY <1>2, JoinedRecurs
<1>4. Joined(e) = <<>>
  BY <1>2, <1>3 DEF Joining
<1>5. PICK j : Joining(j, one, T)
  BY <1>2, JoinedRecurs
<1>6. j[0] = <<>> /\ Joined(one) = j[1] /\ \A n \in 1..1 : j[n] = j[n - 1] \o one[n]
  BY <1>2, <1>5 DEF Joining
<1>7. Joined(one) = x
  <2>1. j[1] = <<>> \o x
    <3>1. 1 \in 1..1 /\ 1 - 1 = 0
      OBVIOUS
    <3> QED
      BY <1>2, <1>6, <3>1
  <2>2. <<>> \o x = x
    OBVIOUS
  <2> QED
    BY <1>6, <2>1, <2>2
<1>8. Append(s, x) = s \o one
  BY <1>1
<1> QED
  BY <1>1, <1>2, <1>4, <1>7, <1>8, JoinedOfConcat

(* `at` says where the members of w are in s.                                  *)
EmbedsAt(at, w, s) ==
  /\ at \in [1..Len(w) -> 1..Len(s)]
  /\ \A i \in 1..Len(w) : w[i] = s[at[i]] /\ at[i] \in Nat
  /\ \A i, j \in 1..Len(w) : i < j => at[i] < at[j]

LEMMA WithoutSelects ==
  ASSUME NEW T, NEW s, s \in Seq(T), NEW ids, NEW w, w = Without(s, ids)
  PROVE  /\ w \in Seq(T) /\ Members(w) = Members(s) \ ids
         /\ \E at : EmbedsAt(at, w, s)
<1>1. PICK at : /\ at \in [1..Len(w) -> 1..Len(s)]
                /\ \A i \in 1..Len(w) : w[i] = s[at[i]]
                /\ \A i, j \in 1..Len(w) : i < j => at[i] < at[j]
  BY WithoutEmbeds
<1>2. \A i \in 1..Len(w) : at[i] \in Nat
  BY <1>1
<1>3. EmbedsAt(at, w, s)
  BY <1>1, <1>2 DEF EmbedsAt
<1> QED
  BY <1>3, WithoutEmbeds

(* Two sequences of which the same is kept, of the longer one nothing beyond.   *)
KeptAlike(s, ids, t, others) ==
  /\ Len(s) <= Len(t)
  /\ \A i \in 1..Len(t) : i <= Len(s) =>
        (s[i] \in ids <=> t[i] \in others) /\ (s[i] \notin ids => s[i] = t[i])
  /\ \A i \in 1..Len(t) : i > Len(s) => t[i] \in others

LEMMA WithoutAlike ==
  ASSUME NEW T, NEW s \in Seq(T), NEW t \in Seq(T), NEW ids, NEW others, KeptAlike(s, ids, t, others)
  PROVE  Without(s, ids) = Without(t, others)
<1> USE DEF KeptAlike
<1>1. PICK N \in Nat, M \in Nat : N = Len(s) /\ M = Len(t) /\ N <= M
  OBVIOUS
<1>2. PICK a : Keeping(a, s, ids, T)
  BY WithoutRecurs
<1>3. PICK b : Keeping(b, t, others, T)
  BY WithoutRecurs
<1>4. /\ Without(s, ids) = a[N] /\ a[0] = <<>>
      /\ \A n \in 1..N : a[n] = IF s[n] \in ids THEN a[n - 1] ELSE Append(a[n - 1], s[n])
  BY <1>1, <1>2 DEF Keeping
<1>5. /\ Without(t, others) = b[M] /\ b[0] = <<>>
      /\ \A n \in 1..M : b[n] = IF t[n] \in others THEN b[n - 1] ELSE Append(b[n - 1], t[n])
  BY <1>1, <1>3 DEF Keeping
<1> DEFINE S == {n \in 0..M : b[n] = IF n <= N THEN a[n] ELSE a[N]}
<1>6. 0 \in S
  BY <1>4, <1>5
<1>7. ASSUME NEW n \in Nat, n \in S, n < M PROVE n + 1 \in S
  <2>1. PICK m \in 1..M : m = n + 1 /\ m - 1 = n /\ m \in 0..M
    BY <1>7
  <2>2. b[n] = IF n <= N THEN a[n] ELSE a[N]
    BY <1>7
  <2>3. b[m] = IF t[m] \in others THEN b[n] ELSE Append(b[n], t[m])
    BY <1>5, <2>1
  <2>4. CASE m <= N
    <3>1. a[m] = IF s[m] \in ids THEN a[n] ELSE Append(a[n], s[m])
      BY <1>4, <2>1, <2>4
    <3>2. (s[m] \in ids <=> t[m] \in others) /\ (s[m] \notin ids => s[m] = t[m])
      BY <1>1, <2>4
    <3>3. b[n] = a[n]
      BY <2>1, <2>2, <2>4
    <3>4. b[m] = a[m]
      BY <2>3, <3>1, <3>2, <3>3
    <3> QED
      BY <2>1, <2>4, <3>4
  <2>5. CASE m > N
    <3>1. t[m] \in others
      BY <1>1, <2>5
    <3>2. b[m] = b[n]
      BY <2>3, <3>1
    <3>3. b[n] = a[N]
      BY <1>1, <2>1, <2>2, <2>5
    <3>4. ~(m <= N)
      BY <1>1, <2>5
    <3> QED
      BY <2>1, <3>2, <3>3, <3>4
  <2> QED
    BY <1>1, <2>4, <2>5
<1>8. M \in S
  <2> HIDE DEF S
  <2>1. 0..M \subseteq S
    BY <1>6, <1>7, AllUpTo
  <2> QED
    BY <2>1
<1>9. b[M] = a[N]
  BY <1>1, <1>8
<1> QED
  BY <1>4, <1>5, <1>9

Maps(h, U, V) == h \in [U -> V]

(* h of each member of s.                                                     *)
Mapped(h, s) == [i \in DOMAIN s |-> h[s[i]]]

LEMMA MappedForm ==
  ASSUME NEW U, NEW V, NEW h, Maps(h, U, V), NEW s \in Seq(U)
  PROVE  /\ Mapped(h, s) \in Seq(V) /\ Len(Mapped(h, s)) = Len(s)
         /\ \A i \in 1..Len(s) : Mapped(h, s)[i] = h[s[i]] /\ h[s[i]] \in V
<1>1. PICK L \in Nat : L = Len(s)
  OBVIOUS
<1>1a. h \in [U -> V]
  BY DEF Maps
<1>2. DOMAIN s = 1..L /\ \A i \in 1..L : s[i] \in U
  BY <1>1
<1>3. PICK m : m = [i \in 1..L |-> h[s[i]]]
  OBVIOUS
<1>4. Mapped(h, s) = m
  BY <1>2, <1>3 DEF Mapped
<1>5. m \in Seq(V) /\ Len(m) = L
  BY <1>1a, <1>2, <1>3
<1> QED
  BY <1>1, <1>1a, <1>2, <1>3, <1>4, <1>5

IsMapped(m, h, s, V) ==
  /\ m \in Seq(V) /\ Len(m) = Len(s)
  /\ \A i \in 1..Len(s) : m[i] = h[s[i]]

LEMMA MappedIs ==
  ASSUME NEW U, NEW V, NEW h, Maps(h, U, V), NEW s, s \in Seq(U)
  PROVE  IsMapped(Mapped(h, s), h, s, V)
<1>1. /\ Mapped(h, s) \in Seq(V) /\ Len(Mapped(h, s)) = Len(s)
      /\ \A i \in 1..Len(s) : Mapped(h, s)[i] = h[s[i]] /\ h[s[i]] \in V
  BY MappedForm
<1> QED
  BY <1>1 DEF IsMapped

LEMMA MappedOfAppend ==
  ASSUME NEW U, NEW V, NEW h, Maps(h, U, V), NEW s \in Seq(U), NEW x \in U
  PROVE  Mapped(h, Append(s, x)) = Append(Mapped(h, s), h[x])
<1>1. PICK L \in Nat : L = Len(s)
  OBVIOUS
<1>2. PICK g, m, w, e : g = Append(s, x) /\ m = Mapped(h, s) /\ w = Mapped(h, g) /\ e = h[x]
  OBVIOUS
<1>3. g \in Seq(U) /\ Len(g) = L + 1 /\ g[L + 1] = x /\ \A i \in 1..L : g[i] = s[i]
  BY <1>1, <1>2
<1>4. m \in Seq(V) /\ Len(m) = L /\ e \in V /\ \A i \in 1..L : m[i] = h[s[i]]
  <2>1. IsMapped(m, h, s, V)
    BY <1>2, MappedIs
  <2>2. h[x] \in V
    BY DEF Maps
  <2> QED
    BY <1>1, <1>2, <2>1, <2>2 DEF IsMapped
<1>5. w \in Seq(V) /\ Len(w) = L + 1 /\ \A i \in 1..(L + 1) : w[i] = h[g[i]]
  <2>1. IsMapped(w, h, g, V)
    BY <1>2, <1>3, MappedIs
  <2> QED
    BY <1>3, <2>1 DEF IsMapped
<1>6. PICK k : k = Append(m, e)
  OBVIOUS
<1>7. k \in Seq(V) /\ Len(k) = L + 1 /\ k[L + 1] = e /\ \A i \in 1..L : k[i] = m[i]
  BY <1>4, <1>6
<1>8. \A i \in 1..(L + 1) : i \in 1..L \/ i = L + 1
  OBVIOUS
<1>9. \A i \in 1..(L + 1) : w[i] = k[i]
  BY <1>2, <1>3, <1>4, <1>5, <1>7, <1>8
<1>10. w = k
  BY <1>5, <1>7, <1>9, SeqEqual
<1> QED
  BY <1>2, <1>6, <1>10

LEMMA MappedOfConcat ==
  ASSUME NEW U, NEW V, NEW h, Maps(h, U, V), NEW s \in Seq(U), NEW t \in Seq(U)
  PROVE  Mapped(h, s \o t) = Mapped(h, s) \o Mapped(h, t)
<1>1. PICK N \in Nat, M \in Nat : N = Len(s) /\ M = Len(t)
  OBVIOUS
<1>2. PICK g, a, b, w : g = s \o t /\ a = Mapped(h, s) /\ b = Mapped(h, t) /\ w = Mapped(h, g)
  OBVIOUS
<1>3. /\ g \in Seq(U) /\ Len(g) = N + M
      /\ \A i \in 1..N : g[i] = s[i]
      /\ \A i \in 1..M : g[N + i] = t[i]
  BY <1>1, <1>2
<1>3a. IsMapped(a, h, s, V) /\ IsMapped(b, h, t, V)
  BY <1>2, MappedIs
<1>4. a \in Seq(V) /\ Len(a) = N /\ \A i \in 1..N : a[i] = h[s[i]]
  BY <1>1, <1>3a DEF IsMapped
<1>5. b \in Seq(V) /\ Len(b) = M /\ \A i \in 1..M : b[i] = h[t[i]]
  BY <1>1, <1>3a DEF IsMapped
<1>6. w \in Seq(V) /\ Len(w) = N + M /\ \A i \in 1..(N + M) : w[i] = h[g[i]]
  <2>1. IsMapped(w, h, g, V)
    BY <1>2, <1>3, MappedIs
  <2> QED
    BY <1>3, <2>1 DEF IsMapped
<1>7. PICK k : k = a \o b
  OBVIOUS
<1>8. /\ k \in Seq(V) /\ Len(k) = N + M
      /\ \A i \in 1..N : k[i] = a[i]
      /\ \A i \in 1..M : k[N + i] = b[i]
  <2>1. a \in Seq(V) /\ b \in Seq(V) /\ Len(a) = N /\ Len(b) = M
    BY <1>4, <1>5
  <2>2. IsConcat(k, a, b, V)
    BY <1>7, <2>1, ConcatForm
  <2> QED
    BY <2>1, <2>2 DEF IsConcat
<1>9. ASSUME NEW i \in 1..(N + M) PROVE w[i] = k[i]
  <2>0. w[i] = h[g[i]]
    BY <1>6
  <2>1. CASE i \in 1..N
    <3>1. g[i] = s[i] /\ a[i] = h[s[i]] /\ k[i] = a[i]
      BY <1>3, <1>4, <1>8, <2>1
    <3> QED
      BY <2>0, <3>1
  <2>2. CASE i \notin 1..N
    <3>1. PICK j \in 1..M : i = N + j
      <4>1. i - N \in 1..M /\ i = N + (i - N)
        BY <2>2
      <4> QED
        BY <4>1
    <3>2. g[N + j] = t[j] /\ b[j] = h[t[j]] /\ k[N + j] = b[j]
      BY <1>3, <1>5, <1>8
    <3> QED
      BY <2>0, <3>1, <3>2
  <2> QED
    BY <2>1, <2>2
<1>10. w = k
  BY <1>6, <1>8, <1>9, SeqEqual
<1> QED
  BY <1>2, <1>7, <1>10

(* What flat_map makes of a longer sequence.                                   *)
LEMMA JoinedOfMapped ==
  ASSUME NEW T, NEW U, NEW h, Maps(h, U, Seq(T)), NEW s \in Seq(U)
  PROVE  /\ Joined(Mapped(h, s)) \in Seq(T) /\ Joined(Mapped(h, <<>>)) = <<>>
         /\ \A x \in U : Joined(Mapped(h, Append(s, x))) = Joined(Mapped(h, s)) \o h[x]
         /\ \A t \in Seq(U) : Joined(Mapped(h, s \o t)) = Joined(Mapped(h, s)) \o Joined(Mapped(h, t))
<1>1. PICK m : m = Mapped(h, s)
  OBVIOUS
<1>2. m \in Seq(Seq(T))
  BY <1>1, MappedForm
<1>3. Joined(m) \in Seq(T)
  BY <1>2, JoinedHas
<1>4. ASSUME NEW x \in U PROVE Joined(Mapped(h, Append(s, x))) = Joined(m) \o h[x]
  <2>1. PICK y \in Seq(T) : y = h[x]
    BY DEF Maps
  <2>2. Mapped(h, Append(s, x)) = Append(m, y)
    BY <1>1, <2>1, MappedOfAppend
  <2>3. Joined(Append(m, y)) = Joined(m) \o y
    BY <1>2, JoinedOfAppend
  <2> QED
    BY <2>1, <2>2, <2>3
<1>5. ASSUME NEW t \in Seq(U)
      PROVE  Joined(Mapped(h, s \o t)) = Joined(m) \o Joined(Mapped(h, t))
  <2>1. PICK k : k = Mapped(h, t)
    OBVIOUS
  <2>2. k \in Seq(Seq(T))
    BY <2>1, MappedForm
  <2>3. Mapped(h, s \o t) = m \o k
    <3>1. Mapped(h, s \o t) = Mapped(h, s) \o Mapped(h, t)
      BY MappedOfConcat
    <3> QED
      BY <1>1, <2>1, <3>1
  <2> QED
    BY <1>2, <2>1, <2>2, <2>3, JoinedOfConcat
<1>6. Joined(Mapped(h, <<>>)) = <<>>
  <2>1. PICK e : e = <<>>
    OBVIOUS
  <2>2. e \in Seq(U) /\ Len(e) = 0
    BY <2>1
  <2>3. PICK k : k = Mapped(h, e)
    OBVIOUS
  <2>4. k \in Seq(Seq(T)) /\ Len(k) = 0
    <3>1. IsMapped(k, h, e, Seq(T))
      BY <2>2, <2>3, MappedIs
    <3> QED
      BY <2>2, <3>1 DEF IsMapped
  <2>5. k = <<>>
    BY <2>4
  <2>6. Joined(<<>>) = <<>>
    <3>1. <<>> \in Seq(Seq(T)) /\ <<>> \in Seq(T)
      OBVIOUS
    <3> QED
      BY <3>1, JoinedOfAppend
  <2> QED
    BY <2>1, <2>3, <2>5, <2>6
<1> QED
  BY <1>1, <1>3, <1>4, <1>5, <1>6

LEMMA JoinedMappedConcat ==
  ASSUME NEW T, NEW U, NEW h, Maps(h, U, Seq(T)), NEW s, s \in Seq(U), NEW t, t \in Seq(U)
  PROVE  Joined(Mapped(h, s \o t)) = Joined(Mapped(h, s)) \o Joined(Mapped(h, t))
<1>1. PICK m, k, c : m = Mapped(h, s) /\ k = Mapped(h, t) /\ c = Mapped(h, s \o t)
  OBVIOUS
<1>2. IsMapped(m, h, s, Seq(T)) /\ IsMapped(k, h, t, Seq(T))
  BY <1>1, MappedIs
<1>3. c = m \o k
  <2>1. Mapped(h, s \o t) = Mapped(h, s) \o Mapped(h, t)
    BY MappedOfConcat
  <2> QED
    BY <1>1, <2>1
<1>4. Joined(m \o k) = Joined(m) \o Joined(k)
  BY <1>2, JoinedOfConcat DEF IsMapped
<1> QED
  BY <1>1, <1>3, <1>4

-----------------------------------------------------------------------------
(* Listing a set in an order                                                 *)

(* R orders S strictly and totally.                                          *)
OrderOn(R, S) ==
  /\ \A e \in S : <<e, e>> \notin R
  /\ \A e, f, g \in S : <<e, f>> \in R /\ <<f, g>> \in R => <<e, g>> \in R
  /\ \A e, f \in S : e # f => <<e, f>> \in R \/ <<f, e>> \in R

(* The members of S, each at the place that the number of those before it gives. *)
ListedBy(S, R) ==
  [i \in 1..Cardinality(S) |->
      CHOOSE e \in S : Cardinality({f \in S : <<f, e>> \in R}) = i - 1]

(* ListedBy has each member once, the earlier ones first.                       *)
LEMMA OrderLists ==
  ASSUME NEW S, IsFiniteSet(S), NEW R, OrderOn(R, S)
  PROVE  /\ Cardinality(S) \in Nat
         /\ ListedBy(S, R) \in [1..Cardinality(S) -> S]
         /\ \A e \in S : \E i \in 1..Cardinality(S) : ListedBy(S, R)[i] = e
         /\ \A i, j \in 1..Cardinality(S) : i < j => <<ListedBy(S, R)[i], ListedBy(S, R)[j]>> \in R
<1> DEFINE n == Cardinality(S)
           Below(e) == {f \in S : <<f, e>> \in R}
<1>1. n \in Nat
  BY FS_CardinalityType
<1>2. ASSUME NEW e \in S
      PROVE  /\ IsFiniteSet(Below(e)) /\ Cardinality(Below(e)) \in Nat
             /\ Cardinality(Below(e)) < n
  <2>1. e \notin Below(e)
    BY DEF OrderOn
  <2>2. Below(e) \in SUBSET S /\ Below(e) # S
    BY <2>1
  <2>3. IsFiniteSet(Below(e)) /\ Cardinality(Below(e)) <= n
        /\ Cardinality(Below(e)) # n
    BY <2>2, FS_Subset
  <2>4. Cardinality(Below(e)) \in Nat
    BY <2>3, FS_CardinalityType
  <2> QED
    BY <1>1, <2>3, <2>4
<1>3. ASSUME NEW e \in S, NEW f \in S, <<e, f>> \in R
      PROVE  Cardinality(Below(e)) < Cardinality(Below(f))
  <2>1. Below(e) \in SUBSET Below(f)
    BY <1>3 DEF OrderOn
  <2>2. e \in Below(f) /\ e \notin Below(e)
    BY <1>3 DEF OrderOn
  <2>3. Cardinality(Below(e)) <= Cardinality(Below(f))
        /\ Cardinality(Below(e)) # Cardinality(Below(f))
    <3>1. IsFiniteSet(Below(f)) /\ Below(e) # Below(f)
      BY <1>2, <2>2
    <3> HIDE DEF Below
    <3> QED
      BY <2>1, <3>1, FS_Subset
  <2>4. Cardinality(Below(e)) \in Nat /\ Cardinality(Below(f)) \in Nat
    BY <1>2
  <2> QED
    BY <2>3, <2>4
<1>4. \A e, f \in S : e # f => <<e, f>> \in R \/ <<f, e>> \in R
  BY DEF OrderOn
<1>5. PICK rank : rank = [e \in S |-> Cardinality(Below(e)) + 1]
  OBVIOUS
<1>6. /\ rank \in [S -> 1..n]
      /\ \A e, f \in S : <<e, f>> \in R => rank[e] < rank[f]
  <2>1. \A e \in S : rank[e] = Cardinality(Below(e)) + 1
    BY <1>5
  <2>2. ASSUME NEW e \in S PROVE rank[e] \in 1..n
    <3>1. Cardinality(Below(e)) \in Nat /\ Cardinality(Below(e)) < n
      BY <1>2
    <3>2. rank[e] = Cardinality(Below(e)) + 1
      BY <2>1
    <3> HIDE DEF Below, n
    <3> QED
      BY <1>1, <3>1, <3>2
  <2>3. ASSUME NEW e \in S, NEW f \in S, <<e, f>> \in R PROVE rank[e] < rank[f]
    <3>1. /\ Cardinality(Below(e)) \in Nat /\ Cardinality(Below(f)) \in Nat
          /\ Cardinality(Below(e)) < Cardinality(Below(f))
      BY <1>2, <1>3, <2>3
    <3>2. rank[e] = Cardinality(Below(e)) + 1 /\ rank[f] = Cardinality(Below(f)) + 1
      BY <2>1
    <3> HIDE DEF Below, n
    <3> QED
      BY <3>1, <3>2
  <2> QED
    BY <1>5, <2>2, <2>3
<1>7. \A e, f \in S : rank[e] = rank[f] => e = f
  <2> SUFFICES ASSUME NEW e \in S, NEW f \in S, rank[e] = rank[f], e # f PROVE FALSE
    OBVIOUS
  <2>1. rank[e] \in Nat /\ rank[f] \in Nat
    BY <1>1, <1>6
  <2>2. rank[e] < rank[f] \/ rank[f] < rank[e]
    BY <1>4, <1>6
  <2> QED
    BY <2>1, <2>2
<1>8. \A i \in 1..n : ListedBy(S, R)[i] \in S /\ rank[ListedBy(S, R)[i]] = i
  <2>1. rank \in Injection(S, 1..n)
    BY <1>6, <1>7 DEF Injection, IsInjective
  <2>2. rank \in Surjection(S, 1..n)
    <3>1. IsFiniteSet(1..n) /\ Cardinality(1..n) = n
      BY <1>1, FS_Interval
    <3> QED
      BY <2>1, <3>1, FS_Injection
  <2> TAKE i \in 1..n
  <2>3. PICK e \in S : rank[e] = i
    BY <2>2 DEF Surjection
  <2>4. Cardinality(Below(e)) = i - 1
    <3>1. i = Cardinality(Below(e)) + 1
      BY <1>5, <2>3
    <3>2. Cardinality(Below(e)) \in Nat
      BY <1>2
    <3> HIDE DEF Below
    <3> QED
      BY <3>1, <3>2
  <2>5. ListedBy(S, R)[i] = CHOOSE g \in S : Cardinality(Below(g)) = i - 1
    BY DEF ListedBy
  <2>6. ListedBy(S, R)[i] \in S /\ Cardinality(Below(ListedBy(S, R)[i])) = i - 1
    BY <2>4, <2>5
  <2> QED
    BY <1>1, <1>5, <2>6
<1>9. ListedBy(S, R) \in [1..n -> S]
  <2>1. \A i \in 1..n : ListedBy(S, R)[i] \in S
    BY <1>8
  <2> DEFINE At(i) == CHOOSE e \in S : Cardinality(Below(e)) = i - 1
  <2>2. ListedBy(S, R) = [i \in 1..n |-> At(i)]
    BY DEF ListedBy
  <2> HIDE DEF At, n
  <2> QED
    BY <2>1, <2>2
<1>10. ASSUME NEW e \in S PROVE \E i \in 1..n : ListedBy(S, R)[i] = e
  <2>1. rank[e] \in 1..n
    BY <1>6
  <2>2. ListedBy(S, R)[rank[e]] \in S /\ rank[ListedBy(S, R)[rank[e]]] = rank[e]
    BY <1>8, <2>1
  <2>3. ListedBy(S, R)[rank[e]] = e
    BY <1>7, <2>2
  <2> QED
    BY <2>1, <2>3
<1>11. ASSUME NEW i \in 1..n, NEW j \in 1..n, i < j
       PROVE  <<ListedBy(S, R)[i], ListedBy(S, R)[j]>> \in R
  <2>1. PICK e \in S, f \in S : e = ListedBy(S, R)[i] /\ f = ListedBy(S, R)[j] /\ rank[e] = i /\ rank[f] = j
    BY <1>8
  <2>2. e # f /\ <<f, e>> \notin R
    BY <1>1, <1>6, <1>11, <2>1
  <2> QED
    BY <1>4, <2>1, <2>2
<1> QED
  BY <1>1, <1>9, <1>10, <1>11
=============================================================================
