---------------------------- MODULE Dataset_proofs ----------------------------
(***************************************************************************)
(* What holds of every dataset a backend writes, for all sources, layouts, *)
(* shard limits and chunk sizes: how episodes are grouped into files, what *)
(* the files contain, where a reader looks, and that reading gives back    *)
(* what was written.  The pipeline and the editor rest on it.              *)
(***************************************************************************)
EXTENDS Dataset, DataLemmas

-----------------------------------------------------------------------------
(***************************************************************************)
(* Lists without repetitions.                                              *)
(***************************************************************************)

LEMMA DeduplicatedType ==
  ASSUME NEW n \in Nat, NEW seq, DOMAIN seq = 1 .. n
  PROVE  \A k \in DOMAIN Deduplicated(seq) :
           \E i \in 1 .. n : Deduplicated(seq)[k] = seq[i]
<1> DEFINE S == {i \in DOMAIN seq : \A j \in 1 .. i - 1 : seq[j] # seq[i]}
           first == Ascending(S)
<1>1. S \in SUBSET Nat /\ IsFiniteSet(S)
  <2>1. 1 \in Int /\ n \in Int /\ S \in SUBSET (1 .. n)
    OBVIOUS
  <2> HIDE DEF S
  <2>2. IsFiniteSet(1 .. n)
    BY <2>1, FS_Interval
  <2>3. IsFiniteSet(S)
    BY <2>1, <2>2, FS_Subset
  <2> QED BY <2>1, <2>3
<1> HIDE DEF S
<1>2. first \in [1 .. Cardinality(S) -> S]
  BY <1>1, AscendingType
<1>3. Deduplicated(seq) = [k \in DOMAIN first |-> seq[first[k]]]
  BY Zenon DEF Deduplicated, S
<1> HIDE DEF first
<1>4. S \subseteq 1 .. n
  BY DEF S
<1> QED
  BY <1>2, <1>3, <1>4

(* Every element is listed once.                                           *)
LEMMA DeduplicatedLists ==
  ASSUME NEW n \in Nat, NEW seq, DOMAIN seq = 1 .. n
  PROVE  LET d == Deduplicated(seq)
         IN  /\ \E c \in Nat : d = [k \in 1 .. c |-> d[k]]
             /\ IsInjective(d)
             /\ \A i \in 1 .. n : \E k \in DOMAIN d : d[k] = seq[i]
<1> DEFINE S == {i \in DOMAIN seq : \A j \in 1 .. i - 1 : seq[j] # seq[i]}
           first == Ascending(S)
           c == Cardinality(S)
           d == Deduplicated(seq)
<1>1. S \in SUBSET Nat /\ IsFiniteSet(S)
  <2>1. 1 \in Int /\ n \in Int /\ S \in SUBSET (1 .. n)
    OBVIOUS
  <2> HIDE DEF S
  <2>2. IsFiniteSet(1 .. n)
    BY <2>1, FS_Interval
  <2>3. IsFiniteSet(S)
    BY <2>1, <2>2, FS_Subset
  <2> QED BY <2>1, <2>3
<1>2. /\ \A i \in S : i \in 1 .. n /\ \A j \in 1 .. i - 1 : seq[j] # seq[i]
      /\ \A i \in 1 .. n : (\A j \in 1 .. i - 1 : seq[j] # seq[i]) => i \in S
  OBVIOUS
<1> HIDE DEF S
<1>3. c \in Nat /\ first \in [1 .. c -> S]
  BY <1>1, AscendingType
<1>4. d = [k \in DOMAIN first |-> seq[first[k]]]
  BY Zenon DEF Deduplicated, S
<1>5. /\ \A i \in S : \E k \in 1 .. c : first[k] = i
      /\ \A k, l \in 1 .. c : first[k] = first[l] => k = l
  <2>1. /\ \A i \in S : Cardinality({m \in S : m <= i}) \in 1 .. c
                        /\ first[Cardinality({m \in S : m <= i})] = i
        /\ \A k, l \in 1 .. c : first[k] = first[l] => k = l
    BY <1>1, AscendingRank
  <2> HIDE DEF first, c
  <2> QED BY <2>1
<1> HIDE DEF first, c, d
<1>6. DOMAIN d = 1 .. c /\ \A k \in 1 .. c : d[k] = seq[first[k]] /\ first[k] \in S
  BY <1>3, <1>4
<1>7. d = [k \in 1 .. c |-> d[k]]
  BY <1>3, <1>4
<1>8. \A i, j \in S : seq[i] = seq[j] => i = j
  <2> SUFFICES ASSUME NEW i \in S, NEW j \in S, seq[i] = seq[j], i < j \/ j < i
               PROVE  FALSE
    BY <1>1
  <2>1. CASE i < j
    BY <1>2, <2>1
  <2>2. CASE j < i
    BY <1>2, <2>2
  <2> QED BY <2>1, <2>2
<1>9. IsInjective(d)
  BY <1>5, <1>6, <1>8 DEF IsInjective
<1>10. ASSUME NEW i \in 1 .. n PROVE \E k \in DOMAIN d : d[k] = seq[i]
  <2> DEFINE T == {j \in 1 .. n : seq[j] = seq[i]}
  <2>1. T \in SUBSET (1 .. n) /\ T # {} /\ T \in SUBSET Int
    OBVIOUS
  <2>2. IsFiniteSet(T)
    <3>1. 1 \in Int /\ n \in Int
      OBVIOUS
    <3>2. IsFiniteSet(1 .. n)
      BY <3>1, FS_Interval
    <3> HIDE DEF T
    <3> QED BY <2>1, <3>2, FS_Subset
  <2>3. PICK a \in T : \A j \in T : a <= j
    <3> HIDE DEF T
    <3> QED BY <2>1, <2>2, FiniteMin
  <2>4. a \in 1 .. n /\ seq[a] = seq[i]
    OBVIOUS
  <2>5. ASSUME NEW j \in 1 .. a - 1 PROVE seq[j] # seq[a]
    <3>1. j \in 1 .. n /\ ~(a <= j)
      BY <2>4
    <3> QED BY <2>3, <2>4, <3>1
  <2>6. a \in S
    BY <1>2, <2>4, <2>5
  <2> QED BY <1>5, <1>6, <2>4, <2>6
<1>11. \E b \in Nat : d = [k \in 1 .. b |-> d[k]]
  BY <1>3, <1>7
<1> QED
  BY <1>9, <1>10, <1>11, Zenon DEF d

(* Elements that repeat earlier ones add nothing.                          *)
NoneAfter(seq, q, n) ==
  /\ \A i, j \in 1 .. q : seq[i] = seq[j] => i = j
  /\ \A i \in q + 1 .. n : \E j \in 1 .. q : seq[i] = seq[j]

LEMMA DeduplicatedPrefix ==
  ASSUME NEW n \in Nat, NEW seq, DOMAIN seq = 1 .. n, NEW q \in 0 .. n,
         NoneAfter(seq, q, n)
  PROVE  Deduplicated(seq) = [k \in 1 .. q |-> seq[k]]
<1> DEFINE S == {i \in DOMAIN seq : \A j \in 1 .. i - 1 : seq[j] # seq[i]}
           first == Ascending(S)
<1>1. S = 1 .. q
  <2> USE DEF NoneAfter
  <2>1. ASSUME NEW i \in 1 .. q PROVE i \in S
    OBVIOUS
  <2>2. ASSUME NEW i \in S PROVE i \in 1 .. q
    <3>1. i \in 1 .. n /\ \A j \in 1 .. i - 1 : seq[j] # seq[i]
      OBVIOUS
    <3> SUFFICES ASSUME i \in q + 1 .. n PROVE FALSE
      BY <3>1
    <3>2. PICK j \in 1 .. q : seq[i] = seq[j]
      OBVIOUS
    <3>3. j \in 1 .. i - 1
      OBVIOUS
    <3> QED BY <3>1, <3>2, <3>3
  <2> QED BY <2>1, <2>2
<1>2. Deduplicated(seq) = [k \in DOMAIN first |-> seq[first[k]]]
  BY Zenon DEF Deduplicated
<1> HIDE DEF S
<1>3. Ascending(1 .. 1 + q - 1) = [k \in 1 .. q |-> 1 + k - 1]
  BY AscendingInterval
<1>4. 1 .. 1 + q - 1 = 1 .. q
  OBVIOUS
<1>5. first = [k \in 1 .. q |-> 1 + k - 1]
  BY <1>1, <1>3, <1>4
<1> HIDE DEF first
<1>6. DOMAIN first = 1 .. q /\ \A k \in 1 .. q : first[k] = k
  BY <1>5
<1> QED
  BY <1>2, <1>6

(* What the resources of a merge list.                                     *)
Lists(res, used, n) ==
  /\ \E c \in Nat : res = [k \in 1 .. c |-> res[k]]
  /\ IsInjective(res)
  /\ \A k \in DOMAIN res : \E m \in 1 .. n : res[k] = used[m]
  /\ \A m \in 1 .. n : \E k \in DOMAIN res : res[k] = used[m]
  /\ (\A k, l \in 1 .. n : used[k] = used[l] => k = l) =>
       res = [m \in 1 .. n |-> used[m]]

(* Removing repeated uses lists the files that are used, each once.        *)
LEMMA DeduplicatedIs ==
  ASSUME NEW n \in Nat, NEW used, DOMAIN used = 1 .. n
  PROVE  Lists(Deduplicated(used), used, n)
<1> DEFINE res == Deduplicated(used)
<1>1. /\ \E c \in Nat : res = [k \in 1 .. c |-> res[k]]
      /\ IsInjective(res)
      /\ \A m \in 1 .. n : \E k \in DOMAIN res : res[k] = used[m]
  BY DeduplicatedLists
<1>2. \A k \in DOMAIN res : \E m \in 1 .. n : res[k] = used[m]
  BY DeduplicatedType
<1>3. ASSUME \A k, l \in 1 .. n : used[k] = used[l] => k = l
      PROVE  res = [m \in 1 .. n |-> used[m]]
  <2>1. n \in 0 .. n /\ NoneAfter(used, n, n)
    BY <1>3 DEF NoneAfter
  <2> HIDE DEF res
  <2>2. Deduplicated(used) = [m \in 1 .. n |-> used[m]]
    BY <2>1, DeduplicatedPrefix
  <2> QED BY <2>2 DEF res
<1> HIDE DEF res
<1>4. Lists(res, used, n)
  BY <1>1, <1>2, <1>3, Zenon DEF Lists
<1> QED BY <1>4 DEF res

-----------------------------------------------------------------------------
(***************************************************************************)
(* Shards, and what they contain.                                          *)
(***************************************************************************)

(* Shards.  The groups are consecutive: the g-th one holds the episodes    *)
(* from first[g] up to the one before first[g + 1].                        *)
Span(a, b) == [k \in 1 .. b - a |-> a + k - 1]

Cuts(groups, first, n) ==
  /\ groups \in Seq(Seq(Nat))
  /\ first \in [1 .. Len(groups) + 1 -> Nat \ {0}]
  /\ first[1] = 1 /\ first[Len(groups) + 1] = n + 1
  /\ \A g \in 1 .. Len(groups) :
       first[g] < first[g + 1] /\ groups[g] = Span(first[g], first[g + 1])

(* A shard of several episodes stays below the limit.                      *)
Below(group, sizes, limit) ==
  Len(group) = 1 \/ SumFunctionOnSet(sizes, ToSet(group)) < limit

LEMMA SpanProperties ==
  ASSUME NEW a \in Nat, NEW b \in Nat, a < b
  PROVE  /\ Span(a, b) \in Seq(Nat) /\ Len(Span(a, b)) = b - a
         /\ \A k \in 1 .. b - a : Span(a, b)[k] = a + k - 1
         /\ ToSet(Span(a, b)) = a .. b - 1
         /\ Append(Span(a, b), b) = Span(a, b + 1)
<1> DEFINE s == Span(a, b)
           t == Span(a, b + 1)
<1>1. s \in [1 .. b - a -> Nat] /\ b - a \in Nat
      /\ t \in [1 .. b + 1 - a -> Nat] /\ b + 1 - a \in Nat
  BY DEF Span
<1>2. s \in Seq(Nat) /\ t \in Seq(Nat)
  BY <1>1, SeqDef
<1>3. Len(s) = b - a /\ Len(t) = b + 1 - a
  <2>1. s = [k \in 1 .. b - a |-> s[k]]
    BY DEF Span
  <2>2. t = [k \in 1 .. b + 1 - a |-> t[k]]
    BY DEF Span
  <2> HIDE DEF s, t
  <2>3. Len(s) = b - a
    BY <1>1, <2>1, LenOfFunction
  <2>4. Len(t) = b + 1 - a
    BY <1>1, <2>2, LenOfFunction
  <2> QED BY <2>3, <2>4
<1>4. \A k \in 1 .. b - a : s[k] = a + k - 1
  BY DEF Span
<1>5. \A k \in 1 .. b + 1 - a : t[k] = a + k - 1
  BY DEF Span
<1>6. ToSet(s) = a .. b - 1
  <2>1. DOMAIN s = 1 .. b - a
    BY <1>1
  <2>2. ASSUME NEW x \in a .. b - 1 PROVE x \in ToSet(s)
    <3>1. x - a + 1 \in 1 .. b - a /\ a + (x - a + 1) - 1 = x
      OBVIOUS
    <3>2. s[x - a + 1] = x
      BY <1>4, <3>1
    <3> QED BY <2>1, <3>1, <3>2 DEF ToSet
  <2>3. ASSUME NEW x \in ToSet(s) PROVE x \in a .. b - 1
    <3>1. PICK k \in 1 .. b - a : x = s[k]
      BY <2>1 DEF ToSet
    <3> QED BY <1>4, <3>1
  <2> QED BY <2>2, <2>3
<1>7. Append(s, b) = t
  <2> HIDE DEF s, t
  <2> DEFINE u == Append(s, b)
  <2>1. /\ u \in Seq(Nat) /\ Len(u) = b - a + 1
        /\ \A i \in 1 .. b - a : u[i] = s[i]
        /\ u[b - a + 1] = b
    <3>1. b \in Nat
      OBVIOUS
    <3> QED BY <1>2, <1>3, <3>1, AppendProperties
  <2> HIDE DEF u
  <2>2. ASSUME NEW i \in 1 .. Len(u) PROVE u[i] = t[i]
    <3>1. i \in 1 .. b + 1 - a
      BY <2>1
    <3>2. CASE i = b - a + 1
      BY <1>5, <2>1, <3>1, <3>2
    <3>3. CASE i # b - a + 1
      <4>1. i \in 1 .. b - a
        BY <3>1, <3>3
      <4> QED BY <1>4, <1>5, <2>1, <3>1, <4>1
    <3> QED BY <3>2, <3>3
  <2>3. Len(u) = Len(t)
    BY <1>3, <2>1
  <2>4. u = t
    BY <1>2, <2>1, <2>2, <2>3, SeqEqual
  <2> QED BY <2>4 DEF u
<1> QED
  BY <1>2, <1>3, <1>4, <1>6, <1>7

LEMMA SpanOfOne ==
  ASSUME NEW b \in Nat
  PROVE  Span(b, b + 1) = <<b>>
<1>1. b + 1 - b = 1 /\ b + 1 - 1 = b
  OBVIOUS
<1> QED BY <1>1 DEF Span

(* One step of the grouping: the next episode opens a group or joins the   *)
(* last one.                                                               *)
JoinsOrOpens(groups, sizes, limit, i) ==
  IF groups = <<>> \/ SumFunctionOnSet(sizes, ToSet(Last(groups))) + sizes[i] >= limit
  THEN Append(groups, <<i>>)
  ELSE Append(Front(groups), Append(Last(groups), i))

LEMMA GroupingStep ==
  ASSUME NEW groups, NEW first, NEW n \in Nat, Cuts(groups, first, n),
         NEW sizes, \A i \in 1 .. n + 1 : sizes[i] \in Nat, NEW limit \in Nat,
         \A g \in 1 .. Len(groups) : Below(groups[g], sizes, limit)
  PROVE  LET next == JoinsOrOpens(groups, sizes, limit, n + 1)
         IN  /\ \E f : Cuts(next, f, n + 1)
             /\ \A g \in 1 .. Len(next) : Below(next[g], sizes, limit)
<1> DEFINE m == Len(groups)
           i == n + 1
<1>0. /\ groups \in Seq(Seq(Nat)) /\ m \in Nat /\ i \in Nat
      /\ first \in [1 .. m + 1 -> Nat \ {0}] /\ first[1] = 1 /\ first[m + 1] = i
      /\ \A g \in 1 .. m :
           first[g] < first[g + 1] /\ groups[g] = Span(first[g], first[g + 1])
      /\ \A g \in 1 .. m : Below(groups[g], sizes, limit)
      /\ \A x \in 1 .. i : sizes[x] \in Nat
  BY LenProperties DEF Cuts
<1> HIDE DEF m, i
<1>1. CASE groups = <<>> \/ SumFunctionOnSet(sizes, ToSet(Last(groups))) + sizes[i] >= limit
  <2> DEFINE next == Append(groups, <<i>>)
             f == [g \in 1 .. m + 2 |-> IF g = m + 2 THEN i + 1 ELSE first[g]]
  <2>1. next = JoinsOrOpens(groups, sizes, limit, i)
    BY <1>1 DEF JoinsOrOpens
  <2>2. /\ next \in Seq(Seq(Nat)) /\ Len(next) = m + 1
        /\ \A g \in 1 .. m : next[g] = groups[g]
        /\ next[m + 1] = <<i>>
    <3>1. <<i>> \in Seq(Nat)
      BY <1>0
    <3> QED BY <1>0, <3>1, AppendProperties DEF m
  <2>3. <<i>> = Span(i, i + 1) /\ Len(<<i>>) = 1
    <3>1. Len(<<i>>) = 1
      OBVIOUS
    <3> QED BY <1>0, <3>1, SpanOfOne
  <2>4. /\ f \in [1 .. m + 2 -> Nat \ {0}] /\ f[m + 2] = i + 1
        /\ \A g \in 1 .. m + 1 : f[g] = first[g]
    BY <1>0
  <2> HIDE DEF next, f
  <2>5. ASSUME NEW g \in 1 .. m + 1
        PROVE  /\ f[g] < f[g + 1] /\ next[g] = Span(f[g], f[g + 1])
               /\ Below(next[g], sizes, limit)
    <3>1. CASE g = m + 1
      <4>1. f[g] = i /\ f[g + 1] = i + 1 /\ next[g] = <<i>>
        <5>1. g + 1 = m + 2 /\ g \in 1 .. m + 1
          BY <1>0, <3>1
        <5> QED BY <1>0, <2>2, <2>4, <3>1, <5>1
      <4> QED BY <1>0, <2>3, <4>1 DEF Below
    <3>2. CASE g # m + 1
      <4>1. g \in 1 .. m /\ g + 1 \in 1 .. m + 1
        BY <1>0, <3>2
      <4>2. next[g] = groups[g] /\ f[g] = first[g] /\ f[g + 1] = first[g + 1]
        BY <2>2, <2>4, <4>1
      <4> QED BY <1>0, <4>1, <4>2
    <3> QED BY <3>1, <3>2
  <2>6. f[1] = 1
    BY <1>0, <2>4
  <2>7. Cuts(next, f, i)
    <3>1. Len(next) + 1 = m + 2
      BY <1>0, <2>2
    <3> QED BY <2>2, <2>4, <2>5, <2>6, <3>1 DEF Cuts
  <2> QED BY <2>1, <2>2, <2>5, <2>7 DEF i
<1>2. CASE ~(groups = <<>> \/ SumFunctionOnSet(sizes, ToSet(Last(groups))) + sizes[i] >= limit)
  <2> DEFINE front == Front(groups)
             last == Last(groups)
             grown == Append(last, i)
             next == Append(front, grown)
             f == [first EXCEPT ![m + 1] = i + 1]
  <2>0. m \in 1 .. m /\ m - 1 \in Nat /\ m - 1 \in Int /\ groups # <<>>
    <3>1. m \in Nat \ {0}
      BY <1>0, <1>2, EmptySeq DEF m
    <3> QED BY <1>2, <3>1
  <2>1. next = JoinsOrOpens(groups, sizes, limit, i)
    BY <1>2 DEF JoinsOrOpens
  <2>2. /\ front \in Seq(Seq(Nat)) /\ Len(front) = m - 1
        /\ \A g \in 1 .. m - 1 : front[g] = groups[g]
    <3>1. \A g \in 1 .. m - 1 : groups[g] \in Seq(Nat)
      BY <1>0, <2>0, ElementOfSeq DEF m
    <3>2. /\ SubSeq(groups, 1, m - 1) \in Seq(Seq(Nat))
          /\ Len(SubSeq(groups, 1, m - 1)) = IF 1 <= m - 1 THEN m - 1 - 1 + 1 ELSE 0
          /\ \A g \in 1 .. m - 1 - 1 + 1 : SubSeq(groups, 1, m - 1)[g] = groups[1 + g - 1]
      <4> HIDE DEF m
      <4>1. 1 \in Int
        OBVIOUS
      <4> QED BY <2>0, <3>1, <4>1, SubSeqProperties
    <3>3. front = SubSeq(groups, 1, m - 1)
      BY DEF Front, m
    <3> HIDE DEF front
    <3>4. \A g \in 1 .. m - 1 : g \in 1 .. m - 1 - 1 + 1 /\ 1 + g - 1 = g
      BY <2>0
    <3>5. Len(front) = m - 1
      BY <2>0, <3>2, <3>3
    <3> QED BY <3>2, <3>3, <3>4, <3>5
  <2>3. last = groups[m] /\ last = Span(first[m], i) /\ first[m] \in Nat \ {0} /\ first[m] < i
    <3>1. last = groups[m]
      BY DEF Last, m
    <3>2. m \in 1 .. m + 1
      BY <1>0, <2>0
    <3> QED BY <1>0, <2>0, <3>1, <3>2
  <2> DEFINE a == first[m]
  <2> HIDE DEF last, a
  <2>4. /\ grown = Span(a, i + 1) /\ ToSet(last) = a .. i - 1
        /\ grown \in Seq(Nat) /\ ToSet(grown) = a .. i
        /\ a \in Nat \ {0} /\ a < i
    <3>1. a \in Nat \ {0} /\ a < i /\ i + 1 \in Nat /\ a < i + 1 /\ last = Span(a, i)
      BY <1>0, <2>3 DEF a
    <3>2. grown = Span(a, i + 1) /\ ToSet(last) = a .. i - 1
      BY <1>0, <3>1, SpanProperties
    <3>3. Span(a, i + 1) \in Seq(Nat) /\ ToSet(Span(a, i + 1)) = a .. i + 1 - 1
      <4>0. PICK c \in Nat : c = i + 1
        BY <3>1
      <4>1. a \in Nat /\ a < c
        BY <3>1, <4>0
      <4>2. Span(a, c) \in Seq(Nat) /\ ToSet(Span(a, c)) = a .. c - 1
        BY <4>1, SpanProperties
      <4> QED BY <1>0, <3>1, <4>0, <4>2
    <3>4. i + 1 - 1 = i
      BY <1>0
    <3> QED BY <3>1, <3>2, <3>3, <3>4
  <2> HIDE DEF grown, front
  <2>5. /\ next \in Seq(Seq(Nat)) /\ Len(next) = m
        /\ \A g \in 1 .. m - 1 : next[g] = groups[g]
        /\ next[m] = grown
    <3>1. /\ next \in Seq(Seq(Nat)) /\ Len(next) = Len(front) + 1
          /\ \A g \in 1 .. Len(front) : next[g] = front[g]
          /\ next[Len(front) + 1] = grown
      BY <2>2, <2>4, AppendProperties
    <3>2. m - 1 + 1 = m
      BY <1>0
    <3> HIDE DEF next
    <3> QED BY <2>2, <3>1, <3>2
  <2>6. /\ f \in [1 .. m + 1 -> Nat \ {0}] /\ f[m + 1] = i + 1
        /\ \A g \in 1 .. m : f[g] = first[g]
    BY <1>0
  <2>7. SumFunctionOnSet(sizes, ToSet(grown)) < limit
    <3> DEFINE D == a .. i
    <3>0. a \in Int /\ i \in Int
      BY <1>0, <2>4
    <3>1. IsFiniteSet(D) /\ i \in D /\ D \ {i} = a .. i - 1
      <4>1. IsFiniteSet(D)
        BY <3>0, FS_Interval
      <4>2. i \in D
        BY <1>0, <2>4
      <4>3. D \ {i} = a .. i - 1
        BY <1>0, <2>4
      <4> QED BY <4>1, <4>2, <4>3
    <3>2. \A x \in D : sizes[x] \in Nat
      <4>1. 1 <= a
        BY <2>4
      <4> QED BY <1>0, <2>4, <4>1
    <3>3. SumFunctionOnSet(sizes, D) = SumFunctionOnSet(sizes, D \ {i}) + sizes[i]
      <4> HIDE DEF D
      <4> QED BY <3>1, <3>2, SumProperties
    <3>4. ~(SumFunctionOnSet(sizes, ToSet(last)) + sizes[i] >= limit)
      BY <1>2 DEF last
    <3>5. SumFunctionOnSet(sizes, a .. i - 1) \in Nat /\ sizes[i] \in Nat
      <4>1. IsFiniteSet(D \ {i}) /\ \A x \in D \ {i} : sizes[x] \in Nat
        BY <3>1, <3>2, FS_Subset
      <4> HIDE DEF D
      <4>2. SumFunctionOnSet(sizes, D \ {i}) \in Nat
        BY <4>1, SumProperties
      <4> QED BY <3>1, <3>2, <4>2
    <3>6. SumFunctionOnSet(sizes, ToSet(grown))
            = SumFunctionOnSet(sizes, a .. i - 1) + sizes[i]
      BY <2>4, <3>1, <3>3
    <3>7. ~(SumFunctionOnSet(sizes, a .. i - 1) + sizes[i] >= limit)
      BY <2>4, <3>4
    <3> QED BY <3>5, <3>6, <3>7
  <2> HIDE DEF next, f
  <2>8. ASSUME NEW g \in 1 .. m
        PROVE  /\ f[g] < f[g + 1] /\ next[g] = Span(f[g], f[g + 1])
               /\ Below(next[g], sizes, limit)
    <3>1. CASE g = m
      <4>1. f[g] = a /\ f[g + 1] = i + 1 /\ next[g] = grown
        BY <2>0, <2>5, <2>6, <3>1 DEF a
      <4>2. a < i + 1
        BY <1>0, <2>4
      <4> QED BY <2>4, <2>7, <4>1, <4>2 DEF Below
    <3>2. CASE g # m
      <4>1. g \in 1 .. m - 1 /\ g + 1 \in 1 .. m
        BY <1>0, <3>2
      <4>2. next[g] = groups[g] /\ f[g] = first[g] /\ f[g + 1] = first[g + 1]
        BY <2>5, <2>6, <4>1
      <4> QED BY <1>0, <4>2
    <3> QED BY <3>1, <3>2
  <2>9. f[1] = 1
    <3>1. 1 \in 1 .. m
      BY <2>0
    <3> QED BY <1>0, <2>6, <3>1
  <2>10. Cuts(next, f, i)
    BY <2>5, <2>6, <2>8, <2>9 DEF Cuts
  <2> QED BY <2>1, <2>5, <2>8, <2>10 DEF i
<1> QED
  BY <1>1, <1>2

LEMMA GroupingType ==
  ASSUME NEW groups \in Seq(Seq(Nat)), NEW sizes, NEW limit, NEW i \in Nat
  PROVE  JoinsOrOpens(groups, sizes, limit, i) \in Seq(Seq(Nat))
<1> DEFINE full == SumFunctionOnSet(sizes, ToSet(Last(groups))) + sizes[i] >= limit
<1>1. CASE groups = <<>> \/ full
  <2>1. <<i>> \in Seq(Nat)
    OBVIOUS
  <2>2. Append(groups, <<i>>) \in Seq(Seq(Nat))
    BY <2>1, AppendProperties
  <2> QED BY <1>1, <2>2 DEF JoinsOrOpens
<1>2. CASE groups # <<>> /\ ~full
  <2>1. Len(groups) \in Nat \ {0}
    BY <1>2, EmptySeq
  <2>2. Last(groups) \in Seq(Nat)
    BY <2>1, ElementOfSeq DEF Last
  <2>3. Append(Last(groups), i) \in Seq(Nat)
    BY <2>2, AppendProperties
  <2>4. \A k \in 1 .. Len(groups) - 1 : groups[k] \in Seq(Nat)
    BY <2>1, ElementOfSeq
  <2>5. Front(groups) \in Seq(Seq(Nat))
    BY <2>1, <2>4, SubSeqProperties DEF Front
  <2>6. Append(Front(groups), Append(Last(groups), i)) \in Seq(Seq(Nat))
    BY <2>3, <2>5, AppendProperties
  <2> QED BY <1>2, <2>6 DEF JoinsOrOpens
<1> QED
  BY <1>1, <1>2

(* Grouping goes through the episodes in order, one step for each.         *)
LEMMA GroupsInOrder ==
  ASSUME NEW n \in Nat, NEW sizes \in [1 .. n -> Nat], NEW limit \in Nat
  PROVE  \E h \in [0 .. n -> Seq(Seq(Nat))] :
           /\ h[0] = <<>> /\ h[n] = Groups(sizes, limit)
           /\ \A i \in 1 .. n : h[i] = JoinsOrOpens(h[i - 1], sizes, limit, i)
<1> DEFINE indices == [i \in DOMAIN sizes |-> i]
           Add(groups, i) == JoinsOrOpens(groups, sizes, limit, i)
           D == 1 .. n
           St == Seq(Seq(Nat))
           base == <<>>
           pick == [s \in SUBSET D |-> Max(s)]
           f == [p \in St \X D |-> Add(p[1], p[2])]
           Step(g, s) == JoinsOrOpens(g[s \ {Max(s)}], sizes, limit, indices[Max(s)])
           Fold == CHOOSE g : g = [s \in SUBSET DOMAIN indices |->
                                     IF s = {} THEN base ELSE Step(g, s)]
<1>1. DOMAIN indices = D /\ (\A i \in D : indices[i] = i) /\ D \in SUBSET Nat
  OBVIOUS
<1>2. base \in St
  OBVIOUS
<1>3. f \in [St \X D -> St]
  <2>1. ASSUME NEW groups \in St, NEW i \in D PROVE Add(groups, i) \in St
    BY <1>1, GroupingType
  <2> HIDE DEF St, D, Add
  <2> QED BY <2>1
<1>4. Picks(pick, D) /\ TakesMax(pick, D, n)
  <2>1. TakesMax(pick, D, n)
    BY DEF TakesMax
  <2> HIDE DEF pick
  <2> QED BY <2>1, MaxPicks
<1>5. PICK g \in [SUBSET D -> St] : Folds(g, f, pick, base, D, St)
  <2>1. IsFiniteSet(D)
    <3>1. 1 \in Int /\ n \in Int
      OBVIOUS
    <3> QED BY <3>1, FS_Interval
  <2>2. Picks(pick, D)
    BY <1>4
  <2> HIDE DEF D, St, base, pick, f
  <2> QED BY <1>2, <1>3, <2>1, <2>2, FoldExists
<1>6. \A s \in SUBSET D : s # {} => pick[s] = Max(s) /\ pick[s] \in D
  BY <1>4 DEF Picks, TakesMax
<1>7. \A x, s : s \in SUBSET D /\ s # {} /\ x \in St =>
        f[<<x, pick[s]>>] = JoinsOrOpens(x, sizes, limit, indices[Max(s)])
  <2> TAKE x, s
  <2> HAVE s \in SUBSET D /\ s # {} /\ x \in St
  <2>1. <<x, pick[s]>> \in St \X D /\ pick[s] = Max(s) /\ pick[s] \in D
    BY <1>6
  <2>2. indices[Max(s)] = Max(s)
    BY <1>1, <2>1
  <2> HIDE DEF St, D, pick, indices
  <2> QED BY <2>1, <2>2
<1> HIDE DEF f
<1>8. g = [s \in SUBSET DOMAIN indices |-> IF s = {} THEN base ELSE Step(g, s)]
  <2>1. ASSUME NEW s \in SUBSET D, s # {} PROVE g[s] = Step(g, s)
    <3>1. pick[s] \in D /\ g[s \ {pick[s]}] \in St /\ pick[s] = Max(s)
      BY <1>6, <2>1
    <3>2. g[s] = f[<<g[s \ {pick[s]}], pick[s]>>]
      BY <1>5, <2>1, <3>1 DEF Folds
    <3> HIDE DEF St, D, indices, pick
    <3> QED BY <1>7, <2>1, <3>1, <3>2
  <2>2. g[{}] = base /\ DOMAIN indices = D
    BY <1>1, <1>5 DEF Folds
  <2> HIDE DEF Step, D, St, base, indices
  <2> QED BY <1>5, <2>1, <2>2
<1>9. Fold = [s \in SUBSET DOMAIN indices |-> IF s = {} THEN base ELSE Step(Fold, s)]
  <2> HIDE DEF Step, D, St, base, indices
  <2> QED BY <1>8, Zenon
<1>10. Folds(Fold, f, pick, base, D, St)
  <2>1. ASSUME NEW s \in SUBSET D, s # {}, Fold[s \ {pick[s]}] \in St
        PROVE  Fold[s] = f[<<Fold[s \ {pick[s]}], pick[s]>>]
    <3>1. Fold[s] = Step(Fold, s)
      <4> HIDE DEF Step, Fold, base, D, indices
      <4> QED BY <1>1, <1>9, <2>1
    <3>2. pick[s] = Max(s) /\ pick[s] \in D
      BY <1>6, <2>1
    <3> HIDE DEF Fold, St, D, indices, pick
    <3> QED BY <1>7, <2>1, <3>1, <3>2
  <2>2. Fold[{}] = base
    <3> HIDE DEF Step, D, Fold, base, indices
    <3> QED BY <1>9
  <2> HIDE DEF Fold, f, pick, St, D, base
  <2> QED BY <2>1, <2>2 DEF Folds
<1>11. PICK h : Steps(h, f, base, n, St) /\ Fold[D] = h[n]
  <2> HIDE DEF Fold, f, pick, St, base, D
  <2>1. StepsWithin(f, base, D, St)
    BY <1>2, <1>3 DEF StepsWithin
  <2> QED BY <1>4, <1>10, <2>1, FoldInOrder
<1>12. Groups(sizes, limit) = Fold[D]
  <2>1. Groups(sizes, limit) = Fold[DOMAIN indices]
    BY Zenon DEF Groups, FoldLeft, MapThenFoldSet, JoinsOrOpens
  <2> HIDE DEF Fold, indices, D
  <2> QED BY <1>1, <2>1
<1>13. \A i \in 1 .. n : h[i] = JoinsOrOpens(h[i - 1], sizes, limit, i)
  <2> TAKE i \in 1 .. n
  <2>1. i - 1 \in 0 .. n
    OBVIOUS
  <2>2. <<h[i - 1], i>> \in St \X D
    BY <1>11, <2>1 DEF Steps
  <2>3. h[i] = f[<<h[i - 1], i>>]
    BY <1>11 DEF Steps
  <2> HIDE DEF St, D
  <2> QED BY <2>2, <2>3 DEF f
<1> QED
  <2> HIDE DEF Fold, D
  <2> QED BY <1>11, <1>12, <1>13 DEF St, base, Steps

(* The groups follow one another, leave no episode out, and those of       *)
(* several episodes stay below the limit.                                  *)
LEMMA GroupsShape ==
  ASSUME NEW n \in Nat, NEW sizes \in [1 .. n -> Nat], NEW limit \in Nat
  PROVE  LET groups == Groups(sizes, limit)
         IN  /\ \E first : Cuts(groups, first, n)
             /\ \A g \in 1 .. Len(groups) : Below(groups[g], sizes, limit)
<1>1. PICK h \in [0 .. n -> Seq(Seq(Nat))] :
        /\ h[0] = <<>> /\ h[n] = Groups(sizes, limit)
        /\ \A i \in 1 .. n : h[i] = JoinsOrOpens(h[i - 1], sizes, limit, i)
  BY GroupsInOrder
<1> DEFINE Shaped(i) == /\ \E first : Cuts(h[i], first, i)
                        /\ \A g \in 1 .. Len(h[i]) : Below(h[i][g], sizes, limit)
           Good == {i \in Nat : i <= n => Shaped(i)}
<1>2. 0 \in Good
  <2> DEFINE first == [g \in 1 .. 1 |-> 1]
  <2>1. Len(<<>>) = 0 /\ <<>> \in Seq(Seq(Nat)) /\ 0 + 1 = 1 /\ 1 .. 0 = {}
    OBVIOUS
  <2>2. first \in [1 .. 0 + 1 -> Nat \ {0}] /\ first[1] = 1 /\ first[0 + 1] = 0 + 1
    OBVIOUS
  <2> HIDE DEF first
  <2>3. Cuts(<<>>, first, 0)
    BY <2>1, <2>2 DEF Cuts
  <2> QED BY <1>1, <2>1, <2>3
<1>3. ASSUME NEW i \in Good PROVE i + 1 \in Good
  <2> SUFFICES ASSUME i + 1 <= n PROVE Shaped(i + 1)
    OBVIOUS
  <2>1. i \in Nat /\ i + 1 \in 1 .. n /\ i + 1 - 1 = i /\ Shaped(i)
    OBVIOUS
  <2>2. PICK first : Cuts(h[i], first, i)
    BY <2>1
  <2>3. \A k \in 1 .. i + 1 : sizes[k] \in Nat
    BY <2>1
  <2>4. h[i + 1] = JoinsOrOpens(h[i], sizes, limit, i + 1)
    BY <1>1, <2>1
  <2>5. /\ \E f : Cuts(JoinsOrOpens(h[i], sizes, limit, i + 1), f, i + 1)
        /\ \A g \in 1 .. Len(JoinsOrOpens(h[i], sizes, limit, i + 1)) :
             Below(JoinsOrOpens(h[i], sizes, limit, i + 1)[g], sizes, limit)
    BY <2>1, <2>2, <2>3, GroupingStep
  <2> QED BY <2>4, <2>5
<1>4. Good = Nat
  <2> HIDE DEF Good
  <2>1. Good \in SUBSET Nat
    BY DEF Good
  <2> QED BY <1>2, <1>3, <2>1, SetInduction
<1>5. Shaped(n)
  <2> HIDE DEF Shaped
  <2> QED BY <1>4
<1> QED
  BY <1>1, <1>5

(* A later group begins later.                                             *)
LEMMA FirstGrows ==
  ASSUME NEW groups, NEW first, NEW n \in Nat, Cuts(groups, first, n)
  PROVE  /\ Len(groups) \in Nat
         /\ \A g \in 1 .. Len(groups) + 1 : first[g] \in Nat \ {0}
         /\ \A g, h \in 1 .. Len(groups) + 1 : g < h => first[g] < first[h]
<1> DEFINE m == Len(groups)
           Good == {d \in Nat : \A g \in 1 .. m + 1 :
                      g + (d + 1) <= m + 1 => first[g] < first[g + (d + 1)]}
<1>1. m \in Nat
  BY LenProperties DEF Cuts
<1>2. \A g \in 1 .. m + 1 : first[g] \in Nat \ {0}
  BY DEF Cuts
<1>3. \A g \in 1 .. m : first[g] < first[g + 1]
  BY DEF Cuts
<1> HIDE DEF m
<1>4. 0 \in Good
  BY <1>1, <1>3
<1>5. ASSUME NEW d \in Good PROVE d + 1 \in Good
  <2> SUFFICES ASSUME NEW g \in 1 .. m + 1, g + (d + 1 + 1) <= m + 1
               PROVE  first[g] < first[g + (d + 1 + 1)]
    OBVIOUS
  <2> DEFINE x == g + (d + 1)
  <2>1. /\ x \in 1 .. m /\ x \in 1 .. m + 1 /\ x + 1 \in 1 .. m + 1
        /\ x <= m + 1 /\ g + (d + 1 + 1) = x + 1
    BY <1>1
  <2>2. first[g] < first[x]
    BY <2>1
  <2> HIDE DEF x
  <2>3. first[x] < first[x + 1]
    BY <1>3, <2>1
  <2>4. first[g] \in Nat /\ first[x] \in Nat /\ first[x + 1] \in Nat
    BY <1>2, <2>1
  <2> QED BY <2>1, <2>2, <2>3, <2>4
<1>6. Good = Nat
  <2> HIDE DEF Good
  <2>1. Good \in SUBSET Nat
    BY DEF Good
  <2> QED BY <1>4, <1>5, <2>1, SetInduction
<1>7. ASSUME NEW g \in 1 .. m + 1, NEW h \in 1 .. m + 1, g < h
      PROVE  first[g] < first[h]
  <2>1. h - g - 1 \in Nat /\ g + (h - g - 1 + 1) = h /\ h <= m + 1
    BY <1>1, <1>7
  <2>2. h - g - 1 \in Good
    BY <1>6, <2>1
  <2> QED BY <2>1, <2>2
<1> QED
  BY <1>1, <1>2, <1>7 DEF m

(* Every episode is in one group, that whose span it lies in.              *)
LEMMA GroupOfEpisode ==
  ASSUME NEW groups, NEW first, NEW n \in Nat, Cuts(groups, first, n), NEW i \in 1 .. n
  PROVE  /\ GroupOf(groups, i) \in 1 .. Len(groups)
         /\ first[GroupOf(groups, i)] <= i /\ i < first[GroupOf(groups, i) + 1]
         /\ \A g \in 1 .. Len(groups) :
              first[g] <= i /\ i < first[g + 1] => g = GroupOf(groups, i)
<1> DEFINE m == Len(groups)
           Low == {g \in 1 .. m + 1 : first[g] <= i}
<1>1. /\ m \in Nat /\ \A g \in 1 .. m + 1 : first[g] \in Nat \ {0}
      /\ \A g, h \in 1 .. m + 1 : g < h => first[g] < first[h]
  BY FirstGrows
<1>2. /\ groups \in Seq(Seq(Nat)) /\ first[1] = 1 /\ first[m + 1] = n + 1
      /\ \A g \in 1 .. m :
           first[g] < first[g + 1] /\ groups[g] = Span(first[g], first[g + 1])
  BY DEF Cuts
<1>3. DOMAIN groups = 1 .. m
  BY <1>2, LenProperties
<1> HIDE DEF m
<1>4. ASSUME NEW g \in 1 .. m
      PROVE  Contains(groups[g], i) <=> first[g] <= i /\ i < first[g + 1]
  <2> DEFINE a == first[g]
             b == first[g + 1]
  <2>1. g \in 1 .. m + 1 /\ g + 1 \in 1 .. m + 1
    BY <1>1
  <2>2. a \in Nat /\ b \in Nat /\ a < b /\ groups[g] = Span(a, b)
    BY <1>1, <1>2, <2>1
  <2> HIDE DEF a, b
  <2>3. Len(Span(a, b)) = b - a /\ \A k \in 1 .. b - a : Span(a, b)[k] = a + k - 1
    BY <2>2, SpanProperties
  <2>4. Contains(groups[g], i) <=> \E k \in 1 .. b - a : a + k - 1 = i
    BY <2>2, <2>3 DEF Contains
  <2>5. ASSUME a <= i, i < b PROVE \E k \in 1 .. b - a : a + k - 1 = i
    <3>1. i - a + 1 \in 1 .. b - a /\ a + (i - a + 1) - 1 = i
      BY <2>2, <2>5
    <3> QED BY <3>1
  <2>6. ASSUME NEW k \in 1 .. b - a, a + k - 1 = i PROVE a <= i /\ i < b
    BY <2>2, <2>6
  <2> QED BY <2>4, <2>5, <2>6 DEF a, b
<1>5. \E g \in 1 .. m : first[g] <= i /\ i < first[g + 1]
  <2>1. IsFiniteSet(Low) /\ Low # {} /\ Low \in SUBSET Int
    <3>1. 1 \in Int /\ m + 1 \in Int /\ 1 \in Low
      BY <1>1, <1>2
    <3>2. IsFiniteSet(1 .. m + 1)
      BY <3>1, FS_Interval
    <3> QED BY <3>1, <3>2, FS_Subset
  <2>2. Max(Low) \in Low /\ \A x \in Low : x <= Max(Low)
    <3> HIDE DEF Low
    <3> QED BY <2>1, FiniteMax
  <2>3. PICK g \in 1 .. m + 1 : first[g] <= i /\ \A x \in Low : x <= g
    BY <2>2
  <2>4. g # m + 1
    BY <1>2, <2>3
  <2>5. g \in 1 .. m /\ g + 1 \in 1 .. m + 1 /\ ~(g + 1 <= g)
    BY <1>1, <2>4
  <2>6. ~(first[g + 1] <= i) /\ first[g + 1] \in Nat
    BY <1>1, <2>3, <2>5
  <2> QED BY <2>3, <2>5, <2>6
<1>6. \E g \in DOMAIN groups : Contains(groups[g], i)
  BY <1>3, <1>4, <1>5
<1>7. GroupOf(groups, i) \in DOMAIN groups /\ Contains(groups[GroupOf(groups, i)], i)
  BY <1>6 DEF GroupOf
<1>8. ASSUME NEW g \in 1 .. m, NEW h \in 1 .. m, first[g] <= i, i < first[g + 1],
             first[h] <= i, i < first[h + 1]
      PROVE  ~(g < h)
  <2> SUFFICES ASSUME g < h PROVE FALSE
    OBVIOUS
  <2>1. g + 1 \in 1 .. m + 1 /\ h \in 1 .. m + 1 /\ (g + 1 = h \/ g + 1 < h)
    BY <1>1
  <2>2. first[g + 1] <= first[h] /\ first[g + 1] \in Nat /\ first[h] \in Nat
    BY <1>1, <2>1
  <2> QED BY <1>8, <2>2
<1>9. ASSUME NEW g \in 1 .. m, NEW h \in 1 .. m, first[g] <= i, i < first[g + 1],
             first[h] <= i, i < first[h + 1]
      PROVE  g = h
  BY <1>1, <1>8, <1>9
<1> QED
  BY <1>3, <1>4, <1>7, <1>9 DEF m

(* Files of a numbered layout are told apart by their numbers.             *)
LEMMA PlacesDiffer ==
  ASSUME NEW r \in Nat, NEW q \in Nat, Place(r) = Place(q)
  PROVE  r = q
<1> DEFINE c == ChunksSize
<1>1. c \in Nat /\ c > 0
  BY DatasetAssumption DEF DatasetAssumption
<1>2. r \div c = q \div c /\ r % c = q % c
  BY DEF Place
<1> HIDE DEF c
<1>3. ASSUME NEW m \in Nat
      PROVE  m = (m \div c) * c + (m % c)
  BY <1>1, SMTT(30)
<1>4. r = (r \div c) * c + (r % c) /\ q = (q \div c) * c + (q % c)
  BY <1>3
<1> QED BY <1>2, <1>4, Zenon

(* Offsets grow by the lengths of the episodes.                            *)
LEMMA OffsetProperties ==
  ASSUME NEW n \in Nat, NEW lens \in [1 .. n -> Nat]
  PROVE  /\ \A i \in 1 .. n + 1 : Offset(lens, i) \in Nat
         /\ \A i \in 1 .. n : Offset(lens, i + 1) = Offset(lens, i) + lens[i]
         /\ \A a, i \in 1 .. n + 1 : a <= i =>
              /\ Offset(lens, a) <= Offset(lens, i)
              /\ SumFunctionOnSet(lens, a .. i - 1) = Offset(lens, i) - Offset(lens, a)
<1>0. \A i \in 1 .. n : lens[i] \in Nat
  OBVIOUS
<1>1. ASSUME NEW i \in 1 .. n + 1 PROVE Offset(lens, i) \in Nat
  <2>1. 1 \in 1 .. n + 1 /\ i - 1 \in 1 - 1 .. n
    OBVIOUS
  <2>2. SumFunctionOnSet(lens, 1 .. i - 1) \in Nat
    BY <1>0, <2>1, SumInterval
  <2> QED BY <2>2 DEF Offset
<1>2. ASSUME NEW i \in 1 .. n PROVE Offset(lens, i + 1) = Offset(lens, i) + lens[i]
  <2>1. 1 \in 1 .. n + 1 /\ i \in 1 - 1 .. n /\ i > 0 /\ i + 1 - 1 = i
    OBVIOUS
  <2>2. SumFunctionOnSet(lens, 1 .. i) = SumFunctionOnSet(lens, 1 .. i - 1) + lens[i]
    BY <1>0, <2>1, SumInterval, SMTT(30)
  <2> QED BY <2>1, <2>2 DEF Offset
<1>3. ASSUME NEW a \in 1 .. n + 1, NEW i \in 1 .. n + 1, a <= i
      PROVE  /\ Offset(lens, a) <= Offset(lens, i)
             /\ SumFunctionOnSet(lens, a .. i - 1) = Offset(lens, i) - Offset(lens, a)
  <2>1. i - 1 \in a - 1 .. n
    BY <1>3
  <2>2. /\ SumFunctionOnSet(lens, a .. i - 1) \in Nat
        /\ SumFunctionOnSet(lens, 1 .. i - 1)
             = SumFunctionOnSet(lens, 1 .. a - 1) + SumFunctionOnSet(lens, a .. i - 1)
    BY <1>0, <2>1, SumInterval, SMTT(30)
  <2>3. Offset(lens, i) = Offset(lens, a) + SumFunctionOnSet(lens, a .. i - 1)
    BY <2>2 DEF Offset
  <2> QED BY <1>1, <2>2, <2>3
<1> QED
  BY <1>1, <1>2, <1>3

(* Offsets in a stretch of a sequence of lengths count from its start.     *)
LEMMA OffsetShift ==
  ASSUME NEW n \in Nat, NEW lens \in [1 .. n -> Nat], NEW l \in Nat,
         NEW part \in [1 .. l -> Nat], NEW o \in Nat, o + l <= n,
         \A i \in 1 .. l : lens[o + i] = part[i]
  PROVE  \A i \in 1 .. l + 1 : Offset(lens, o + i) = Offset(lens, o + 1) + Offset(part, i)
<1> DEFINE Good == {k \in Nat : k <= l =>
                      Offset(lens, o + k + 1) = Offset(lens, o + 1) + Offset(part, k + 1)}
<1>1. /\ \A i \in 1 .. n + 1 : Offset(lens, i) \in Nat
      /\ \A i \in 1 .. n : Offset(lens, i + 1) = Offset(lens, i) + lens[i]
  BY OffsetProperties
<1>2. /\ \A i \in 1 .. l + 1 : Offset(part, i) \in Nat
      /\ \A i \in 1 .. l : Offset(part, i + 1) = Offset(part, i) + part[i]
  BY OffsetProperties
<1>3. Offset(part, 1) = 0
  BY PlacesAdd DEF Offset, PlaceOf
<1>4. 0 \in Good
  <2>1. o + 0 + 1 = o + 1 /\ 0 + 1 = 1 /\ o + 1 \in 1 .. n + 1
    OBVIOUS
  <2>2. Offset(lens, o + 1) \in Nat
    BY <1>1, <2>1
  <2>3. Offset(lens, o + 0 + 1) = Offset(lens, o + 1) + Offset(part, 0 + 1)
    BY <1>3, <2>1, <2>2
  <2> QED BY <2>3
<1>5. ASSUME NEW k \in Good PROVE k + 1 \in Good
  <2> SUFFICES ASSUME k + 1 <= l
               PROVE  Offset(lens, o + (k + 1) + 1)
                        = Offset(lens, o + 1) + Offset(part, (k + 1) + 1)
    OBVIOUS
  <2>1. k \in Nat /\ Offset(lens, o + k + 1) = Offset(lens, o + 1) + Offset(part, k + 1)
    OBVIOUS
  <2> HIDE DEF Good
  <2>2. /\ o + k + 1 \in 1 .. n /\ k + 1 \in 1 .. l /\ o + 1 \in 1 .. n + 1
        /\ o + (k + 1) + 1 = (o + k + 1) + 1 /\ k + 1 \in 1 .. l + 1
        /\ o + (k + 1) = o + k + 1
    BY <2>1
  <2>3. Offset(lens, (o + k + 1) + 1) = Offset(lens, o + k + 1) + lens[o + k + 1]
    BY <1>1, <2>2
  <2>4. Offset(part, (k + 1) + 1) = Offset(part, k + 1) + part[k + 1]
    BY <1>2, <2>2
  <2>5. lens[o + k + 1] = part[k + 1] /\ part[k + 1] \in Nat
    BY <2>2
  <2>6. Offset(lens, o + 1) \in Nat /\ Offset(part, k + 1) \in Nat
    BY <1>1, <1>2, <2>2
  <2> QED BY <2>1, <2>2, <2>3, <2>4, <2>5, <2>6
<1>6. Good = Nat
  <2>1. Good \in SUBSET Nat
    OBVIOUS
  <2> HIDE DEF Good
  <2> QED BY <1>4, <1>5, <2>1, SetInduction
<1>7. ASSUME NEW i \in 1 .. l + 1
      PROVE  Offset(lens, o + i) = Offset(lens, o + 1) + Offset(part, i)
  <2>1. i - 1 \in Nat /\ i - 1 <= l /\ o + (i - 1) + 1 = o + i /\ (i - 1) + 1 = i
    OBVIOUS
  <2>2. i - 1 \in Good
    BY <1>6, <2>1
  <2>3. Offset(lens, o + (i - 1) + 1) = Offset(lens, o + 1) + Offset(part, (i - 1) + 1)
    BY <2>1, <2>2
  <2> QED BY <2>1, <2>3
<1> QED BY <1>7

(* What the n episodes of the given lengths contain.                       *)
Fills(contents, lens, n, S) ==
  /\ lens \in [1 .. n -> Nat \ {0}]
  /\ \A i \in 1 .. n : contents[i] \in Seq(S) /\ Len(contents[i]) = lens[i]

(* A shard is the contents of its episodes, one after another.             *)
LEMMA ShardContents ==
  ASSUME NEW n \in Nat, NEW lens, NEW S, NEW contents, Fills(contents, lens, n, S),
         NEW groups, NEW first, Cuts(groups, first, n),
         NEW g \in 1 .. Len(groups)
  PROVE  LET file == Shards(groups, contents)[Place(g - 1)]
             a == first[g]
         IN  /\ file \in Seq(S)
             /\ Len(file) = Offset(lens, first[g + 1]) - Offset(lens, a)
             /\ \A i \in a .. first[g + 1] - 1 : \A j \in 1 .. lens[i] :
                  file[Offset(lens, i) - Offset(lens, a) + j] = contents[i][j]
<1> DEFINE m == Len(groups)
           a == first[g]
           b == first[g + 1]
           seqs == [k \in DOMAIN groups[g] |-> contents[groups[g][k]]]
           file == Shards(groups, contents)[Place(g - 1)]
<1>0. /\ lens \in [1 .. n -> Nat \ {0}] /\ lens \in [1 .. n -> Nat]
      /\ \A i \in 1 .. n : contents[i] \in Seq(S) /\ Len(contents[i]) = lens[i]
  BY DEF Fills
<1>1. /\ m \in Nat /\ \A h \in 1 .. m + 1 : first[h] \in Nat \ {0}
      /\ \A h, l \in 1 .. m + 1 : h < l => first[h] < first[l]
  BY FirstGrows
<1>2. /\ groups \in Seq(Seq(Nat)) /\ first[m + 1] = n + 1
      /\ groups[g] = Span(a, b) /\ a < b /\ DOMAIN groups = 1 .. m
  BY LenProperties DEF Cuts
<1>3. a \in Nat \ {0} /\ b \in Nat /\ b <= n + 1
  <2>1. g \in 1 .. m + 1 /\ g + 1 \in 1 .. m + 1 /\ m + 1 \in 1 .. m + 1
        /\ (g + 1 = m + 1 \/ g + 1 < m + 1)
    BY <1>1
  <2>2. a \in Nat \ {0} /\ b \in Nat
    BY <1>1, <2>1
  <2>3. b = n + 1 \/ b < n + 1
    BY <1>1, <1>2, <2>1
  <2> QED BY <2>2, <2>3
<1>4. file = FlattenSeq(seqs)
  <2> DEFINE P == {Place(h - 1) : h \in DOMAIN groups}
             Number(p) == CHOOSE h \in DOMAIN groups : Place(h - 1) = p
             Content(h) == FlattenSeq([k \in DOMAIN groups[h] |-> contents[groups[h][k]]])
  <2>1. Place(g - 1) \in P /\ Number(Place(g - 1)) \in DOMAIN groups
        /\ Place(Number(Place(g - 1)) - 1) = Place(g - 1)
    BY <1>2
  <2>2. Number(Place(g - 1)) = g
    <3> DEFINE h == Number(Place(g - 1))
    <3>1. h \in 1 .. m /\ Place(h - 1) = Place(g - 1)
      BY <1>2, <2>1
    <3> HIDE DEF h
    <3>2. h - 1 \in Nat /\ g - 1 \in Nat /\ h \in Nat /\ g \in Nat
      BY <1>1, <3>1
    <3>3. h - 1 = g - 1
      BY <3>1, <3>2, PlacesDiffer
    <3>4. h = g
      BY <3>2, <3>3
    <3> QED BY <3>4 DEF h
  <2>3. file = Content(Number(Place(g - 1)))
    <3> HIDE DEF P, Number, Content
    <3>1. Shards(groups, contents) = [p \in P |-> Content(Number(p))]
      BY Zenon DEF Shards, P, Number, Content
    <3> QED BY <2>1, <3>1
  <2> HIDE DEF file, Number
  <2> QED BY <2>2, <2>3
<1> DEFINE d == b - a
           off == [k \in 1 .. d + 1 |-> Offset(lens, a + k - 1) - Offset(lens, a)]
<1>5. /\ d \in Nat \ {0} /\ DOMAIN groups[g] = 1 .. d
      /\ \A k \in 1 .. d : groups[g][k] = a + k - 1 /\ a + k - 1 \in 1 .. n
  <2>1. d \in Nat \ {0}
    BY <1>2, <1>3
  <2>2. /\ Span(a, b) \in Seq(Nat) /\ Len(Span(a, b)) = b - a
        /\ \A k \in 1 .. b - a : Span(a, b)[k] = a + k - 1
    <3> HIDE DEF a, b
    <3> QED BY <1>2, <1>3, SpanProperties
  <2>3. DOMAIN Span(a, b) = 1 .. d
    <3> HIDE DEF a, b
    <3> QED BY <2>2, LenProperties
  <2>4. \A k \in 1 .. d : a + k - 1 \in 1 .. n
    <3> HIDE DEF a, b
    <3> QED BY <1>3
  <2> HIDE DEF a, b
  <2> QED BY <1>2, <2>1, <2>2, <2>3, <2>4
<1> HIDE DEF a, b, d
<1>6. /\ seqs \in Seq(Seq(S)) /\ Len(seqs) = d
      /\ \A k \in 1 .. d : seqs[k] = contents[a + k - 1]
                           /\ Len(seqs[k]) = lens[a + k - 1]
  <2>1. \A k \in 1 .. d : seqs[k] = contents[a + k - 1] /\ seqs[k] \in Seq(S)
                          /\ Len(seqs[k]) = lens[a + k - 1]
    BY <1>0, <1>5
  <2>2. seqs = [k \in 1 .. d |-> seqs[k]]
    BY <1>5
  <2> HIDE DEF seqs
  <2>3. seqs \in [1 .. d -> Seq(S)]
    BY <2>1, <2>2
  <2> DEFINE T == Seq(S)
  <2> HIDE DEF T
  <2>4. seqs \in Seq(T) /\ Len(seqs) = d
    <3>1. d \in Nat /\ seqs \in [1 .. d -> T]
      BY <1>5, <2>3 DEF T
    <3> QED BY <3>1, SeqOfFunction
  <2> QED BY <2>1, <2>4 DEF T
<1> HIDE DEF seqs
<1>7. /\ \A i \in 1 .. n + 1 : Offset(lens, i) \in Nat
      /\ \A i \in 1 .. n : Offset(lens, i + 1) = Offset(lens, i) + lens[i]
      /\ \A i \in 1 .. n + 1 : a <= i => Offset(lens, a) <= Offset(lens, i)
  <2>1. lens \in [1 .. n -> Nat] /\ a \in 1 .. n + 1
    BY <1>0, <1>2, <1>3
  <2> QED BY <2>1, OffsetProperties
<1>8. off \in [1 .. d + 1 -> Nat] /\ off[1] = 0
      /\ \A k \in 1 .. d : off[k + 1] = off[k] + Len(seqs[k])
  <2>1. \A k \in 1 .. d + 1 : a + k - 1 \in 1 .. n + 1 /\ a <= a + k - 1
    BY <1>2, <1>3, <1>5 DEF d
  <2>2. a \in 1 .. n + 1 /\ Offset(lens, a) \in Nat
    BY <1>2, <1>3, <1>7
  <2>3. ASSUME NEW k \in 1 .. d + 1 PROVE off[k] \in Nat
    <3>1. Offset(lens, a + k - 1) \in Nat /\ Offset(lens, a) <= Offset(lens, a + k - 1)
      BY <1>7, <2>1
    <3> QED BY <2>2, <3>1
  <2>4. off[1] = 0
    <3>1. 1 \in 1 .. d + 1 /\ a + 1 - 1 = a
      BY <1>3, <1>5
    <3> QED BY <2>2, <3>1
  <2>5. ASSUME NEW k \in 1 .. d PROVE off[k + 1] = off[k] + Len(seqs[k])
    <3> DEFINE i == a + k - 1
    <3>1. i \in 1 .. n /\ a + (k + 1) - 1 = i + 1 /\ k + 1 \in 1 .. d + 1
          /\ k \in 1 .. d + 1 /\ i \in 1 .. n + 1 /\ i + 1 \in 1 .. n + 1
      BY <1>3, <1>5
    <3>2. off[k + 1] = Offset(lens, i + 1) - Offset(lens, a)
          /\ off[k] = Offset(lens, i) - Offset(lens, a)
      BY <3>1
    <3>3. Len(seqs[k]) = lens[i]
      BY <1>6
    <3> HIDE DEF i, off
    <3>4. Offset(lens, i + 1) = Offset(lens, i) + lens[i]
      BY <1>7, <3>1
    <3>5. lens[i] \in Nat /\ Offset(lens, i) \in Nat
      BY <1>0, <1>7, <3>1
    <3> QED BY <2>2, <3>2, <3>3, <3>4, <3>5
  <2>6. off \in [1 .. d + 1 -> Nat]
    BY <2>3
  <2> HIDE DEF off
  <2> QED BY <2>4, <2>5, <2>6
<1>9. /\ file \in Seq(S) /\ Len(file) = off[d + 1]
      /\ \A k \in 1 .. d : \A j \in 1 .. Len(seqs[k]) : file[off[k] + j] = seqs[k][j]
  <2> HIDE DEF off, file
  <2>1. Len(seqs) = d /\ seqs \in Seq(Seq(S))
    BY <1>6
  <2>2. Positions(off, seqs, S)
    <3>1. /\ seqs \in Seq(Seq(S))
          /\ off \in [1 .. Len(seqs) + 1 -> Nat] /\ off[1] = 0
          /\ \A k \in 1 .. Len(seqs) : off[k + 1] = off[k] + Len(seqs[k])
      BY <1>8, <2>1, Zenon
    <3> QED BY <3>1 DEF Positions
  <2>3. /\ FlattenSeq(seqs) \in Seq(S)
        /\ Len(FlattenSeq(seqs)) = off[Len(seqs) + 1]
        /\ \A k \in 1 .. Len(seqs) : \A j \in 1 .. Len(seqs[k]) :
             /\ off[k] + j \in 1 .. off[Len(seqs) + 1]
             /\ FlattenSeq(seqs)[off[k] + j] = seqs[k][j]
    BY <2>2, FlattenAt
  <2> QED BY <1>4, <2>1, <2>3, Zenon
<1>10. Len(file) = Offset(lens, b) - Offset(lens, a)
  <2>1. d + 1 \in 1 .. d + 1 /\ a + (d + 1) - 1 = b
    BY <1>2, <1>3, <1>5 DEF d
  <2> HIDE DEF file
  <2> QED BY <1>9, <2>1
<1>11. ASSUME NEW i \in a .. b - 1, NEW j \in 1 .. lens[i]
       PROVE  file[Offset(lens, i) - Offset(lens, a) + j] = contents[i][j]
  <2> DEFINE k == i - a + 1
  <2>1. k \in 1 .. d /\ k \in 1 .. d + 1 /\ a + k - 1 = i
    BY <1>3, <1>5 DEF d
  <2>2. off[k] = Offset(lens, i) - Offset(lens, a)
    BY <2>1
  <2> HIDE DEF k, off, file
  <2>3. seqs[k] = contents[i] /\ Len(seqs[k]) = lens[i]
    BY <1>6, <2>1
  <2> QED BY <1>9, <2>1, <2>2, <2>3
<1> QED
  <2> HIDE DEF file
  <2> QED BY <1>9, <1>10, <1>11 DEF a, b, file

-----------------------------------------------------------------------------
(***************************************************************************)
(* Writing and reading a dataset.                                          *)
(***************************************************************************)

(* An episode, and what a reader presents: as many packets as rows.        *)
IsEpisode(e, R, P) ==
  /\ e = [rows |-> e.rows, packets |-> e.packets, stats |-> e.stats]
  /\ e.rows \in Seq(R) /\ e.packets \in Seq(P)
  /\ Len(e.packets) = Len(e.rows) /\ Len(e.rows) > 0

IsView(view, R, P) ==
  /\ view = [tasks |-> view.tasks, splits |-> view.splits, episodes |-> view.episodes]
  /\ Len(view.episodes) \in Nat
  /\ view.episodes = [i \in 1 .. Len(view.episodes) |-> view.episodes[i]]
  /\ \A i \in 1 .. Len(view.episodes) : IsEpisode(view.episodes[i], R, P)

(* A slice of a shard at the place of one of its episodes is that episode. *)
LEMMA SliceAt ==
  ASSUME NEW S, NEW file \in Seq(S), NEW s \in Seq(S), NEW first \in Nat,
         Len(s) > 0, first + Len(s) <= Len(file),
         \A j \in 1 .. Len(s) : file[first + j] = s[j]
  PROVE  Slice(file, first, Len(s)) = s
<1> DEFINE l == Len(s)
           last == first + l
           cut == SubSeq(file, first + 1, last)
<1>1. l \in Nat /\ Len(file) \in Nat /\ last \in Nat /\ last <= Len(file) /\ l > 0
  BY LenProperties
<1>2. Min({last, Len(file)}) = last
  <2> DEFINE T == {last, Len(file)}
  <2> HIDE DEF last
  <2>1. IsFiniteSet(T) /\ T \in SUBSET Int /\ T # {}
    <3>1. IsFiniteSet(T)
      BY PairIsFinite
    <3>2. last \in Int /\ Len(file) \in Int
      BY <1>1
    <3> QED BY <3>1, <3>2
  <2>2. Min(T) \in T /\ \A x \in T : Min(T) <= x
    <3> HIDE DEF T
    <3> QED BY <2>1, FiniteMin
  <2>3. Min(T) \in {last, Len(file)} /\ Min(T) <= last
    BY <2>2
  <2> HIDE DEF T
  <2>4. Min(T) = last
    BY <1>1, <2>3
  <2> QED BY <2>4 DEF T
<1>3. Slice(file, first, Len(s)) = cut
  <2> HIDE DEF cut
  <2> QED BY <1>2 DEF Slice, cut
<1> HIDE DEF l, last
<1>4. first + 1 \in Int /\ last \in Int /\ first + 1 <= last
      /\ last - (first + 1) + 1 = l
  BY <1>1 DEF last
<1>5. \A i \in first + 1 .. last : file[i] \in S
  <2> TAKE i \in first + 1 .. last
  <2>1. i \in 1 .. Len(file)
    BY <1>1
  <2> QED BY <2>1, ElementOfSeq
<1>6. /\ cut \in Seq(S) /\ Len(cut) = l
      /\ \A j \in 1 .. l : cut[j] = file[first + 1 + j - 1]
  <2>1. /\ cut \in Seq(S)
        /\ Len(cut) = IF first + 1 <= last THEN last - (first + 1) + 1 ELSE 0
        /\ \A j \in 1 .. last - (first + 1) + 1 : cut[j] = file[first + 1 + j - 1]
    BY <1>4, <1>5, SubSeqProperties
  <2> HIDE DEF cut
  <2> QED BY <1>4, <2>1
<1> HIDE DEF cut
<1>7. ASSUME NEW j \in 1 .. Len(cut) PROVE cut[j] = s[j]
  <2>1. j \in 1 .. l /\ first + 1 + j - 1 = first + j
    BY <1>1, <1>6
  <2>2. file[first + j] = s[j]
    BY <2>1 DEF l
  <2> QED BY <1>6, <2>1, <2>2
<1>8. Len(cut) = Len(s)
  BY <1>6 DEF l
<1>9. cut = s
  BY <1>6, <1>7, <1>8, SeqEqual
<1> QED
  BY <1>3, <1>9

(* Where the contents of episode i are in its shard.                       *)
LEMMA ShardOfEpisode ==
  ASSUME NEW n \in Nat, NEW lens, NEW S, NEW contents, Fills(contents, lens, n, S),
         NEW groups, NEW first, Cuts(groups, first, n),
         NEW i \in 1 .. n
  PROVE  LET g == GroupOf(groups, i)
             file == Shards(groups, contents)[Place(g - 1)]
             a == first[g]
             at == Offset(lens, i) - Offset(lens, a)
         IN  /\ a \in 1 .. i /\ at \in Nat
             /\ GroupOf(groups, a) = g
             /\ \A j \in 1 .. a - 1 : GroupOf(groups, j) # g
             /\ ToSet(groups[g]) = a .. first[g + 1] - 1 /\ i < first[g + 1]
             /\ Slice(file, at, lens[i]) = contents[i]
<1> DEFINE m == Len(groups)
           g == GroupOf(groups, i)
           a == first[g]
           b == first[g + 1]
           at == Offset(lens, i) - Offset(lens, a)
           file == Shards(groups, contents)[Place(g - 1)]
<1>0. /\ lens \in [1 .. n -> Nat \ {0}] /\ lens \in [1 .. n -> Nat]
      /\ \A k \in 1 .. n : contents[k] \in Seq(S) /\ Len(contents[k]) = lens[k]
  BY DEF Fills
<1>1. /\ m \in Nat /\ \A h \in 1 .. m + 1 : first[h] \in Nat \ {0}
      /\ \A h, l \in 1 .. m + 1 : h < l => first[h] < first[l]
  BY FirstGrows
<1>2. /\ g \in 1 .. m /\ a <= i /\ i < b
      /\ \A h \in 1 .. m : first[h] <= i /\ i < first[h + 1] => h = g
  BY GroupOfEpisode
<1> HIDE DEF g
<1>3. groups[g] = Span(a, b) /\ a < b /\ first[m + 1] = n + 1
  BY <1>2 DEF Cuts
<1> HIDE DEF m
<1>4. /\ a \in Nat \ {0} /\ b \in Nat /\ b <= n + 1
      /\ a \in 1 .. i /\ a \in 1 .. n /\ a \in 1 .. n + 1
      /\ i \in 1 .. n + 1 /\ i + 1 \in 1 .. n + 1 /\ b \in 1 .. n + 1
  <2>1. g \in 1 .. m + 1 /\ g + 1 \in 1 .. m + 1 /\ m + 1 \in 1 .. m + 1
        /\ (g + 1 = m + 1 \/ g + 1 < m + 1)
    BY <1>1, <1>2
  <2>2. a \in Nat \ {0} /\ b \in Nat
    BY <1>1, <2>1
  <2>3. b = n + 1 \/ b < n + 1
    BY <1>1, <1>3, <2>1
  <2> HIDE DEF a, b
  <2> QED BY <1>2, <2>2, <2>3
<1>5. GroupOf(groups, a) = g
  <2> HIDE DEF b
  <2>1. \A h \in 1 .. m : first[h] <= a /\ a < first[h + 1] => h = GroupOf(groups, a)
    BY <1>4, GroupOfEpisode DEF m
  <2>2. first[g] <= a /\ a < first[g + 1]
    BY <1>3, <1>4 DEF b
  <2> QED BY <1>2, <2>1, <2>2
<1>6. ASSUME NEW j \in 1 .. a - 1 PROVE GroupOf(groups, j) # g
  <2>1. j \in 1 .. n /\ j < a
    BY <1>4
  <2>2. first[GroupOf(groups, j)] <= j /\ j \in Nat
    BY <2>1, GroupOfEpisode
  <2>3. GroupOf(groups, j) = g => a <= j
    BY <2>2
  <2> QED BY <1>4, <2>1, <2>3
<1>7. ToSet(groups[g]) = a .. b - 1
  <2> HIDE DEF a, b
  <2> QED BY <1>3, <1>4, SpanProperties
<1>8. /\ Offset(lens, i) \in Nat /\ Offset(lens, a) \in Nat /\ Offset(lens, b) \in Nat
      /\ Offset(lens, a) <= Offset(lens, i)
      /\ Offset(lens, i + 1) = Offset(lens, i) + lens[i]
      /\ Offset(lens, i + 1) <= Offset(lens, b)
  <2>1. lens \in [1 .. n -> Nat]
    BY <1>0
  <2>2. /\ \A k \in 1 .. n + 1 : Offset(lens, k) \in Nat
        /\ \A k \in 1 .. n : Offset(lens, k + 1) = Offset(lens, k) + lens[k]
        /\ \A k, l \in 1 .. n + 1 : k <= l => Offset(lens, k) <= Offset(lens, l)
    BY <2>1, OffsetProperties
  <2> HIDE DEF a, b
  <2>3. a <= i /\ i + 1 <= b
    BY <1>2, <1>4
  <2> QED BY <1>4, <2>2, <2>3
<1>9. /\ file \in Seq(S) /\ Len(file) = Offset(lens, b) - Offset(lens, a)
      /\ \A k \in a .. b - 1 : \A j \in 1 .. lens[k] :
           file[Offset(lens, k) - Offset(lens, a) + j] = contents[k][j]
  BY <1>2, ShardContents DEF m
<1> HIDE DEF file, a, b
<1>10. Slice(file, at, lens[i]) = contents[i]
  <2> DEFINE s == contents[i]
  <2>1. s \in Seq(S) /\ Len(s) = lens[i] /\ lens[i] \in Nat /\ lens[i] > 0
    BY <1>0
  <2>2. at \in Nat /\ at + lens[i] <= Len(file)
    BY <1>8, <1>9, <2>1
  <2>3. \A j \in 1 .. lens[i] : file[at + j] = s[j]
    <3>1. i \in a .. b - 1
      BY <1>2, <1>4
    <3> QED BY <1>9, <3>1
  <2> HIDE DEF at, s
  <2>4. Slice(file, at, Len(s)) = s
    BY <1>9, <2>1, <2>2, <2>3, SliceAt
  <2> QED BY <2>1, <2>4 DEF s
<1>11. at \in Nat
  BY <1>8
<1> QED
  BY <1>2, <1>4, <1>5, <1>6, <1>7, <1>10, <1>11 DEF g, a, b, file

(* The base of a shard is the offset of its first episode.                 *)
Filed(meta, group, n) ==
  /\ DOMAIN meta = 1 .. n
  /\ \A k \in 1 .. n : group[k] \in Nat \ {0}
                       /\ meta[k].data = Place(group[k] - 1)

Leads(a, group, i) ==
  a \in 1 .. i /\ group[a] = group[i] /\ \A j \in 1 .. a - 1 : group[j] # group[i]

LEMMA BaseOf ==
  ASSUME NEW n \in Nat, NEW meta, NEW group, Filed(meta, group, n),
         NEW i \in 1 .. n, NEW a, Leads(a, group, i)
  PROVE  Base(meta, i) = meta[a].from
<1>0. /\ DOMAIN meta = 1 .. n
      /\ \A k \in 1 .. n : group[k] \in Nat \ {0}
                           /\ meta[k].data = Place(group[k] - 1)
      /\ a \in 1 .. i /\ group[a] = group[i]
      /\ \A j \in 1 .. a - 1 : group[j] # group[i]
  BY DEF Filed, Leads
<1> DEFINE IsFirst(j) == /\ meta[j].data = meta[i].data
                         /\ \A k \in 1 .. j - 1 : meta[k].data # meta[i].data
           c == CHOOSE j \in DOMAIN meta : IsFirst(j)
<1>1. a \in 1 .. n /\ meta[a].data = meta[i].data
  <2>1. a \in 1 .. n
    BY <1>0
  <2>2. meta[a].data = Place(group[a] - 1) /\ meta[i].data = Place(group[i] - 1)
    BY <1>0, <2>1
  <2> QED BY <1>0, <2>1, <2>2
<1>2. \A k \in 1 .. n : group[k] # group[i] => meta[k].data # meta[i].data
  <2> TAKE k \in 1 .. n
  <2> HAVE group[k] # group[i]
  <2> DEFINE r == group[k] - 1
             q == group[i] - 1
  <2>1. r \in Nat /\ q \in Nat /\ r # q
    BY <1>0
  <2>2. meta[k].data = Place(r) /\ meta[i].data = Place(q)
    BY <1>0
  <2> HIDE DEF r, q
  <2>3. Place(r) # Place(q)
    BY <2>1, PlacesDiffer
  <2> QED BY <2>2, <2>3
<1>3. IsFirst(a)
  <2> SUFFICES ASSUME NEW k \in 1 .. a - 1 PROVE meta[k].data # meta[i].data
    BY <1>1
  <2>1. k \in 1 .. n
    BY <1>0
  <2> QED BY <1>0, <1>2, <2>1
<1>4. c \in DOMAIN meta /\ IsFirst(c)
  <2>1. \E j \in DOMAIN meta : IsFirst(j)
    BY <1>0, <1>1, <1>3
  <2> HIDE DEF IsFirst
  <2> QED BY <2>1
<1>5. c \in 1 .. n
  BY <1>0, <1>4
<1> HIDE DEF c
<1>6. ~(a < c)
  <2> SUFFICES ASSUME a < c PROVE FALSE
    OBVIOUS
  <2>1. a \in 1 .. c - 1
    BY <1>0, <1>5
  <2> QED BY <1>1, <1>4, <2>1
<1>7. ~(c < a)
  <2> SUFFICES ASSUME c < a PROVE FALSE
    OBVIOUS
  <2>1. c \in 1 .. a - 1
    BY <1>0, <1>5
  <2>2. group[c] # group[i]
    BY <1>0, <2>1
  <2> QED BY <1>2, <1>4, <1>5, <2>2
<1>8. c = a
  BY <1>0, <1>5, <1>6, <1>7
<1> QED
  BY <1>8 DEF Base, c

(* What a view gives the shards to hold.                                   *)
Rows(view) == [i \in DOMAIN Lens(view) |-> view.episodes[i].rows]

Packets(view) == [i \in DOMAIN Lens(view) |-> view.episodes[i].packets]

LEMMA ViewFills ==
  ASSUME NEW R, NEW P, NEW view, IsView(view, R, P)
  PROVE  LET n == Len(view.episodes)
             lens == Lens(view)
         IN  /\ n \in Nat /\ DOMAIN view.episodes = 1 .. n
             /\ DOMAIN lens = 1 .. n /\ lens \in [1 .. n -> Nat]
             /\ \A i \in 1 .. n : Rows(view)[i] = view.episodes[i].rows
                                  /\ Packets(view)[i] = view.episodes[i].packets
             /\ Fills(Rows(view), lens, n, R) /\ Fills(Packets(view), lens, n, P)
<1> DEFINE n == Len(view.episodes)
           lens == Lens(view)
           rows == Rows(view)
           packets == Packets(view)
<1>1. /\ n \in Nat /\ view.episodes = [i \in 1 .. n |-> view.episodes[i]]
      /\ \A i \in 1 .. n : IsEpisode(view.episodes[i], R, P)
  BY DEF IsView
<1>2. DOMAIN view.episodes = 1 .. n /\ DOMAIN lens = 1 .. n
  BY <1>1, Zenon DEF Lens
<1>3. \A i \in 1 .. n : lens[i] = Len(view.episodes[i].rows)
  BY <1>2 DEF Lens
<1>4. lens = [i \in 1 .. n |-> lens[i]]
  BY <1>2 DEF Lens
<1>6. \A i \in 1 .. n : rows[i] = view.episodes[i].rows
                        /\ packets[i] = view.episodes[i].packets
  BY <1>2 DEF Rows, Packets
<1> HIDE DEF n, lens, rows, packets
<1>7. /\ \A i \in 1 .. n : rows[i] \in Seq(R) /\ Len(rows[i]) = lens[i]
      /\ \A i \in 1 .. n : packets[i] \in Seq(P) /\ Len(packets[i]) = lens[i]
      /\ \A i \in 1 .. n : lens[i] \in Nat \ {0}
  <2> SUFFICES ASSUME NEW i \in 1 .. n
               PROVE  /\ rows[i] \in Seq(R) /\ Len(rows[i]) = lens[i]
                      /\ packets[i] \in Seq(P) /\ Len(packets[i]) = lens[i]
                      /\ lens[i] \in Nat \ {0}
    OBVIOUS
  <2>1. IsEpisode(view.episodes[i], R, P)
    BY <1>1
  <2> DEFINE e == view.episodes[i]
  <2>2. e.rows \in Seq(R) /\ e.packets \in Seq(P)
        /\ Len(e.packets) = Len(e.rows) /\ Len(e.rows) > 0
    BY <2>1 DEF IsEpisode
  <2>3. rows[i] = e.rows /\ packets[i] = e.packets /\ lens[i] = Len(e.rows)
    BY <1>3, <1>6
  <2> HIDE DEF e
  <2>4. Len(e.rows) \in Nat
    BY <2>2, LenProperties
  <2> QED BY <2>2, <2>3, <2>4
<1>8. lens \in [1 .. n -> Nat \ {0}] /\ lens \in [1 .. n -> Nat]
  BY <1>4, <1>7
<1>9. Fills(rows, lens, n, R) /\ Fills(packets, lens, n, P)
  BY <1>7, <1>8 DEF Fills
<1> QED
  BY <1>1, <1>2, <1>6, <1>8, <1>9 DEF n, lens, rows, packets

(* A dataset of the shard layout gives back the view it was written from.  *)
LEMMA ShardsGiveBack ==
  ASSUME NEW R, NEW P, NEW view, IsView(view, R, P)
  PROVE  Read(WriteV30(view)) = view
<1> DEFINE n == Len(view.episodes)
           lens == Lens(view)
           rows == Rows(view)
           packets == Packets(view)
           dataGroups == Groups(lens, DataLimit)
           videoGroups == Groups(lens, VideoLimit)
           Elapsed(i) == SumFunctionOnSet(lens,
             {j \in ToSet(videoGroups[GroupOf(videoGroups, i)]) : j < i})
           w == WriteV30(view)
<1>1. /\ view = [tasks |-> view.tasks, splits |-> view.splits,
                 episodes |-> view.episodes]
      /\ n \in Nat /\ view.episodes = [i \in 1 .. n |-> view.episodes[i]]
      /\ \A i \in 1 .. n : IsEpisode(view.episodes[i], R, P)
  BY DEF IsView
<1>2. /\ DOMAIN lens = 1 .. n /\ lens \in [1 .. n -> Nat]
      /\ \A i \in 1 .. n : rows[i] = view.episodes[i].rows
                           /\ packets[i] = view.episodes[i].packets
      /\ Fills(rows, lens, n, R) /\ Fills(packets, lens, n, P)
  BY ViewFills
<1>3. \A i \in 1 .. n : lens[i] \in Nat
  BY <1>2
<1>4. /\ w.version = "v3.0" /\ w.tasks = view.tasks /\ w.splits = view.splits
      /\ w.meta = [i \in DOMAIN lens |->
           [data |-> Place(GroupOf(dataGroups, i) - 1),
            from |-> Offset(lens, i), length |-> lens[i],
            video |-> Place(GroupOf(videoGroups, i) - 1),
            start |-> Elapsed(i), end |-> Elapsed(i) + lens[i],
            stats |-> view.episodes[i].stats]]
      /\ w.data = Shards(dataGroups, rows)
      /\ w.video = Shards(videoGroups, packets)
  BY DEF WriteV30, Rows, Packets
<1> HIDE DEF n, rows, packets, lens, w, Elapsed, dataGroups, videoGroups
<1>5. DOMAIN w.meta = 1 .. n
      /\ \A i \in 1 .. n :
           /\ w.meta[i].data = Place(GroupOf(dataGroups, i) - 1)
           /\ w.meta[i].from = Offset(lens, i) /\ w.meta[i].length = lens[i]
           /\ w.meta[i].video = Place(GroupOf(videoGroups, i) - 1)
           /\ w.meta[i].start = Elapsed(i) /\ w.meta[i].end = Elapsed(i) + lens[i]
           /\ w.meta[i].stats = view.episodes[i].stats
  BY <1>2, <1>4
<1>10. PICK first : Cuts(dataGroups, first, n)
  BY <1>1, <1>2, GroupsShape, DatasetAssumption DEF dataGroups, DatasetAssumption
<1>11. PICK vfirst : Cuts(videoGroups, vfirst, n)
  BY <1>1, <1>2, GroupsShape, DatasetAssumption DEF videoGroups, DatasetAssumption
<1>12. ASSUME NEW i \in 1 .. n PROVE RowsOf(w, i) = rows[i]
  <2> DEFINE g == GroupOf(dataGroups, i)
             a == first[g]
             at == Offset(lens, i) - Offset(lens, a)
             file == Shards(dataGroups, rows)[Place(g - 1)]
             group == [k \in 1 .. n |-> GroupOf(dataGroups, k)]
  <2>1. /\ a \in 1 .. i /\ at \in Nat
        /\ GroupOf(dataGroups, a) = g
        /\ \A j \in 1 .. a - 1 : GroupOf(dataGroups, j) # g
        /\ Slice(file, at, lens[i]) = rows[i]
    BY <1>1, <1>2, <1>10, ShardOfEpisode
  <2>2. \A k \in 1 .. n : GroupOf(dataGroups, k) \in Nat \ {0}
    <3> TAKE k \in 1 .. n
    <3>1. GroupOf(dataGroups, k) \in 1 .. Len(dataGroups)
      BY <1>1, <1>10, GroupOfEpisode
    <3>2. Len(dataGroups) \in Nat
      BY <1>1, <1>10, FirstGrows
    <3> QED BY <3>1, <3>2
  <2> HIDE DEF a, g, at, file
  <2>3. /\ \A k \in 1 .. n : group[k] \in Nat \ {0}
                             /\ w.meta[k].data = Place(group[k] - 1)
        /\ group[i] = g
    BY <1>5, <2>2 DEF g
  <2>4. a \in 1 .. n
    BY <1>1, <2>1
  <2>5. group[a] = group[i] /\ \A j \in 1 .. a - 1 : group[j] # group[i]
    <3>1. \A j \in 1 .. a - 1 : j \in 1 .. n
      BY <1>1, <2>1
    <3> QED BY <2>1, <2>3, <2>4, <3>1
  <2> HIDE DEF group
  <2>6. Base(w.meta, i) = w.meta[a].from
    <3>1. Filed(w.meta, group, n)
      BY <1>5, <2>3 DEF Filed
    <3>2. Leads(a, group, i)
      BY <2>1, <2>5 DEF Leads
    <3> QED BY <1>1, <3>1, <3>2, BaseOf
  <2>7. DataStart(w, i) = at
    BY <1>4, <1>5, <2>4, <2>6 DEF DataStart, at
  <2>8. w.data[DataFile(w, i)] = file
    BY <1>4, <1>5 DEF DataFile, file, g
  <2> QED BY <1>4, <1>5, <2>1, <2>7, <2>8 DEF RowsOf
<1>13. ASSUME NEW i \in 1 .. n PROVE PacketsOf(w, i) = packets[i]
  <2> DEFINE g == GroupOf(videoGroups, i)
             a == vfirst[g]
             at == Offset(lens, i) - Offset(lens, a)
             file == Shards(videoGroups, packets)[Place(g - 1)]
  <2>1. /\ a \in 1 .. i /\ at \in Nat
        /\ ToSet(videoGroups[g]) = a .. vfirst[g + 1] - 1 /\ i < vfirst[g + 1]
        /\ Slice(file, at, lens[i]) = packets[i]
    BY <1>1, <1>2, <1>11, ShardOfEpisode
  <2>2. vfirst[g + 1] \in Nat
    <3>1. g \in 1 .. Len(videoGroups)
      BY <1>1, <1>11, GroupOfEpisode
    <3>2. /\ Len(videoGroups) \in Nat
          /\ \A h \in 1 .. Len(videoGroups) + 1 : vfirst[h] \in Nat \ {0}
      BY <1>1, <1>11, FirstGrows
    <3>3. g + 1 \in 1 .. Len(videoGroups) + 1
      BY <3>1, <3>2
    <3> QED BY <3>2, <3>3
  <2> HIDE DEF a, at, file, g
  <2>3. {j \in ToSet(videoGroups[g]) : j < i} = a .. i - 1
    BY <1>1, <2>1, <2>2
  <2>4. a \in 1 .. n + 1 /\ i \in 1 .. n + 1 /\ a <= i
    BY <1>1, <2>1
  <2>5. SumFunctionOnSet(lens, a .. i - 1) = Offset(lens, i) - Offset(lens, a)
    BY <1>1, <1>2, <2>4, OffsetProperties
  <2>6. Elapsed(i) = at
    BY <2>3, <2>5 DEF Elapsed, at, g
  <2>7. w.meta[i].start = at /\ w.meta[i].end - w.meta[i].start = lens[i]
    <3>1. w.meta[i].start = at /\ w.meta[i].end = at + lens[i] /\ lens[i] \in Nat
      BY <1>5, <1>3, <2>6
    <3> QED BY <2>1, <3>1
  <2>8. w.video[VideoFile(w, i)] = file
    BY <1>4, <1>5 DEF VideoFile, file, g
  <2> QED BY <1>4, <2>1, <2>7, <2>8 DEF PacketsOf
<1>14. ASSUME NEW i \in 1 .. n
       PROVE  [rows |-> RowsOf(w, i), packets |-> PacketsOf(w, i),
               stats |-> w.meta[i].stats] = view.episodes[i]
  <2>1. RowsOf(w, i) = view.episodes[i].rows
    BY <1>2, <1>12
  <2>2. PacketsOf(w, i) = view.episodes[i].packets
    BY <1>2, <1>13
  <2>3. w.meta[i].stats = view.episodes[i].stats
    BY <1>5
  <2>4. view.episodes[i] = [rows |-> view.episodes[i].rows,
                            packets |-> view.episodes[i].packets,
                            stats |-> view.episodes[i].stats]
    BY <1>1, Zenon DEF IsEpisode
  <2> QED BY <2>1, <2>2, <2>3, <2>4, Zenon
<1>15. [i \in DOMAIN w.meta |-> [rows |-> RowsOf(w, i), packets |-> PacketsOf(w, i),
                                 stats |-> w.meta[i].stats]] = view.episodes
  BY <1>1, <1>5, <1>14, Zenon
<1>16. Read(w) = [tasks |-> view.tasks, splits |-> view.splits,
                  episodes |-> view.episodes]
  BY <1>4, <1>15, Zenon DEF Read
<1> QED
  BY <1>1, <1>16, Zenon DEF w

(* A dataset of the other layout has a file for every episode.             *)
LEMMA FilesGiveBack ==
  ASSUME NEW R, NEW P, NEW view, IsView(view, R, P)
  PROVE  Read(WriteV21(view)) = view
<1> DEFINE n == Len(view.episodes)
           lens == Lens(view)
           files == {EpisodeFile(i - 1) : i \in DOMAIN lens}
           Episode(file) == view.episodes[file[2] + 1]
           w == WriteV21(view)
<1>1. /\ view = [tasks |-> view.tasks, splits |-> view.splits,
                 episodes |-> view.episodes]
      /\ n \in Nat /\ view.episodes = [i \in 1 .. n |-> view.episodes[i]]
      /\ \A i \in 1 .. n : IsEpisode(view.episodes[i], R, P)
  BY DEF IsView
<1>2. DOMAIN view.episodes = 1 .. n /\ DOMAIN lens = 1 .. n
  BY <1>1, Zenon DEF Lens
<1>3. /\ w.version = "v2.1" /\ w.tasks = view.tasks /\ w.splits = view.splits
      /\ w.meta = [i \in DOMAIN lens |-> [length |-> lens[i],
                                          stats |-> view.episodes[i].stats]]
      /\ w.data = [file \in files |-> Episode(file).rows]
      /\ w.video = [file \in files |-> Episode(file).packets]
  BY DEF WriteV21
<1> HIDE DEF lens, w, n
<1>4. ASSUME NEW i \in 1 .. n
      PROVE  /\ EpisodeFile(i - 1) \in files
             /\ Episode(EpisodeFile(i - 1)) = view.episodes[i]
  <2>1. EpisodeFile(i - 1) \in files
    BY <1>2
  <2>2. EpisodeFile(i - 1)[2] = i - 1
    BY DEF EpisodeFile
  <2>3. EpisodeFile(i - 1)[2] + 1 = i
    BY <1>1, <2>2
  <2> QED BY <2>1, <2>3
<1> HIDE DEF files, Episode
<1>5. ASSUME NEW i \in 1 .. n
      PROVE  [rows |-> RowsOf(w, i), packets |-> PacketsOf(w, i),
              stats |-> w.meta[i].stats] = view.episodes[i]
  <2>1. RowsOf(w, i) = view.episodes[i].rows
    BY <1>3, <1>4 DEF RowsOf, DataFile
  <2>2. PacketsOf(w, i) = view.episodes[i].packets
    BY <1>3, <1>4 DEF PacketsOf, VideoFile
  <2>3. w.meta[i].stats = view.episodes[i].stats
    BY <1>2, <1>3
  <2>4. view.episodes[i] = [rows |-> view.episodes[i].rows,
                            packets |-> view.episodes[i].packets,
                            stats |-> view.episodes[i].stats]
    BY <1>1, Zenon DEF IsEpisode
  <2> QED BY <2>1, <2>2, <2>3, <2>4, Zenon
<1>6. DOMAIN w.meta = 1 .. n
  BY <1>2, <1>3
<1>7. [i \in DOMAIN w.meta |-> [rows |-> RowsOf(w, i), packets |-> PacketsOf(w, i),
                                stats |-> w.meta[i].stats]] = view.episodes
  BY <1>1, <1>5, <1>6, Zenon
<1>8. Read(w) = [tasks |-> view.tasks, splits |-> view.splits,
                 episodes |-> view.episodes]
  BY <1>3, <1>7, Zenon DEF Read
<1> QED
  BY <1>1, <1>8, Zenon DEF w

-----------------------------------------------------------------------------
(***************************************************************************)
(* What sources, parts and inputs have in common.                          *)
(***************************************************************************)

(* What sources, parts and inputs have in common: rows that bear the index *)
(* of their episode, and as many packets as rows.                          *)
IsRow(row) == row = [episode |-> row.episode, index |-> row.index,
                     frame |-> row.frame, task |-> row.task,
                     payload |-> row.payload]

Framed(e, i, l) ==
  /\ e = [rows |-> e.rows, packets |-> e.packets, stats |-> e.stats]
  /\ e.rows = [f \in 1 .. l |-> e.rows[f]]
  /\ e.packets = [f \in 1 .. l |-> e.packets[f]]
  /\ \A f \in 1 .. l : IsRow(e.rows[f]) /\ e.rows[f].episode = i - 1

Presented(view, n) ==
  /\ view = [tasks |-> view.tasks, splits |-> view.splits, episodes |-> view.episodes]
  /\ view.episodes = [i \in 1 .. n |-> view.episodes[i]]
  /\ \A i \in 1 .. n : \E l \in Nat \ {0} : Framed(view.episodes[i], i, l)

LEMMA PresentedIsView ==
  ASSUME NEW n \in Nat, NEW view, Presented(view, n)
  PROVE  Len(view.episodes) = n /\ \E R, P : IsView(view, R, P)
<1> DEFINE R == UNION {Range(view.episodes[i].rows) : i \in 1 .. n}
           P == UNION {Range(view.episodes[i].packets) : i \in 1 .. n}
<1>1. /\ view = [tasks |-> view.tasks, splits |-> view.splits,
                 episodes |-> view.episodes]
      /\ view.episodes = [i \in 1 .. n |-> view.episodes[i]]
  BY DEF Presented
<1>2. Len(view.episodes) = n
  BY <1>1, LenOfFunction
<1>3. ASSUME NEW i \in 1 .. n PROVE IsEpisode(view.episodes[i], R, P)
  <2> DEFINE e == view.episodes[i]
  <2>1. PICK l \in Nat \ {0} : Framed(e, i, l)
    BY DEF Presented
  <2>2. /\ e = [rows |-> e.rows, packets |-> e.packets, stats |-> e.stats]
        /\ e.rows = [f \in 1 .. l |-> e.rows[f]]
        /\ e.packets = [f \in 1 .. l |-> e.packets[f]]
    BY <2>1 DEF Framed
  <2>3. Range(e.rows) \subseteq R /\ Range(e.packets) \subseteq P
    OBVIOUS
  <2> HIDE DEF e, R, P
  <2>4. e.rows \in [1 .. l -> R]
    <3>1. \A f \in 1 .. l : e.rows[f] \in Range(e.rows)
      BY <2>2 DEF Range
    <3> QED BY <2>2, <2>3, <3>1
  <2>5. e.packets \in [1 .. l -> P]
    <3>1. \A f \in 1 .. l : e.packets[f] \in Range(e.packets)
      BY <2>2 DEF Range
    <3> QED BY <2>2, <2>3, <3>1
  <2>6. e.rows \in Seq(R) /\ Len(e.rows) = l
    BY <2>4, SeqOfFunction
  <2>7. e.packets \in Seq(P) /\ Len(e.packets) = l
    BY <2>5, SeqOfFunction
  <2>8. Len(e.packets) = Len(e.rows) /\ Len(e.rows) > 0
    BY <2>6, <2>7
  <2>9. e = [rows |-> e.rows, packets |-> e.packets, stats |-> e.stats]
    BY <2>2
  <2>10. IsEpisode(e, R, P)
    BY <2>6, <2>7, <2>8, <2>9, Zenon DEF IsEpisode
  <2> QED BY <2>10 DEF e
<1> HIDE DEF R, P
<1>4. IsView(view, R, P)
  BY <1>1, <1>2, <1>3, Zenon DEF IsView
<1> QED BY <1>2, <1>4

(* Reading what was written, in either layout.                             *)
LEMMA WrittenIsRead ==
  ASSUME NEW n \in Nat, NEW view, Presented(view, n),
         NEW version \in {"v2.1", "v3.0"}
  PROVE  Read(Write(version, view)) = view
<1>1. PICK R, P : IsView(view, R, P)
  BY PresentedIsView
<1>2. Read(WriteV21(view)) = view /\ Read(WriteV30(view)) = view
  BY <1>1, FilesGiveBack, ShardsGiveBack
<1> QED BY <1>2 DEF Write

LEMMA RecordedIsPresented ==
  ASSUME NEW n \in Nat, NEW lens \in [1 .. n -> Nat \ {0}], NEW table, NEW splits
  PROVE  Presented(Recorded(lens, table, splits), n)
<1> DEFINE view == Recorded(lens, table, splits)
           Label(i) == Labels(table)[1 + (i % Cardinality(DOMAIN table))]
<1>1. /\ view = [tasks |-> table, splits |-> splits, episodes |-> view.episodes]
      /\ view.tasks = table /\ view.splits = splits
      /\ view.episodes = [i \in 1 .. n |-> RecordedEpisode(i, lens, Label(i))]
  BY DEF Recorded
<1> HIDE DEF view, Label
<1>2. view.episodes = [i \in 1 .. n |-> view.episodes[i]]
  BY <1>1
<1>3. ASSUME NEW i \in 1 .. n PROVE \E l \in Nat \ {0} : Framed(view.episodes[i], i, l)
  <2> DEFINE e == view.episodes[i]
             l == lens[i]
  <2>1. l \in Nat \ {0}
    OBVIOUS
  <2>2. /\ e.rows = [f \in 1 .. l |->
              [episode |-> i - 1, index |-> Offset(lens, i) + f - 1,
               frame |-> f - 1, task |-> Label(i), payload |-> <<i, f>>]]
        /\ e.packets = [f \in 1 .. l |-> <<i, f>>]
        /\ e = [rows |-> e.rows, packets |-> e.packets, stats |-> e.stats]
    <3>1. e = RecordedEpisode(i, lens, Label(i))
      BY <1>1
    <3> HIDE DEF e
    <3> QED BY <3>1 DEF RecordedEpisode
  <2> HIDE DEF e, l
  <2>3. \A f \in 1 .. l : IsRow(e.rows[f]) /\ e.rows[f].episode = i - 1
    BY <2>2 DEF IsRow
  <2>4. e.rows = [f \in 1 .. l |-> e.rows[f]]
        /\ e.packets = [f \in 1 .. l |-> e.packets[f]]
    BY <2>2
  <2>5. Framed(e, i, l)
    BY <2>2, <2>3, <2>4, Zenon DEF Framed
  <2> QED BY <2>1, <2>5 DEF e
<1> QED
  BY <1>1, <1>2, <1>3, Zenon DEF Presented, view

(* Datasets as the backends write them.                                    *)
Versions == {"v2.1", "v3.0"}

Converted(part) ==
  /\ part.version \in Versions
  /\ Presented(Read(part), Len(Read(part).episodes))
  /\ Len(Read(part).episodes) \in Nat
  /\ part = Write(part.version, Read(part))

LEMMA WrittenIsConverted ==
  ASSUME NEW n \in Nat, NEW view, Presented(view, n), NEW version \in Versions
  PROVE  Converted(Write(version, view))
<1>1. Read(Write(version, view)) = view /\ Len(view.episodes) = n
  BY WrittenIsRead, PresentedIsView DEF Versions
<1>2. Write(version, view).version = version
  BY DEF Write, WriteV21, WriteV30, Versions
<1> QED
  BY <1>1, <1>2, Zenon DEF Converted

(* A shard of a written dataset is below the limit or holds one episode.   *)
LEMMA ShardIsBelow ==
  ASSUME NEW n \in Nat, NEW view, Presented(view, n),
         NEW file \in DOMAIN WriteV30(view).data
  PROVE  LET rows == WriteV30(view).data[file]
         IN  Len(rows) < DataLimit \/ \A f \in DOMAIN rows :
                                        rows[f].episode = rows[1].episode
<1> DEFINE lens == Lens(view)
           contents == Rows(view)
           groups == Groups(lens, DataLimit)
           m == Len(groups)
           rows == WriteV30(view).data[file]
<1>1. PICK R, P : IsView(view, R, P)
  BY PresentedIsView
<1>2. /\ Len(view.episodes) = n /\ lens \in [1 .. n -> Nat]
      /\ \A i \in 1 .. n : contents[i] = view.episodes[i].rows
      /\ Fills(contents, lens, n, R)
  BY <1>1, ViewFills, PresentedIsView, SMTT(30)
<1> HIDE DEF lens, contents
<1>3. PICK first : Cuts(groups, first, n)
  BY <1>2, GroupsShape, DatasetAssumption DEF DatasetAssumption
<1>4. \A g \in 1 .. m : Below(groups[g], lens, DataLimit)
  BY <1>2, GroupsShape, DatasetAssumption DEF DatasetAssumption
<1>5. WriteV30(view).data = Shards(groups, contents)
  BY DEF WriteV30, lens, contents, Rows
<1> HIDE DEF groups, m, rows
<1>6. PICK g \in 1 .. m : file = Place(g - 1)
  <2>1. \E g \in DOMAIN groups : file = Place(g - 1)
    BY <1>5 DEF Shards
  <2>2. DOMAIN groups = 1 .. m
    BY <1>3, LenProperties DEF Cuts, m
  <2> QED BY <2>1, <2>2
<1> DEFINE a == first[g]
           b == first[g + 1]
<1>7. /\ rows \in Seq(R) /\ Len(rows) = Offset(lens, b) - Offset(lens, a)
      /\ \A i \in a .. b - 1 : \A j \in 1 .. lens[i] :
           rows[Offset(lens, i) - Offset(lens, a) + j] = contents[i][j]
  <2> DEFINE shard == Shards(groups, contents)[Place(g - 1)]
  <2>1. rows = shard
    BY <1>5, <1>6, Zenon DEF rows
  <2>2. /\ shard \in Seq(R) /\ Len(shard) = Offset(lens, b) - Offset(lens, a)
        /\ \A i \in a .. b - 1 : \A j \in 1 .. lens[i] :
             shard[Offset(lens, i) - Offset(lens, a) + j] = contents[i][j]
    <3>1. Fills(contents, lens, n, R) /\ Cuts(groups, first, n)
          /\ g \in 1 .. Len(groups)
      BY <1>2, <1>3, <1>6 DEF m
    <3> QED BY <3>1, ShardContents
  <2> HIDE DEF shard, a, b
  <2> QED BY <2>1, <2>2
<1>8. /\ m \in Nat /\ \A h \in 1 .. m + 1 : first[h] \in Nat \ {0}
      /\ \A h, l \in 1 .. m + 1 : h < l => first[h] < first[l]
  BY <1>3, FirstGrows DEF m
<1>9. groups[g] = Span(a, b) /\ a < b /\ first[m + 1] = n + 1
  BY <1>3, <1>6 DEF Cuts, m
<1> HIDE DEF a, b
<1>10. a \in Nat \ {0} /\ b \in Nat /\ b <= n + 1
  <2>1. g \in 1 .. m + 1 /\ g + 1 \in 1 .. m + 1 /\ m + 1 \in 1 .. m + 1
        /\ (g + 1 = m + 1 \/ g + 1 < m + 1)
    BY <1>6, <1>8
  <2>2. a \in Nat \ {0} /\ b \in Nat
    BY <1>8, <2>1 DEF a, b
  <2>3. b = n + 1 \/ b < n + 1
    BY <1>8, <1>9, <2>1 DEF b
  <2> QED BY <2>2, <2>3
<1>11. /\ Len(groups[g]) = b - a /\ ToSet(groups[g]) = a .. b - 1
  <2>1. a \in Nat /\ b \in Nat /\ a < b
    BY <1>9, <1>10
  <2>2. Len(Span(a, b)) = b - a /\ ToSet(Span(a, b)) = a .. b - 1
    BY <2>1, SpanProperties
  <2> QED BY <1>9, <2>2, Zenon
<1>12. a \in 1 .. n /\ a \in 1 .. n + 1 /\ b \in 1 .. n + 1 /\ a <= b
  BY <1>9, <1>10
<1>13. CASE SumFunctionOnSet(lens, ToSet(groups[g])) < DataLimit
  <2>1. SumFunctionOnSet(lens, a .. b - 1) = Offset(lens, b) - Offset(lens, a)
    BY <1>2, <1>12, OffsetProperties
  <2>2. Len(rows) < DataLimit
    BY <1>7, <1>11, <1>13, <2>1
  <2> QED BY <2>2 DEF rows
<1>14. CASE Len(groups[g]) = 1
  <2>1. b = a + 1 /\ a \in a .. b - 1
    <3>1. b - a = 1
      BY <1>11, <1>14
    <3> QED BY <1>10, <3>1
  <2>2. Offset(lens, a + 1) = Offset(lens, a) + lens[a]
        /\ Offset(lens, a) \in Nat /\ lens[a] \in Nat
    BY <1>2, <1>12, OffsetProperties
  <2>3. Len(rows) = lens[a] /\ Offset(lens, a) - Offset(lens, a) = 0
    BY <1>7, <2>1, <2>2
  <2>4. \A j \in 1 .. lens[a] : rows[j] = contents[a][j]
    <3> TAKE j \in 1 .. lens[a]
    <3>1. rows[Offset(lens, a) - Offset(lens, a) + j] = contents[a][j]
      BY <1>7, <2>1
    <3>2. Offset(lens, a) - Offset(lens, a) + j = j
      BY <2>2
    <3> QED BY <3>1, <3>2
  <2>5. PICK l \in Nat \ {0} : Framed(view.episodes[a], a, l)
    BY <1>12 DEF Presented
  <2>6. view.episodes[a].rows = [f \in 1 .. l |-> view.episodes[a].rows[f]]
        /\ \A f \in 1 .. l : view.episodes[a].rows[f].episode = a - 1
    BY <2>5 DEF Framed
  <2>7. lens[a] = l
    <3>1. lens[a] = Len(contents[a]) /\ contents[a] = view.episodes[a].rows
      BY <1>2, <1>12 DEF Fills
    <3>2. Len(view.episodes[a].rows) = l
      BY <2>6, LenOfFunction
    <3> QED BY <3>1, <3>2
  <2>8. \A f \in 1 .. l : rows[f].episode = a - 1
    BY <1>2, <1>12, <2>4, <2>6, <2>7
  <2>9. DOMAIN rows = 1 .. l /\ 1 \in 1 .. l
    BY <1>7, <2>3, <2>7, LenProperties
  <2>10. \A f \in DOMAIN rows : rows[f].episode = rows[1].episode
    BY <2>8, <2>9
  <2> QED BY <2>10 DEF rows
<1> QED
  BY <1>4, <1>6, <1>13, <1>14 DEF Below

-----------------------------------------------------------------------------
(***************************************************************************)
(* Places in files, and the names of files.                                *)
(***************************************************************************)

(* A slice of two files of one length takes the same places of both.       *)
Spans(a, l) == l \in Nat /\ a = [f \in 1 .. l |-> a[f]]

SamePlaces(s, t, a, b, l) ==
  /\ DOMAIN s = DOMAIN t /\ s = [f \in DOMAIN s |-> s[f]]
  /\ t = [f \in DOMAIN t |-> t[f]]
  /\ \A f \in DOMAIN s : \E j \in 1 .. l : s[f] = a[j] /\ t[f] = b[j]

(* So slices of both at one place correspond, row by row.                  *)
LEMMA SlicesAgree ==
  ASSUME NEW l, NEW a, NEW b, Spans(a, l), Spans(b, l),
         NEW first \in Nat, NEW length \in Nat
  PROVE  SamePlaces(Slice(a, first, length), Slice(b, first, length), a, b, l)
<1> DEFINE end == Min({first + length, l})
           k == end - first
<1>0. /\ l \in Nat
      /\ a = [f \in 1 .. l |-> a[f]] /\ b = [f \in 1 .. l |-> b[f]]
  BY DEF Spans
<1>1. Len(a) = l /\ Len(b) = l
  BY <1>0, LenOfFunction
<1>2. end \in Nat /\ end <= l /\ k \in Int
  <2>1. first + length \in Int /\ l \in Int
    BY <1>0
  <2>2. end = IF first + length <= l THEN first + length ELSE l
    BY <2>1, MinOfTwo
  <2> QED BY <1>0, <2>2
<1>3. Slice(a, first, length) = SubSeq(a, first + 1, end)
      /\ Slice(b, first, length) = SubSeq(b, first + 1, end)
  BY <1>1 DEF Slice
<1> HIDE DEF end
<1>4. ASSUME NEW f \in 1 .. k
      PROVE  first + 1 + f - 1 \in 1 .. l
  BY <1>0, <1>2
<1> DEFINE S == Range(a) \cup Range(b)
<1>5. \A f \in first + 1 .. end : a[f] \in S /\ b[f] \in S
  <2> TAKE f \in first + 1 .. end
  <2>1. f \in 1 .. l
    BY <1>0, <1>2
  <2>2. f \in DOMAIN a /\ f \in DOMAIN b
    BY <1>0, <2>1
  <2> QED BY <2>2 DEF Range
<1> HIDE DEF S
<1>6. ASSUME NEW c, \A f \in first + 1 .. end : c[f] \in S
      PROVE  LET s == SubSeq(c, first + 1, end)
             IN  /\ DOMAIN s = IF k > 0 THEN 1 .. k ELSE {}
                 /\ s = [f \in DOMAIN s |-> s[f]]
                 /\ \A f \in 1 .. k : s[f] = c[first + 1 + f - 1]
  <2> DEFINE s == SubSeq(c, first + 1, end)
  <2>1. first + 1 \in Int /\ end \in Int
    BY <1>2
  <2>2. /\ s \in Seq(S)
        /\ Len(s) = IF first + 1 <= end THEN end - (first + 1) + 1 ELSE 0
        /\ \A j \in 1 .. end - (first + 1) + 1 : s[j] = c[first + 1 + j - 1]
    BY <1>6, <2>1, SubSeqProperties
  <2> HIDE DEF s
  <2>3. end - (first + 1) + 1 = k /\ (first + 1 <= end <=> k > 0)
    BY <1>2
  <2>4. DOMAIN s = 1 .. Len(s) /\ s = [f \in DOMAIN s |-> s[f]]
    BY <2>2, LenProperties
  <2>5. DOMAIN s = IF k > 0 THEN 1 .. k ELSE {}
    BY <2>2, <2>3, <2>4
  <2>6. \A f \in 1 .. k : s[f] = c[first + 1 + f - 1]
    BY <2>2, <2>3
  <2>7. /\ DOMAIN s = IF k > 0 THEN 1 .. k ELSE {}
        /\ s = [f \in DOMAIN s |-> s[f]]
        /\ \A f \in 1 .. k : s[f] = c[first + 1 + f - 1]
    BY <2>4, <2>5, <2>6
  <2> QED BY <2>7 DEF s
<1> DEFINE s == Slice(a, first, length)
           t == Slice(b, first, length)
<1>7. /\ DOMAIN s = IF k > 0 THEN 1 .. k ELSE {}
      /\ s = [f \in DOMAIN s |-> s[f]]
      /\ \A f \in 1 .. k : s[f] = a[first + 1 + f - 1]
  BY <1>3, <1>5, <1>6
<1>8. /\ DOMAIN t = IF k > 0 THEN 1 .. k ELSE {}
      /\ t = [f \in DOMAIN t |-> t[f]]
      /\ \A f \in 1 .. k : t[f] = b[first + 1 + f - 1]
  BY <1>3, <1>5, <1>6
<1> HIDE DEF s, t
<1>9. ASSUME NEW f \in DOMAIN s PROVE \E j \in 1 .. l : s[f] = a[j] /\ t[f] = b[j]
  <2>1. f \in 1 .. k
    BY <1>7
  <2>2. first + 1 + f - 1 \in 1 .. l
    BY <1>4, <2>1
  <2>3. s[f] = a[first + 1 + f - 1] /\ t[f] = b[first + 1 + f - 1]
    BY <1>7, <1>8, <2>1
  <2> QED BY <2>2, <2>3
<1>10. SamePlaces(s, t, a, b, l)
  BY <1>7, <1>8, <1>9 DEF SamePlaces
<1> QED BY <1>10 DEF s, t

(* The base of an episode is that of the first one in its file.            *)
LeadsFile(meta, i, a) ==
  /\ meta[a].data = meta[i].data
  /\ \A k \in 1 .. a - 1 : meta[k].data # meta[i].data

(* It exists, and the base is the number of the row it starts at.          *)
LEMMA BaseIs ==
  ASSUME NEW n \in Nat, NEW meta, DOMAIN meta = 1 .. n, NEW i \in 1 .. n
  PROVE  /\ \E a \in 1 .. i : LeadsFile(meta, i, a)
         /\ \A a \in 1 .. n : LeadsFile(meta, i, a) => Base(meta, i) = meta[a].from
<1>1. \E a \in 1 .. i : LeadsFile(meta, i, a)
  <2> DEFINE T == {j \in 1 .. n : meta[j].data = meta[i].data}
  <2>1. T \in SUBSET (1 .. n) /\ i \in T /\ T \in SUBSET Int
    OBVIOUS
  <2>2. IsFiniteSet(T)
    <3>1. 1 \in Int /\ n \in Int
      OBVIOUS
    <3>2. IsFiniteSet(1 .. n)
      BY <3>1, FS_Interval
    <3> HIDE DEF T
    <3> QED BY <2>1, <3>2, FS_Subset
  <2>3. PICK a \in T : \A j \in T : a <= j
    <3> HIDE DEF T
    <3>1. T # {}
      BY <2>1
    <3> QED BY <2>1, <2>2, <3>1, FiniteMin
  <2>4. a \in 1 .. n /\ meta[a].data = meta[i].data /\ a <= i
    BY <2>1, <2>3
  <2>5. ASSUME NEW k \in 1 .. a - 1 PROVE meta[k].data # meta[i].data
    <3>1. k \in 1 .. n /\ ~(a <= k)
      BY <2>4
    <3> QED BY <2>3, <3>1
  <2>6. a \in 1 .. i
    BY <2>4
  <2> QED BY <2>4, <2>5, <2>6 DEF LeadsFile
<1>2. ASSUME NEW a \in 1 .. n, LeadsFile(meta, i, a)
      PROVE  Base(meta, i) = meta[a].from
  <2> DEFINE Is(j) == /\ meta[j].data = meta[i].data
                      /\ \A k \in 1 .. j - 1 : meta[k].data # meta[i].data
             b == CHOOSE j \in DOMAIN meta : Is(j)
  <2>1. Base(meta, i) = meta[b].from
    BY DEF Base
  <2>2. a \in DOMAIN meta /\ Is(a)
    BY <1>2 DEF LeadsFile
  <2>3. b \in DOMAIN meta /\ Is(b)
    <3> HIDE DEF Is
    <3> QED BY <2>2
  <2>4. b \in 1 .. n /\ Is(b)
    BY <2>3
  <2> HIDE DEF b
  <2>5. ~(a < b) /\ ~(b < a)
    BY <2>2, <2>4
  <2>6. a = b
    BY <2>4, <2>5
  <2> QED BY <2>1, <2>6
<1> QED BY <1>1, <1>2

FileName(version, r) == IF version = "v2.1" THEN EpisodeFile(r - 1) ELSE Place(r - 1)

(* Files of different numbers have different names in either layout.       *)
LEMMA FileNamesDiffer ==
  ASSUME NEW version, NEW r \in Nat \ {0}, NEW q \in Nat \ {0},
         FileName(version, r) = FileName(version, q)
  PROVE  r = q
<1>1. CASE version = "v2.1"
  <2>1. EpisodeFile(r - 1) = EpisodeFile(q - 1)
    BY <1>1 DEF FileName
  <2>2. r - 1 = q - 1
    BY <2>1 DEF EpisodeFile
  <2> QED BY <2>2
<1>2. CASE version # "v2.1"
  <2> DEFINE c == ChunksSize
  <2>1. c \in Nat /\ c > 0
    BY DatasetAssumption DEF DatasetAssumption
  <2>2. Place(r - 1) = Place(q - 1)
    BY <1>2 DEF FileName
  <2>3. (r - 1) \div c = (q - 1) \div c /\ (r - 1) % c = (q - 1) % c
    BY <2>2 DEF Place
  <2> HIDE DEF c
  <2>4. ASSUME NEW m \in Nat
        PROVE  m = (m \div c) * c + (m % c)
    BY <2>1, SMTT(30)
  <2>5. r - 1 \in Nat /\ q - 1 \in Nat
    OBVIOUS
  <2>6. r - 1 = ((r - 1) \div c) * c + ((r - 1) % c)
    BY <2>4, <2>5
  <2>7. q - 1 = ((q - 1) \div c) * c + ((q - 1) % c)
    BY <2>4, <2>5
  <2>8. r - 1 = q - 1
    BY <2>3, <2>6, <2>7, Zenon
  <2> QED BY <2>8
<1> QED BY <1>1, <1>2

-----------------------------------------------------------------------------
(***************************************************************************)
(* Datasets whose rows number their frames and name tasks of the table.    *)
(***************************************************************************)

(* What a merge relies on in a dataset that a backend wrote.               *)
MetaRow(row, version) ==
  row = IF version = "v2.1" THEN [length |-> row.length, stats |-> row.stats]
        ELSE [data |-> row.data, from |-> row.from, length |-> row.length,
              video |-> row.video, start |-> row.start, end |-> row.end,
              stats |-> row.stats]

MetaLens(part) == [i \in DOMAIN part.meta |-> part.meta[i].length]

InRange(part, i) ==
  LET file == part.data[part.meta[i].data]
  IN  /\ part.meta[i].from = Offset(MetaLens(part), i)
      /\ \E l \in Nat : file = [f \in 1 .. l |-> file[f]]

NumberedRow(row, i, f) == IsRow(row) /\ row.episode = i - 1 /\ row.frame = f - 1

SoundEpisode(part, i) ==
  LET rows == RowsOf(part, i)
      l == part.meta[i].length
  IN  /\ MetaRow(part.meta[i], part.version)
      /\ l \in Nat \ {0} /\ rows = [f \in 1 .. l |-> rows[f]]
      /\ \A f \in 1 .. l : NumberedRow(rows[f], i, f) /\ rows[f].task \in DOMAIN part.tasks
      /\ part.version = "v3.0" => InRange(part, i)

Sound(part, n) ==
  /\ n \in Nat /\ part.version \in Versions /\ IsTable(part.tasks)
  /\ part.meta = [i \in 1 .. n |-> part.meta[i]]
  /\ \A i \in 1 .. n : SoundEpisode(part, i)

(* Rows number their frames and name tasks of the table.                   *)
Labelled(view) ==
  /\ IsTable(view.tasks)
  /\ \A i \in DOMAIN view.episodes : \A f \in DOMAIN view.episodes[i].rows :
       /\ view.episodes[i].rows[f].frame = f - 1
       /\ view.episodes[i].rows[f].task \in DOMAIN view.tasks

(* What is written from labelled episodes is sound in this sense.          *)
LEMMA ConvertedIsSound ==
  ASSUME NEW part, Converted(part), Labelled(Read(part))
  PROVE  Sound(part, Len(Read(part).episodes))
<1> DEFINE view == Read(part)
           n == Len(view.episodes)
           lens == Lens(view)
           groups == Groups(lens, DataLimit)
<1>1. /\ part.version \in Versions /\ n \in Nat /\ Presented(view, n)
      /\ part = Write(part.version, view) /\ Labelled(view)
  BY DEF Converted
<1>2. /\ view.tasks = part.tasks
      /\ DOMAIN view.episodes = DOMAIN part.meta
      /\ \A i \in DOMAIN part.meta : view.episodes[i].rows = RowsOf(part, i)
  BY DEF Read
<1> HIDE DEF view
<1>3. PICK R, P : IsView(view, R, P)
  BY <1>1, PresentedIsView
<1>4. /\ DOMAIN view.episodes = 1 .. n /\ DOMAIN lens = 1 .. n
      /\ lens \in [1 .. n -> Nat]
      /\ \A i \in 1 .. n : Rows(view)[i] = view.episodes[i].rows
      /\ Fills(Rows(view), lens, n, R)
  BY <1>3, ViewFills
<1>5. /\ lens = [i \in 1 .. n |-> lens[i]]
      /\ \A i \in 1 .. n :
           /\ lens[i] = Len(view.episodes[i].rows) /\ lens[i] \in Nat \ {0}
           /\ view.episodes[i].rows = [f \in 1 .. lens[i] |-> view.episodes[i].rows[f]]
  <2>1. \A i \in 1 .. n : lens[i] \in Nat \ {0}
    BY <1>4 DEF Fills
  <2>2. \A i \in 1 .. n : lens[i] = Len(view.episodes[i].rows)
    BY <1>4 DEF Lens
  <2>3. ASSUME NEW i \in 1 .. n
        PROVE  view.episodes[i].rows = [f \in 1 .. lens[i] |-> view.episodes[i].rows[f]]
    <3>1. PICK l \in Nat \ {0} : Framed(view.episodes[i], i, l)
      BY <1>1 DEF Presented
    <3>2. view.episodes[i].rows = [f \in 1 .. l |-> view.episodes[i].rows[f]]
      BY <3>1 DEF Framed
    <3> DEFINE rows == view.episodes[i].rows
    <3>3. rows = [f \in 1 .. l |-> rows[f]]
      BY <3>2
    <3> HIDE DEF rows
    <3>4. Len(rows) = l
      BY <3>3, LenOfFunction
    <3>5. lens[i] = l
      BY <2>2, <3>4 DEF rows
    <3> QED BY <3>2, <3>5
  <2> QED BY <1>4, <2>1, <2>2, <2>3
<1>6. PICK first : Cuts(groups, first, n)
  <2>1. DataLimit \in Nat
    BY DatasetAssumption DEF DatasetAssumption
  <2> HIDE DEF lens, n
  <2> QED BY <1>1, <1>4, <2>1, GroupsShape
<1> HIDE DEF n, lens, groups
<1>7. /\ part.meta = [i \in 1 .. n |-> part.meta[i]]
      /\ \A i \in 1 .. n :
           /\ MetaRow(part.meta[i], part.version)
           /\ part.meta[i].length = lens[i]
           /\ part.version = "v3.0" =>
                /\ part.meta[i].from = Offset(lens, i)
                /\ part.meta[i].data = Place(GroupOf(groups, i) - 1)
                /\ part.data = Shards(groups, Rows(view))
  <2>1. CASE part.version = "v2.1"
    <3>1. part.meta = [i \in DOMAIN lens |-> [length |-> lens[i],
                                              stats |-> view.episodes[i].stats]]
      BY <1>1, <2>1 DEF Write, WriteV21, lens
    <3> QED BY <1>4, <2>1, <3>1 DEF MetaRow
  <2>2. CASE part.version = "v3.0"
    <3>1. part = WriteV30(view)
      BY <1>1, <2>2 DEF Write
    <3> DEFINE videoGroups == Groups(Lens(view), VideoLimit)
               Elapsed(i) == SumFunctionOnSet(Lens(view),
                 {j \in ToSet(videoGroups[GroupOf(videoGroups, i)]) : j < i})
    <3>2. WriteV30(view).meta = [i \in DOMAIN lens |->
                [data |-> Place(GroupOf(groups, i) - 1),
                 from |-> Offset(lens, i), length |-> lens[i],
                 video |-> Place(GroupOf(videoGroups, i) - 1),
                 start |-> Elapsed(i), end |-> Elapsed(i) + lens[i],
                 stats |-> view.episodes[i].stats]]
          /\ WriteV30(view).data = Shards(groups, Rows(view))
      BY DEF WriteV30, lens, groups, Rows
    <3> HIDE DEF Elapsed, videoGroups
    <3> QED BY <1>4, <2>2, <3>1, <3>2 DEF MetaRow
  <2> QED BY <1>1, <2>1, <2>2 DEF Versions
<1>8. MetaLens(part) = lens
  BY <1>5, <1>7 DEF MetaLens
<1>9. ASSUME NEW i \in 1 .. n PROVE SoundEpisode(part, i)
  <2> DEFINE rows == RowsOf(part, i)
             l == part.meta[i].length
  <2>1. rows = view.episodes[i].rows /\ l = lens[i]
    BY <1>2, <1>4, <1>7
  <2> HIDE DEF rows, l
  <2>2. l \in Nat \ {0} /\ rows = [f \in 1 .. l |-> rows[f]]
    BY <1>5, <2>1
  <2>3. ASSUME NEW f \in 1 .. l
        PROVE  NumberedRow(rows[f], i, f) /\ rows[f].task \in DOMAIN part.tasks
    <3>1. PICK k \in Nat \ {0} : Framed(view.episodes[i], i, k)
      BY <1>1 DEF Presented
    <3>2. rows = [g \in 1 .. k |-> rows[g]]
          /\ \A g \in 1 .. k : IsRow(rows[g]) /\ rows[g].episode = i - 1
      BY <2>1, <3>1 DEF Framed
    <3>3. f \in DOMAIN rows /\ f \in 1 .. k
      <4>1. DOMAIN rows = 1 .. l
        BY <2>2
      <4>2. DOMAIN rows = 1 .. k
        BY <3>2
      <4> QED BY <4>1, <4>2
    <3>4. rows[f].frame = f - 1 /\ rows[f].task \in DOMAIN part.tasks
      BY <1>1, <1>2, <1>4, <2>1, <3>3 DEF Labelled
    <3> QED BY <3>2, <3>3, <3>4 DEF NumberedRow
  <2>4. part.version = "v3.0" => InRange(part, i)
    <3> SUFFICES ASSUME part.version = "v3.0" PROVE InRange(part, i)
      OBVIOUS
    <3> DEFINE g == GroupOf(groups, i)
               file == part.data[part.meta[i].data]
    <3>1. g \in 1 .. Len(groups)
      BY <1>1, <1>6, GroupOfEpisode DEF n
    <3>2. file = Shards(groups, Rows(view))[Place(g - 1)]
          /\ part.meta[i].from = Offset(MetaLens(part), i)
      BY <1>7, <1>8
    <3> HIDE DEF g, file
    <3>3. file \in Seq(R)
      BY <1>1, <1>4, <1>6, <3>1, <3>2, ShardContents DEF n
    <3>4. Len(file) \in Nat /\ file = [f \in 1 .. Len(file) |-> file[f]]
      BY <3>3, LenProperties
    <3>5. \E k \in Nat : file = [f \in 1 .. k |-> file[f]]
      BY <3>4
    <3> QED BY <3>2, <3>5, Zenon DEF InRange, file
  <2>5. MetaRow(part.meta[i], part.version)
    BY <1>7
  <2> QED BY <2>2, <2>3, <2>4, <2>5, Zenon DEF SoundEpisode, rows, l
<1>10. IsTable(part.tasks) /\ n \in Nat
  BY <1>1, <1>2 DEF Labelled, n
<1>11. Sound(part, n)
  BY <1>1, <1>7, <1>9, <1>10, Zenon DEF Sound
<1> QED
  BY <1>11 DEF n, view

(* A recording labels its rows.                                            *)
LEMMA RecordedIsLabelled ==
  ASSUME NEW n \in Nat, NEW lens \in [1 .. n -> Nat \ {0}],
         NEW table, IsTable(table), NEW splits
  PROVE  Labelled(Recorded(lens, table, splits))
<1> DEFINE view == Recorded(lens, table, splits)
           c == Cardinality(DOMAIN table)
           Label(i) == Labels(table)[1 + (i % c)]
<1>1. /\ view.tasks = table
      /\ view.episodes = [i \in 1 .. n |-> RecordedEpisode(i, lens, Label(i))]
  BY DEF Recorded
<1>2. DOMAIN table \in SUBSET Nat /\ IsFiniteSet(DOMAIN table) /\ DOMAIN table # {}
  BY DEF IsTable
<1>3. c \in Nat \ {0}
  BY <1>2, FS_CardinalityType, FS_EmptySet
<1>4. Labels(table) \in [1 .. c -> DOMAIN table]
  BY <1>2, AscendingType DEF Labels
<1> HIDE DEF view, c
<1>5. \A i \in 1 .. n : Label(i) \in DOMAIN table
  <2> TAKE i \in 1 .. n
  <2>1. i % c \in 0 .. c - 1
    BY <1>3
  <2>2. 1 + (i % c) \in 1 .. c
    BY <1>3, <2>1
  <2> QED BY <1>4, <2>2
<1> HIDE DEF Label
<1>6. ASSUME NEW i \in 1 .. n, NEW f \in DOMAIN view.episodes[i].rows
      PROVE  /\ view.episodes[i].rows[f].frame = f - 1
             /\ view.episodes[i].rows[f].task \in DOMAIN table
  <2>1. view.episodes[i] = RecordedEpisode(i, lens, Label(i))
    BY <1>1
  <2>2. view.episodes[i].rows =
          [g \in 1 .. lens[i] |-> [episode |-> i - 1, index |-> Offset(lens, i) + g - 1,
             frame |-> g - 1, task |-> Label(i), payload |-> <<i, g>>]]
    BY <2>1 DEF RecordedEpisode
  <2> QED BY <1>5, <2>2
<1>7. DOMAIN view.episodes = 1 .. n
  BY <1>1
<1> QED BY <1>1, <1>6, <1>7, Zenon DEF Labelled, view

(* Parts of one source have one table, which the merge finds again.        *)
Dense(table) == DOMAIN table = 0 .. Cardinality(DOMAIN table) - 1
===============================================================================
