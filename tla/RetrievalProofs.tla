-------------------------- MODULE RetrievalProofs --------------------------
(***************************************************************************)
(* Theorems about module Retrieval, for any corpora over any finite set of *)
(* chunks and any limits.                                                  *)
(*                                                                         *)
(* The invariant follows a question through the stages: while chunks are   *)
(* collected, a parent is selected before what it led to and scores no     *)
(* less; the ranking sorts; a chunk that was dropped has something that    *)
(* stays for it, found at an earlier turn; and the context is a prefix of  *)
(* decisions, each of which left out only what did not fit.                *)
(***************************************************************************)
EXTENDS Retrieval, FiniteSetTheorems, WellFoundedInduction, TLAPS

RetrievalTypeOK ==
    /\ corpus \in Corpora /\ direction \in {"forward", "backward", "both"}
    /\ pc \in {"seed", "expand", "rank", "drop", "pack", "done"}
    /\ selected \in Seq(Chunk) /\ score \in [Chunk -> Nat] /\ via \in [Chunk -> Chunk \union {None}]
    /\ frontier \subseteq Range(selected)
    /\ hop \in Nat /\ (pc = "expand" => hop \in 1 .. MaxHops)
    /\ ranked \in Seq(Chunk) /\ dropped \subseteq DOMAIN ranked
    /\ packed \in Seq(1 .. Len(ranked)) /\ total \in Nat
    /\ pc \in {"drop", "pack"} => turn \in 1 .. Len(ranked)
    /\ pc \in {"seed", "expand", "rank"} => turn = 1 /\ ranked = <<>>
    /\ pc \in {"seed", "expand", "rank", "drop"} => packed = <<>> /\ total = 0

\* What led to a chunk was selected before it and scores no less.
Explained ==
    /\ pc = "seed" => \A c \in Chunk : via[c] = None
    /\ \A p \in 1 .. Len(selected) : via[selected[p]] # None =>
          \E q \in 1 .. p - 1 : /\ selected[q] = via[selected[p]]
                                /\ score[selected[p]] =< score[selected[q]]

\* The ranking is by score, and puts parents first.
Ranking ==
    /\ \A i, j \in 1 .. Len(ranked) : i < j => score[ranked[j]] =< score[ranked[i]]
    /\ ParentsAreReturned

\* A dropped chunk is paid for by one that stays: a container whose turn has
\* been, or a match inside it.
Paid ==
    \A i \in dropped : \E k \in Kept :
        \/ /\ Holds(k, i) /\ Outranks(k, i) /\ ranked[k] \notin corpus.cut
           /\ pc = "drop" => k < turn
        \/ Encloses(i, k) /\ ~Outranks(i, k)

\* The context so far: the positions taken go up, and each one passed over did
\* not fit behind those that were taken before it.
Passed(i) == pc = "done" \/ (pc = "pack" /\ i < turn)

LeftOut(i) ==
    \E m \in 1 .. Len(packed) :
        /\ \A a \in 1 .. m : packed[a] < i
        /\ \A a \in m + 1 .. Len(packed) : i < packed[a]
        /\ Length[m] + 2 + Size(i) > MaxChars

Packing ==
    /\ \A a, b \in 1 .. Len(packed) : a < b => packed[a] < packed[b]
    /\ \A a \in 1 .. Len(packed) : packed[a] \in Kept /\ Passed(packed[a])
    /\ total = Length[Len(packed)] /\ total =< MaxChars
    /\ \A i \in Kept : Passed(i) => i \in Range(packed) \/ LeftOut(i)

RInv == RetrievalTypeOK /\ Explained /\ Ranking /\ Paid /\ Packing

-----------------------------------------------------------------------------
(* Induction, and what recursive definitions stand for.                    *)

LEMMA LeastNatural ==
    ASSUME NEW T \in SUBSET Nat, T # {}
    PROVE  \E x \in T : \A y \in T : x =< y
<1>1. IsWellFoundedOn(OpToRel(<, Nat), Nat)
  BY NatLessThanWellFounded
<1>2. PICK x \in T : \A y \in T : ~ (<<y, x>> \in OpToRel(<, Nat))
  BY <1>1, WFMin
<1>3. \A y \in Nat : y < x => <<y, x>> \in OpToRel(<, Nat)
  BY <1>2 DEF OpToRel
<1>4. ASSUME NEW y \in T PROVE x =< y
  <2>1. x \in Nat /\ y \in Nat /\ ~ (y < x)
    BY <1>2, <1>3
  <2> QED BY <2>1
<1> QED BY <1>2, <1>4

LEMMA Induction ==
    ASSUME NEW T, 0 \in T, \A n \in Nat : n \in T => n + 1 \in T
    PROVE  Nat \subseteq T
<1> SUFFICES ASSUME ~(Nat \subseteq T) PROVE FALSE
  OBVIOUS
<1> DEFINE U == Nat \ T
<1>1. U \in SUBSET Nat /\ U # {}
  OBVIOUS
<1>2. PICK x \in U : \A y \in U : x =< y
  BY <1>1, LeastNatural
<1>3. x \in Nat /\ x # 0 /\ x \notin T
  BY <1>2
<1>4. x - 1 \in Nat /\ x - 1 \notin U
  BY <1>2, <1>3
<1>5. x - 1 + 1 = x
  BY <1>3
<1> QED BY <1>3, <1>4, <1>5

\* What N steps go through, the k-th of which may depend on k.
Iterates(W, S, a, f, N) ==
    W \in [0 .. N -> S] /\ W[0] = a /\ \A k \in 1 .. N : W[k] = f[<<k, W[k - 1]>>]

LEMMA Iteration ==
    ASSUME NEW S, NEW a \in S, NEW N \in Nat, NEW f \in [(1 .. N) \X S -> S]
    PROVE  \E W : Iterates(W, S, a, f, N)
<1> DEFINE Runs(j) == {W \in [0 .. j -> S] : W[0] = a /\ \A k \in 1 .. j : W[k] = f[<<k, W[k - 1]>>]}
           T == {j \in Nat : j =< N => Runs(j) # {}}
<1>1. 0 \in T
  <2> DEFINE W == [k \in 0 .. 0 |-> a]
  <2>1. W \in Runs(0)
    OBVIOUS
  <2> QED BY <2>1
<1>2. ASSUME NEW j \in Nat, j \in T PROVE j + 1 \in T
  <2>0. SUFFICES ASSUME j + 1 =< N PROVE Runs(j + 1) # {}
    OBVIOUS
  <2>1. PICK W \in [0 .. j -> S] : W[0] = a /\ \A k \in 1 .. j : W[k] = f[<<k, W[k - 1]>>]
    BY <1>2, <2>0
  <2> DEFINE new == f[<<j + 1, W[j]>>]
             V == [k \in 0 .. j + 1 |-> IF k = j + 1 THEN new ELSE W[k]]
  <2>2. V \in [0 .. j + 1 -> S] /\ V[0] = a
    <3>1. <<j + 1, W[j]>> \in (1 .. N) \X S
      BY <2>0, <2>1
    <3>2. new \in S
      BY <3>1
    <3>3. W \in [0 .. j -> S] /\ W[0] = a
      BY <2>1
    <3> HIDE DEF new, T, Runs
    <3>4. \A k \in 0 .. j + 1 : k # j + 1 => k \in 0 .. j
      OBVIOUS
    <3> QED BY <3>2, <3>3, <3>4
  <2>3. ASSUME NEW k \in 1 .. j + 1 PROVE V[k] = f[<<k, V[k - 1]>>]
    <3>1. CASE k = j + 1
      <4>1. V[j + 1] = new /\ V[j] = W[j] /\ k - 1 = j
        <5> HIDE DEF new
        <5> QED BY <3>1
      <4> HIDE DEF V
      <4> QED BY <3>1, <4>1
    <3>2. CASE k \in 1 .. j
      <4>1. V[k] = W[k] /\ V[k - 1] = W[k - 1]
        BY <3>2
      <4> QED BY <2>1, <3>2, <4>1
    <3> QED BY <3>1, <3>2
  <2> HIDE DEF V
  <2>4. V \in Runs(j + 1)
    BY <2>2, <2>3
  <2> QED BY <2>4
<1>3. Nat \subseteq T
  <2> HIDE DEF T
  <2> QED BY <1>1, <1>2, Induction
<1>4. PICK W \in Runs(N) : TRUE
  BY <1>3
<1> QED BY <1>4 DEF Iterates

-----------------------------------------------------------------------------
(* Sorting.                                                                *)

StrictOrder(S, R) ==
    /\ \A x \in S : <<x, x>> \notin R
    /\ \A x, y \in S : x = y \/ <<x, y>> \in R \/ <<y, x>> \in R
    /\ \A x, y, z \in S : <<x, y>> \in R /\ <<y, z>> \in R => <<x, z>> \in R

\* A finite set in a strict total order: every element once, and in order.
LEMMA InOrderSorts ==
    ASSUME NEW S, IsFiniteSet(S), NEW R, StrictOrder(S, R)
    PROVE  LET o == InOrder(S, R)  n == Cardinality(S)
           IN  /\ n \in Nat /\ o \in [1 .. n -> S]
               /\ \A x \in S : \E k \in 1 .. n : o[k] = x
               /\ \A a, b \in 1 .. n : a < b => <<o[a], o[b]>> \in R
<1> DEFINE o == InOrder(S, R)
           n == Cardinality(S)
           Below(x) == {j \in S : <<j, x>> \in R}
           rank == [x \in S |-> Cardinality(Below(x))]
<1>1. n \in Nat
  BY FS_CardinalityType
<1>2. ASSUME NEW x \in S PROVE IsFiniteSet(Below(x)) /\ Cardinality(Below(x)) \in 0 .. n - 1
  <2>1. Below(x) \in SUBSET S /\ x \notin Below(x)
    BY DEF StrictOrder
  <2> HIDE DEF Below
  <2>2. IsFiniteSet(Below(x)) /\ Cardinality(Below(x)) =< n /\ (n = Cardinality(Below(x)) => S = Below(x))
    BY <2>1, FS_Subset
  <2>3. Cardinality(Below(x)) \in Nat /\ Cardinality(Below(x)) # n
    BY <2>1, <2>2, FS_CardinalityType
  <2> QED BY <1>1, <2>2, <2>3
<1>3. ASSUME NEW x \in S, NEW y \in S, <<x, y>> \in R PROVE rank[x] < rank[y]
  <2>1. Below(x) \in SUBSET Below(y) /\ x \in Below(y) /\ x \notin Below(x)
    BY <1>3 DEF StrictOrder
  <2> HIDE DEF Below
  <2>2. IsFiniteSet(Below(y)) /\ Cardinality(Below(x)) \in Nat /\ Cardinality(Below(y)) \in Nat
    BY <1>1, <1>2
  <2>3. Cardinality(Below(x)) =< Cardinality(Below(y)) /\ Cardinality(Below(x)) # Cardinality(Below(y))
    BY <2>1, <2>2, FS_Subset
  <2> QED BY <2>2, <2>3
<1>4. rank \in [S -> 0 .. n - 1]
  BY <1>2
<1>5. \A x \in S : rank[x] = Cardinality(Below(x))
  OBVIOUS
<1> HIDE DEF rank
<1>6. \A x, y \in S : rank[x] = rank[y] => x = y
  <2> SUFFICES ASSUME NEW x \in S, NEW y \in S, x # y PROVE rank[x] # rank[y]
    OBVIOUS
  <2>1. rank[x] \in Int /\ rank[y] \in Int
    BY <1>1, <1>4
  <2>2. rank[x] < rank[y] \/ rank[y] < rank[x]
    BY <1>3 DEF StrictOrder
  <2> QED BY <2>1, <2>2
<1>7. \A r \in 0 .. n - 1 : \E x \in S : rank[x] = r
  <2> DEFINE Ranks == 0 .. n - 1
  <2>1. IsFiniteSet(Ranks) /\ Cardinality(Ranks) = n
    <3>1. 0 \in Int /\ n - 1 \in Int
      BY <1>1
    <3>2. IsFiniteSet(Ranks) /\ Cardinality(Ranks) = IF 0 > n - 1 THEN 0 ELSE n - 1 - 0 + 1
      BY <3>1, FS_Interval
    <3> HIDE DEF n, Ranks
    <3>3. (0 > n - 1 => n = 0) /\ n - 1 - 0 + 1 = n
      BY <1>1
    <3> QED BY <3>2, <3>3
  <2>2. rank \in Injection(S, Ranks)
    BY <1>4, <1>6 DEF Injection, IsInjective
  <2> HIDE DEF Ranks
  <2>3. rank \in Surjection(S, Ranks)
    BY <2>1, <2>2, FS_Injection
  <2>4. \A r \in Ranks : \E x \in S : rank[x] = r
    BY <2>3 DEF Surjection
  <2> QED BY <2>4 DEF Ranks
<1> DEFINE pick(k) == CHOOSE i \in S : Cardinality(Below(i)) = k - 1
<1>8. o = [k \in 1 .. n |-> pick(k)]
  BY DEF InOrder
<1>9. \A k \in 1 .. n : o[k] \in S /\ rank[o[k]] = k - 1
  <2> SUFFICES ASSUME NEW k \in 1 .. n PROVE o[k] \in S /\ rank[o[k]] = k - 1
    OBVIOUS
  <2> HIDE DEF o, Below
  <2>0. o[k] = pick(k)
    BY <1>8
  <2>1. k - 1 \in 0 .. n - 1
    BY <1>1
  <2>2. \E i \in S : Cardinality(Below(i)) = k - 1
    BY <1>5, <1>7, <2>1
  <2>3. o[k] \in S /\ Cardinality(Below(o[k])) = k - 1
    BY <2>0, <2>2
  <2> QED BY <1>5, <2>3
<1>10. o \in [1 .. n -> S]
  <2> HIDE DEF o, pick
  <2> QED BY <1>8, <1>9
<1> HIDE DEF o, Below, pick
<1>11. ASSUME NEW x \in S PROVE \E k \in 1 .. n : o[k] = x
  <2>1. rank[x] \in 0 .. n - 1 /\ rank[x] + 1 \in 1 .. n /\ rank[x] + 1 - 1 = rank[x]
    BY <1>1, <1>4
  <2> QED BY <1>6, <1>9, <2>1
<1>12. ASSUME NEW a \in 1 .. n, NEW b \in 1 .. n, a < b PROVE <<o[a], o[b]>> \in R
  <2>1. o[a] \in S /\ o[b] \in S /\ rank[o[a]] = a - 1 /\ rank[o[b]] = b - 1
    BY <1>9
  <2>2. ~(b - 1 < a - 1) /\ a - 1 # b - 1
    BY <1>1, <1>12
  <2>3. o[a] # o[b] /\ <<o[b], o[a]>> \notin R
    BY <1>3, <2>1, <2>2
  <2> QED BY <2>1, <2>3 DEF StrictOrder
<1> QED BY <1>1, <1>10, <1>11, <1>12 DEF o

-----------------------------------------------------------------------------
(* The operators of the search.                                            *)

LEMMA LimitTypes ==
    /\ TopSeeds \in Nat \ {0} /\ MaxHops \in Nat \ {0} /\ MaxNodes \in Nat \ {0}
    /\ MaxFanout \in Nat \ {0} /\ HubThreshold \in Nat \ {0} /\ MaxChars \in Nat \ {0}
    /\ Chunk \subseteq Nat \ {None} /\ IsFiniteSet(Chunk)
BY RetrievalAssumption

LEMMA CorpusFacts ==
    ASSUME corpus \in Corpora
    PROVE  /\ corpus.hits \in Seq(Chunk) /\ corpus.score \in [Chunk -> 0 .. 1000]
           /\ corpus.exact \in Chunk \union {None}
           /\ corpus.links \in [Field -> [Chunk -> Seq(Chunk)]]
           /\ corpus.span \in [Chunk -> Nat \X Nat]
           /\ corpus.size \in [Chunk -> Nat] /\ corpus.cutSize \in [Chunk -> Nat]
           /\ \A k \in Chunk : corpus.cutSize[k] =< MaxChars
           /\ \A k, l, m \in Chunk :
                 Covers(corpus.span[k], corpus.span[m]) /\ Covers(corpus.span[l], corpus.span[m])
                     => Covers(corpus.span[k], corpus.span[l]) \/ Covers(corpus.span[l], corpus.span[k])
<1>1. corpus \in CorpusType
  BY RetrievalAssumption
<1>2. /\ \A k \in Chunk : corpus.cutSize[k] =< MaxChars
      /\ \A k, l, m \in Chunk :
            Covers(corpus.span[k], corpus.span[m]) /\ Covers(corpus.span[l], corpus.span[m])
                => Covers(corpus.span[k], corpus.span[l]) \/ Covers(corpus.span[l], corpus.span[k])
  BY RetrievalAssumption
<1> QED BY <1>1, <1>2 DEF CorpusType

LEMMA FirstOf ==
    ASSUME NEW S, NEW s \in Seq(S), NEW k \in Nat
    PROVE  /\ First(s, k) \in Seq(S)
           /\ Len(First(s, k)) = IF Len(s) < k THEN Len(s) ELSE k
           /\ \A i \in 1 .. Len(First(s, k)) : First(s, k)[i] = s[i]
<1> DEFINE n == IF Len(s) < k THEN Len(s) ELSE k
<1>1. n \in Nat /\ n =< Len(s)
  OBVIOUS
<1> HIDE DEF n
<1>2. SubSeq(s, 1, n) \in Seq(S) /\ Len(SubSeq(s, 1, n)) = n /\ \A i \in 1 .. n : SubSeq(s, 1, n)[i] = s[i]
  BY <1>1
<1> QED BY <1>2 DEF First, n

\* The stable sort is a permutation of the positions, by decreasing score.
LEMMA ByScoreSorts ==
    ASSUME NEW S, NEW s \in Seq(S), NEW sc \in [S -> Nat]
    PROVE  /\ ByScore(s, sc) \in Seq(S) /\ Len(ByScore(s, sc)) = Len(s)
           /\ \E o \in [1 .. Len(s) -> 1 .. Len(s)] :
                 /\ \A i \in 1 .. Len(s) : ByScore(s, sc)[i] = s[o[i]]
                 /\ \A p \in 1 .. Len(s) : \E k \in 1 .. Len(s) : o[k] = p
                 /\ \A a, b \in 1 .. Len(s) : a < b =>
                       \/ sc[s[o[a]]] > sc[s[o[b]]]
                       \/ sc[s[o[a]]] = sc[s[o[b]]] /\ o[a] < o[b]
<1> DEFINE n == Len(s)
           at == 1 .. n
           before == {e \in at \X at : \/ sc[s[e[1]]] > sc[s[e[2]]]
                                       \/ sc[s[e[1]]] = sc[s[e[2]]] /\ e[1] < e[2]}
           o == InOrder(at, before)
<1>1. n \in Nat /\ DOMAIN s = at /\ \A i \in at : s[i] \in S /\ sc[s[i]] \in Nat
  OBVIOUS
<1>2. IsFiniteSet(at) /\ Cardinality(at) = n
  <2>1. 1 \in Int /\ n \in Int
    BY <1>1
  <2>2. IsFiniteSet(1 .. n) /\ Cardinality(1 .. n) = IF 1 > n THEN 0 ELSE n - 1 + 1
    BY <2>1, FS_Interval
  <2> HIDE DEF n
  <2>3. (1 > n => n = 0) /\ n - 1 + 1 = n
    BY <1>1
  <2> QED BY <2>2, <2>3
<1>3. \A x, y \in at : <<x, y>> \in before <=> \/ sc[s[x]] > sc[s[y]]
                                               \/ sc[s[x]] = sc[s[y]] /\ x < y
  OBVIOUS
<1>4. ByScore(s, sc) = [i \in at |-> s[o[i]]]
  <2>1. ByScore(s, sc) = [i \in DOMAIN s |-> s[InOrder(DOMAIN s,
                {e \in (DOMAIN s) \X (DOMAIN s) : \/ sc[s[e[1]]] > sc[s[e[2]]]
                                                  \/ sc[s[e[1]]] = sc[s[e[2]]] /\ e[1] < e[2]})[i]]]
    BY DEF ByScore
  <2> QED BY <1>1, <2>1
<1> HIDE DEF before, n
<1>5. StrictOrder(at, before)
  <2> DEFINE v(x) == sc[s[x]]
  <2>0. /\ \A x, y \in at : <<x, y>> \in before <=> v(x) > v(y) \/ (v(x) = v(y) /\ x < y)
        /\ \A x \in at : v(x) \in Nat /\ x \in Nat
    BY <1>1, <1>3
  <2> HIDE DEF v, at
  <2>1. \A x \in at : <<x, x>> \notin before
    BY <2>0
  <2>2. ASSUME NEW x \in at, NEW y \in at PROVE x = y \/ <<x, y>> \in before \/ <<y, x>> \in before
    <3>1. v(x) \in Nat /\ v(y) \in Nat /\ x \in Nat /\ y \in Nat
      BY <2>0
    <3>2. \/ x = y \/ v(x) > v(y) \/ v(y) > v(x)
          \/ (v(x) = v(y) /\ x < y) \/ (v(y) = v(x) /\ y < x)
      BY <3>1
    <3> QED BY <2>0, <3>2
  <2>3. ASSUME NEW x \in at, NEW y \in at, NEW z \in at, <<x, y>> \in before, <<y, z>> \in before
        PROVE  <<x, z>> \in before
    <3>1. v(x) \in Nat /\ v(y) \in Nat /\ v(z) \in Nat /\ x \in Nat /\ y \in Nat /\ z \in Nat
      BY <2>0
    <3>2. v(x) > v(y) \/ (v(x) = v(y) /\ x < y)
      BY <2>0, <2>3
    <3>3. v(y) > v(z) \/ (v(y) = v(z) /\ y < z)
      BY <2>0, <2>3
    <3>4. v(x) > v(z) \/ (v(x) = v(z) /\ x < z)
      BY <3>1, <3>2, <3>3
    <3> QED BY <2>0, <3>4
  <2> QED BY <2>1, <2>2, <2>3 DEF StrictOrder
<1> HIDE DEF o, at
<1>6. /\ o \in [1 .. n -> at]
      /\ \A x \in at : \E k \in 1 .. n : o[k] = x
      /\ \A a, b \in 1 .. n : a < b => <<o[a], o[b]>> \in before
  BY <1>2, <1>5, InOrderSorts DEF o
<1> USE DEF at
<1>7. \A i \in at : ByScore(s, sc)[i] = s[o[i]] /\ s[o[i]] \in S
  BY <1>1, <1>4, <1>6
<1>8. ByScore(s, sc) \in Seq(S) /\ Len(ByScore(s, sc)) = n
  BY <1>1, <1>4, <1>7
<1>9. \A a, b \in at : a < b => \/ sc[s[o[a]]] > sc[s[o[b]]]
                                \/ sc[s[o[a]]] = sc[s[o[b]]] /\ o[a] < o[b]
  BY <1>3, <1>6
<1> QED BY <1>6, <1>7, <1>8, <1>9 DEF n

LEMMA DemotedType ==
    ASSUME NEW c, NEW x \in Nat
    PROVE  Demoted(c, x) \in Nat /\ Demoted(c, x) =< x
BY DEF Demoted, Penalty

LEMMA SearchType ==
    ASSUME corpus \in Corpora, NEW k \in Nat
    PROVE  Search(k) \in Seq(Chunk) /\ DemotedScore \in [Chunk -> Nat]
<1> DEFINE sc == corpus.score
<1>1. corpus.hits \in Seq(Chunk) /\ sc \in [Chunk -> 0 .. 1000] /\ 3 * k \in Nat
  <2>1. corpus.hits \in Seq(Chunk) /\ sc \in [Chunk -> 0 .. 1000]
    BY CorpusFacts
  <2>2. 3 * k \in Nat
    OBVIOUS
  <2> QED BY <2>1, <2>2
<1>2. DemotedScore \in [Chunk -> Nat]
  <2> HIDE DEF sc
  <2>1. \A c \in Chunk : sc[c] \in Nat
    <3>1. \A c \in Chunk : sc[c] \in 0 .. 1000
      BY <1>1
    <3>2. \A x \in 0 .. 1000 : x \in Nat
      OBVIOUS
    <3> QED BY <3>1, <3>2
  <2>2. \A c \in Chunk : Demoted(c, sc[c]) \in Nat
    BY <2>1, DemotedType
  <2> QED BY <2>2 DEF DemotedScore, sc
<1>3. First(corpus.hits, 3 * k) \in Seq(Chunk)
  BY <1>1, FirstOf
<1>4. ByScore(First(corpus.hits, 3 * k), DemotedScore) \in Seq(Chunk)
  BY <1>2, <1>3, ByScoreSorts
<1>5. First(ByScore(First(corpus.hits, 3 * k), DemotedScore), k) \in Seq(Chunk)
  BY <1>4, FirstOf
<1> QED BY <1>2, <1>5 DEF Search

LEMMA SeedsType ==
    ASSUME corpus \in Corpora
    PROVE  Seeds \in Seq(Chunk) /\ \A c \in Range(Seeds) : SeedScore(c) \in Nat
<1> DEFINE hits == KeywordHits
           at == {i \in DOMAIN hits : hits[i] \in corpus.definitions \ {corpus.exact}}
           order == InOrder(at, {e \in at \X at : e[1] < e[2]})
           n == Cardinality(at)
<1>1. hits \in Seq(Chunk) /\ DemotedScore \in [Chunk -> Nat] /\ TopSeeds \in Nat
  <2>1. 3 * TopSeeds \in Nat
    BY LimitTypes
  <2> QED BY <2>1, SearchType, LimitTypes DEF KeywordHits
<1> HIDE DEF hits
<1>2. at \subseteq 1 .. Len(hits) /\ Len(hits) \in Nat
  BY <1>1
<1>3. IsFiniteSet(at)
  BY <1>2, FS_Interval, FS_Subset
<1>4. StrictOrder(at, {e \in at \X at : e[1] < e[2]})
  <2>1. \A x, y \in at : <<x, y>> \in {e \in at \X at : e[1] < e[2]} <=> x < y
    OBVIOUS
  <2>2. \A x \in at : x \in Nat
    BY <1>2
  <2> HIDE DEF at
  <2> QED BY <2>1, <2>2 DEF StrictOrder
<1>5. n \in Nat /\ order \in [1 .. n -> at]
  <2> HIDE DEF at
  <2> QED BY <1>3, <1>4, InOrderSorts
<1>6. Definitions = [k \in 1 .. n |-> hits[order[k]]]
  <2>1. Definitions = [k \in DOMAIN order |-> hits[order[k]]]
    BY DEF Definitions, hits
  <2> QED BY <1>5, <2>1
<1>7. Definitions \in Seq(Chunk) /\ \A c \in Range(Definitions) : hits # <<>>
  <2>0. \A i \in 1 .. Len(hits) : hits[i] \in Chunk
    BY <1>1
  <2> HIDE DEF order, n, at
  <2>1. ASSUME NEW k \in 1 .. n PROVE order[k] \in 1 .. Len(hits) /\ hits[order[k]] \in Chunk
    <3>1. order[k] \in at
      BY <1>5
    <3> QED BY <1>2, <2>0, <3>1
  <2>2. Definitions \in Seq(Chunk) /\ DOMAIN Definitions = 1 .. n
    BY <1>5, <1>6, <2>1
  <2>3. ASSUME NEW c \in Range(Definitions) PROVE hits # <<>>
    <3>1. PICK k \in 1 .. n : c = Definitions[k]
      BY <2>2 DEF Range
    <3>2. 1 .. Len(hits) # {}
      BY <2>1
    <3>3. CASE hits = <<>>
      <4>1. Len(hits) = 0
        BY <3>3
      <4> QED BY <3>2, <4>1
    <3> QED BY <3>3
  <2> QED BY <2>2, <2>3
<1> DEFINE lead == IF corpus.exact # None THEN <<corpus.exact>> ELSE <<>>
<1>8. lead \in Seq(Chunk) /\ \A c \in Range(lead) : c = corpus.exact
  <2>1. corpus.exact \in Chunk \union {None}
    BY CorpusFacts
  <2>2. CASE corpus.exact = None
    BY <2>2 DEF Range
  <2>3. CASE corpus.exact # None
    BY <2>1, <2>3 DEF Range
  <2> QED BY <2>2, <2>3
<1> HIDE DEF lead
<1> DEFINE all == lead \o Definitions
<1>9. all \in Seq(Chunk) /\ \A c \in Range(all) : c = corpus.exact \/ hits # <<>>
  <2>1. all \in Seq(Chunk)
    BY <1>7, <1>8
  <2>2. ASSUME NEW i \in DOMAIN all PROVE all[i] = corpus.exact \/ hits # <<>>
    <3>1. CASE i \in 1 .. Len(lead)
      <4>1. all[i] = lead[i] /\ lead[i] \in Range(lead)
        BY <1>7, <1>8, <3>1 DEF Range
      <4> QED BY <1>8, <4>1
    <3>2. CASE i \notin 1 .. Len(lead)
      <4>1. i - Len(lead) \in DOMAIN Definitions
        BY <1>7, <1>8, <2>2, <3>2
      <4>2. Definitions[i - Len(lead)] \in Range(Definitions)
        BY <4>1 DEF Range
      <4> QED BY <1>7, <4>2
    <3> QED BY <3>1, <3>2
  <2> QED BY <2>1, <2>2 DEF Range
<1>10. IdentifierSeeds = First(all, TopSeeds)
  BY DEF IdentifierSeeds, lead
<1> HIDE DEF all
<1>11. /\ IdentifierSeeds \in Seq(Chunk)
       /\ \A c \in Range(IdentifierSeeds) : c = corpus.exact \/ hits # <<>>
  <2>1. /\ IdentifierSeeds \in Seq(Chunk)
        /\ \A i \in 1 .. Len(IdentifierSeeds) : IdentifierSeeds[i] = all[i]
        /\ Len(IdentifierSeeds) =< Len(all)
    BY <1>1, <1>9, <1>10, FirstOf
  <2>2. \A i \in DOMAIN IdentifierSeeds : IdentifierSeeds[i] \in Range(all)
    BY <1>9, <2>1 DEF Range
  <2> QED BY <1>9, <2>1, <2>2 DEF Range
<1>12. Seeds \in Seq(Chunk)
  BY <1>1, <1>11, SearchType DEF Seeds
<1>13. ASSUME NEW c \in Range(Seeds) PROVE SeedScore(c) \in Nat
  <2>1. c \in Chunk
    BY <1>12 DEF Range
  <2>2. CASE IdentifierSeeds = <<>> \/ c = corpus.exact
    BY <1>1, <2>1, <2>2 DEF SeedScore
  <2>3. CASE IdentifierSeeds # <<>> /\ c # corpus.exact
    <3>1. hits # <<>>
      BY <1>11, <2>3 DEF Seeds
    <3>2. hits[1] \in Chunk
      BY <1>1, <3>1
    <3>3. DemotedScore[hits[1]] \in Nat /\ DemotedScore[c] \in Nat
      BY <1>1, <2>1, <3>2
    <3>4. Scaled(c) \in Nat
      BY <3>3 DEF Scaled, hits
    <3> QED BY <2>3, <3>4 DEF SeedScore
  <2> QED BY <2>2, <2>3
<1> QED BY <1>12, <1>13
LEMMA DecayType ==
    \A k \in 0 .. MaxHops : Decay[k] \in Nat \ {0}
<1> DEFINE S == Nat \ {0}
           f == [e \in (1 .. MaxHops) \X S |-> 2 * e[2]]
           Is(V) == V = [k \in 0 .. MaxHops |-> IF k = 0 THEN 1 ELSE 2 * V[k - 1]]
<1>1. MaxHops \in Nat /\ f \in [(1 .. MaxHops) \X S -> S] /\ 1 \in S
  BY LimitTypes
<1>2. \A k \in 1 .. MaxHops, x \in S : f[<<k, x>>] = 2 * x
  OBVIOUS
<1> HIDE DEF f, S
<1>3. PICK W : Iterates(W, S, 1, f, MaxHops)
  BY <1>1, Iteration
<1>4. /\ W \in [0 .. MaxHops -> S] /\ W[0] = 1
      /\ \A k \in 1 .. MaxHops : W[k] = f[<<k, W[k - 1]>>]
  BY <1>3 DEF Iterates
<1>5. ASSUME NEW k \in 1 .. MaxHops PROVE W[k] = 2 * W[k - 1]
  <2>1. k - 1 \in 0 .. MaxHops
    BY <1>1
  <2> QED BY <1>2, <1>4, <2>1
<1>6. Is(W)
  <2>1. \A k \in 0 .. MaxHops : W[k] = IF k = 0 THEN 1 ELSE 2 * W[k - 1]
    <3>1. \A k \in 0 .. MaxHops : k = 0 \/ k \in 1 .. MaxHops
      BY <1>1
    <3> QED BY <1>4, <1>5, <3>1
  <2> QED BY <1>4, <2>1
<1>7. Decay = CHOOSE V : Is(V)
  BY DEF Decay
<1> HIDE DEF Is
<1>8. Is(Decay)
  BY <1>6, <1>7
<1>9. \A k \in 0 .. MaxHops : Decay[k] = IF k = 0 THEN 1 ELSE 2 * Decay[k - 1]
  <2> DEFINE D == Decay
  <2>1. D = [k \in 0 .. MaxHops |-> IF k = 0 THEN 1 ELSE 2 * D[k - 1]]
    BY <1>8 DEF Is
  <2> HIDE DEF D
  <2>2. \A k \in 0 .. MaxHops : D[k] = IF k = 0 THEN 1 ELSE 2 * D[k - 1]
    BY <2>1
  <2> QED BY <2>2 DEF D
<1> DEFINE T == {k \in Nat : k =< MaxHops => Decay[k] \in Nat \ {0}}
<1>10. 0 \in T
  BY <1>1, <1>9
<1>11. ASSUME NEW k \in Nat, k \in T PROVE k + 1 \in T
  <2> SUFFICES ASSUME k + 1 =< MaxHops PROVE Decay[k + 1] \in Nat \ {0}
    OBVIOUS
  <2>1. Decay[k] \in Nat \ {0} /\ Decay[k + 1] = 2 * Decay[k]
    BY <1>1, <1>9, <1>11
  <2> QED BY <2>1
<1> HIDE DEF T
<1>12. Nat \subseteq T
  BY <1>10, <1>11, Induction
<1> QED BY <1>1, <1>12 DEF T

\* A weight and a decay only lower a score.
LEMMA Lowered ==
    ASSUME NEW x \in Nat, NEW f \in Field, NEW d \in Nat \ {0}
    PROVE  /\ ((x * Weight(f)) \div 100) \div d \in Nat
           /\ ((x * Weight(f)) \div 100) \div d =< x
<1> DEFINE y == (x * Weight(f)) \div 100
<1>1. y \in Nat /\ y =< x
  <2>1. CASE f = "calls"
    BY <2>1 DEF Weight
  <2>2. CASE f = "inherits"
    BY <2>2 DEF Weight
  <2>3. CASE f = "called_by"
    BY <2>3 DEF Weight
  <2> QED BY <2>1, <2>2, <2>3 DEF Field
<1> HIDE DEF y
<1>2. y \div d \in Nat /\ y \div d =< y
  BY <1>1
<1> QED BY <1>1, <1>2 DEF y

LEMMA OffersLowerTheScore ==
    ASSUME RetrievalTypeOK, pc = "expand", NEW q, NEW o \in Offers(q)
    PROVE  o.from \in frontier /\ o.score \in Nat /\ o.score =< score[o.from]
<1>1. PICK e \in frontier \X Followed :
         o = [from |-> e[1], score |-> ((score[e[1]] * Weight(e[2])) \div 100) \div Decay[hop - 1]]
  BY DEF Offers
<1> DEFINE c == e[1]
           f == e[2]
           d == Decay[hop - 1]
<1>2. c \in frontier /\ score[c] \in Nat
  <2>1. c \in frontier
    BY <1>1
  <2>2. frontier \subseteq Chunk
    BY DEF RetrievalTypeOK, Range
  <2> QED BY <2>1, <2>2 DEF RetrievalTypeOK
<1>3. f \in Field
  BY <1>1 DEF Followed, Field
<1>4. d \in Nat \ {0}
  <2>1. hop - 1 \in 0 .. MaxHops
    BY LimitTypes DEF RetrievalTypeOK
  <2> QED BY <2>1, DecayType
<1>5. o.from = c /\ o.score = ((score[c] * Weight(f)) \div 100) \div d
  BY <1>1
<1> HIDE DEF c, f, d
<1> QED BY <1>2, <1>3, <1>4, <1>5, Lowered

LEMMA WantedIsNew ==
    ASSUME RetrievalTypeOK
    PROVE  Wanted \subseteq Chunk \ Range(selected)
<1>1. frontier \subseteq Chunk
  BY DEF RetrievalTypeOK, Range
<1>2. ASSUME NEW c \in frontier, NEW f \in Followed PROVE Neighbors(c, f) \subseteq Chunk
  <2> DEFINE all == corpus.links[f][c]
  <2>1. f \in Field
    BY DEF Followed, Field
  <2>2. all \in Seq(Chunk)
    BY <1>1, <2>1, CorpusFacts DEF RetrievalTypeOK
  <2> HIDE DEF all
  <2>3. First(all, MaxFanout) \in Seq(Chunk)
    BY <2>2, FirstOf, LimitTypes
  <2>4. Range(First(all, MaxFanout)) \subseteq Chunk
    BY <2>3 DEF Range
  <2> QED BY <2>4 DEF Neighbors, all
<1>3. ASSUME NEW q \in Wanted PROVE q \in Chunk /\ q \notin Range(selected)
  <2>1. PICK S \in {Neighbors(c, f) : c \in frontier, f \in Followed} : q \in S
    BY DEF Wanted
  <2>2. PICK c \in frontier, f \in Followed : S = Neighbors(c, f)
    BY <2>1
  <2>3. Neighbors(c, f) \subseteq Chunk
    BY <1>2
  <2>4. q \in Chunk
    BY <2>1, <2>2, <2>3
  <2>5. q \notin Range(selected)
    BY DEF Wanted
  <2> QED BY <2>4, <2>5
<1> QED BY <1>3

\* A set of chunks in any order.
LEMMA OrdersOfASet ==
    ASSUME NEW S \in SUBSET Chunk, NEW added \in SetToSeqs(S)
    PROVE  added \in Seq(S) /\ Range(added) = S
<1> DEFINE n == Cardinality(S)
           D == 1 .. n
<1>1. IsFiniteSet(S) /\ n \in Nat
  BY LimitTypes, FS_Subset, FS_CardinalityType
<1>2. added \in [D -> S] /\ \A i, j \in D : i # j => added[i] # added[j]
  BY DEF SetToSeqs
<1> HIDE DEF n
<1>3. IsFiniteSet(D) /\ Cardinality(D) = n
  <2>1. 1 \in Int /\ n \in Int
    BY <1>1
  <2>2. IsFiniteSet(1 .. n) /\ Cardinality(1 .. n) = IF 1 > n THEN 0 ELSE n - 1 + 1
    BY <2>1, FS_Interval
  <2>3. (1 > n => n = 0) /\ n - 1 + 1 = n
    BY <1>1
  <2> QED BY <2>2, <2>3
<1>4. added \in Injection(D, S)
  BY <1>2 DEF Injection, IsInjective
<1>5. added \in Surjection(D, S)
  <2> HIDE DEF D
  <2> QED BY <1>1, <1>3, <1>4, FS_Injection DEF n
<1>6. added \in Seq(S)
  BY <1>1, <1>2
<1>7. Range(added) = S
  BY <1>2, <1>5 DEF Range, Surjection
<1> QED BY <1>6, <1>7
-----------------------------------------------------------------------------
(* The length of the context.                                              *)

LEMMA LengthOfSections ==
    RetrievalTypeOK =>
        /\ Length \in [0 .. Len(packed) -> Nat] /\ Length[0] = 0
        /\ packed # <<>> => Length[1] = FirstSize(packed[1])
        /\ \A n \in 2 .. Len(packed) : Length[n] = Length[n - 1] + 2 + Size(packed[n])
        /\ \A i \in 1 .. Len(ranked) : Size(i) \in Nat /\ FirstSize(i) \in Nat /\ FirstSize(i) =< MaxChars
<1> SUFFICES ASSUME RetrievalTypeOK
             PROVE  /\ Length \in [0 .. Len(packed) -> Nat] /\ Length[0] = 0
                    /\ packed # <<>> => Length[1] = FirstSize(packed[1])
                    /\ \A n \in 2 .. Len(packed) : Length[n] = Length[n - 1] + 2 + Size(packed[n])
                    /\ \A i \in 1 .. Len(ranked) :
                          Size(i) \in Nat /\ FirstSize(i) \in Nat /\ FirstSize(i) =< MaxChars
  OBVIOUS
<1> DEFINE N == Len(packed)
           f == [e \in (1 .. N) \X Nat |-> IF e[1] = 1 THEN FirstSize(packed[1])
                                           ELSE e[2] + 2 + Size(packed[e[1]])]
           Is(V) == V = [n \in 0 .. N |-> IF n = 0 THEN 0
                                          ELSE IF n = 1 THEN FirstSize(packed[1])
                                          ELSE V[n - 1] + 2 + Size(packed[n])]
<1>1. N \in Nat /\ \A n \in 1 .. N : packed[n] \in 1 .. Len(ranked)
  BY DEF RetrievalTypeOK
<1>2. ASSUME NEW i \in 1 .. Len(ranked)
      PROVE  Size(i) \in Nat /\ FirstSize(i) \in Nat /\ FirstSize(i) =< MaxChars
  <2>1. ranked[i] \in Chunk
    BY DEF RetrievalTypeOK
  <2>2. /\ corpus.size[ranked[i]] \in Nat /\ corpus.cutSize[ranked[i]] \in Nat
        /\ corpus.cutSize[ranked[i]] =< MaxChars
    BY <2>1, CorpusFacts DEF RetrievalTypeOK
  <2>3. MaxChars \in Nat
    BY LimitTypes
  <2> QED BY <2>2, <2>3 DEF Size, FirstSize
<1>3. \A k \in 1 .. N, x \in Nat :
         f[<<k, x>>] = IF k = 1 THEN FirstSize(packed[1]) ELSE x + 2 + Size(packed[k])
  OBVIOUS
<1>4. f \in [(1 .. N) \X Nat -> Nat]
  <2> HIDE DEF N
  <2>1. ASSUME NEW e \in (1 .. N) \X Nat
        PROVE  (IF e[1] = 1 THEN FirstSize(packed[1]) ELSE e[2] + 2 + Size(packed[e[1]])) \in Nat
    <3>1. FirstSize(packed[e[1]]) \in Nat /\ Size(packed[e[1]]) \in Nat /\ e[2] \in Nat
      BY <1>1, <1>2
    <3>2. e[2] + 2 + Size(packed[e[1]]) \in Nat
      BY <3>1
    <3> QED BY <3>1, <3>2
  <2> QED BY <2>1
<1> HIDE DEF f, N
<1>5. PICK W : Iterates(W, Nat, 0, f, N)
  BY <1>1, <1>4, Iteration
<1>6. W \in [0 .. N -> Nat] /\ W[0] = 0 /\ \A k \in 1 .. N : W[k] = f[<<k, W[k - 1]>>]
  BY <1>5 DEF Iterates
<1>7. ASSUME NEW k \in 0 .. N
      PROVE  W[k] = IF k = 0 THEN 0 ELSE IF k = 1 THEN FirstSize(packed[1])
                    ELSE W[k - 1] + 2 + Size(packed[k])
  <2>1. CASE k = 0
    BY <1>6, <2>1
  <2>2. CASE k \in 1 .. N
    <3>1. W[k - 1] \in Nat /\ W[k] = f[<<k, W[k - 1]>>] /\ k # 0
      BY <1>1, <1>6, <2>2
    <3> QED BY <1>3, <2>2, <3>1
  <2> QED BY <1>1, <2>1, <2>2
<1>8. Is(W)
  BY <1>6, <1>7
<1>9. Length = CHOOSE V : Is(V)
  BY DEF Length, N
<1> HIDE DEF Is
<1>10. Is(Length)
  BY <1>8, <1>9
<1> DEFINE L == Length
<1>11. /\ DOMAIN L = 0 .. N
       /\ \A n \in 0 .. N : L[n] = IF n = 0 THEN 0 ELSE IF n = 1 THEN FirstSize(packed[1])
                                   ELSE L[n - 1] + 2 + Size(packed[n])
  <2>1. L = [n \in 0 .. N |-> IF n = 0 THEN 0 ELSE IF n = 1 THEN FirstSize(packed[1])
                              ELSE L[n - 1] + 2 + Size(packed[n])]
    BY <1>10 DEF Is
  <2> HIDE DEF L
  <2> QED BY <2>1
<1>12. L = [n \in 0 .. N |-> L[n]]
  <2>1. L = [n \in 0 .. N |-> IF n = 0 THEN 0 ELSE IF n = 1 THEN FirstSize(packed[1])
                              ELSE L[n - 1] + 2 + Size(packed[n])]
    BY <1>10 DEF Is
  <2> HIDE DEF L
  <2> QED BY <1>11, <2>1
<1> HIDE DEF L
<1> DEFINE T == {n \in Nat : n =< N => L[n] \in Nat}
<1>13. 0 \in T
  BY <1>1, <1>11
<1>14. ASSUME NEW n \in Nat, n \in T PROVE n + 1 \in T
  <2> SUFFICES ASSUME n + 1 =< N PROVE L[n + 1] \in Nat
    OBVIOUS
  <2>1. n + 1 \in 1 .. N /\ L[n] \in Nat /\ n + 1 - 1 = n /\ n + 1 # 0
    BY <1>1, <1>14
  <2>2. FirstSize(packed[n + 1]) \in Nat /\ Size(packed[n + 1]) \in Nat
    BY <1>1, <1>2, <2>1
  <2>3. CASE n + 1 = 1
    BY <1>1, <1>11, <2>2, <2>3
  <2>4. CASE n + 1 # 1
    <3>1. L[n + 1] = L[n] + 2 + Size(packed[n + 1])
      BY <1>11, <2>1, <2>4
    <3> QED BY <2>1, <2>2, <3>1
  <2> QED BY <2>3, <2>4
<1> HIDE DEF T
<1>15. Nat \subseteq T
  BY <1>13, <1>14, Induction
<1>16. \A n \in 0 .. N : L[n] \in Nat
  BY <1>1, <1>15 DEF T
<1>17. L \in [0 .. N -> Nat]
  BY <1>12, <1>16
<1>18. L[0] = 0
  BY <1>1, <1>11
<1>19. ASSUME packed # <<>> PROVE L[1] = FirstSize(packed[1])
  <2>1. N # 0
    BY <1>19 DEF N, RetrievalTypeOK
  <2> QED BY <1>1, <1>11, <2>1
<1>20. \A n \in 2 .. N : L[n] = L[n - 1] + 2 + Size(packed[n])
  BY <1>1, <1>11
<1> QED BY <1>2, <1>17, <1>18, <1>19, <1>20 DEF L, N

LEMMA LengthOfSectionsNext ==
    RetrievalTypeOK' =>
        (/\ Length \in [0 .. Len(packed) -> Nat] /\ Length[0] = 0
         /\ packed # <<>> => Length[1] = FirstSize(packed[1])
         /\ \A n \in 2 .. Len(packed) : Length[n] = Length[n - 1] + 2 + Size(packed[n])
         /\ \A i \in 1 .. Len(ranked) :
               Size(i) \in Nat /\ FirstSize(i) \in Nat /\ FirstSize(i) =< MaxChars)'
BY LengthOfSections, PTL

-----------------------------------------------------------------------------
(* The steps of the search.                                                *)

\* Nothing is returned, dropped or packed while chunks are collected.
LEMMA BeforeRanking ==
    RetrievalTypeOK /\ pc \in {"seed", "expand", "rank"} => Ranking /\ Paid /\ Packing
<1> SUFFICES ASSUME RetrievalTypeOK, pc \in {"seed", "expand", "rank"}
             PROVE  Ranking /\ Paid /\ Packing
  OBVIOUS
<1>1. ranked = <<>> /\ dropped = {} /\ packed = <<>> /\ total = 0 /\ Len(ranked) = 0 /\ Len(packed) = 0
  BY DEF RetrievalTypeOK
<1>2. Ranking
  BY <1>1 DEF Ranking, ParentsAreReturned
<1>3. Paid
  BY <1>1 DEF Paid
<1>4. Kept = {}
  BY <1>1 DEF Kept
<1>5. Length[0] = 0 /\ MaxChars \in Nat
  BY LengthOfSections, LimitTypes
<1>6. Packing
  BY <1>1, <1>4, <1>5 DEF Packing
<1> QED BY <1>2, <1>3, <1>6

LEMMA BeforeRankingNext ==
    RetrievalTypeOK' /\ pc' \in {"seed", "expand", "rank"} => Ranking' /\ Paid' /\ Packing'
<1>1. (pc \in {"seed", "expand", "rank"})' <=> pc' \in {"seed", "expand", "rank"}
  OBVIOUS
<1> QED BY <1>1, BeforeRanking, PTL

LEMMA InitRInv == Init => RInv
<1> SUFFICES ASSUME Init PROVE RInv
  OBVIOUS
<1>1. RetrievalTypeOK
  <2>1. Range(selected) = {} /\ Len(ranked) = 0
    BY DEF Init, Range
  <2> QED BY <2>1 DEF Init, RetrievalTypeOK
<1>2. Explained
  BY DEF Init, Explained
<1>3. pc = "seed"
  BY DEF Init
<1> QED BY <1>1, <1>2, <1>3, BeforeRanking DEF RInv

LEMMA SeedStep == RInv /\ SearchSeeds => RInv'
<1> SUFFICES ASSUME RInv, SearchSeeds PROVE RInv'
  OBVIOUS
<1>1. /\ Seeds \in Seq(Chunk) /\ \A c \in Range(Seeds) : SeedScore(c) \in Nat
      /\ \A c \in Chunk : via[c] = None
  BY SeedsType DEF RInv, RetrievalTypeOK, Explained, SearchSeeds
<1>2. score' \in [Chunk -> Nat]
  <2> DEFINE S(c) == SeedScore(c)
             R == Range(Seeds)
  <2>1. score' = [c \in Chunk |-> IF c \in R THEN S(c) ELSE 0]
    BY DEF SearchSeeds
  <2>2. \A c \in R : S(c) \in Nat
    BY <1>1
  <2> HIDE DEF S, R
  <2> QED BY <2>1, <2>2
<1>3. RetrievalTypeOK'
  <2>1. hop' = 1 /\ 1 \in 1 .. MaxHops
    BY LimitTypes DEF SearchSeeds
  <2>2. selected' \in Seq(Chunk) /\ frontier' = Range(selected')
    BY <1>1 DEF SearchSeeds
  <2> QED BY <1>2, <2>1, <2>2 DEF RInv, RetrievalTypeOK, SearchSeeds
<1>4. Explained'
  BY <1>1 DEF SearchSeeds, Explained
<1> QED BY <1>3, <1>4, BeforeRankingNext DEF RInv, SearchSeeds
LEMMA ExpandStep == RInv /\ Expand => RInv'
<1> SUFFICES ASSUME RInv, Expand PROVE RInv'
  OBVIOUS
<1> DEFINE fetched == Wanted \ corpus.missing
<1>1. PICK best \in [fetched -> UNION {BestOffers(q) : q \in Wanted}] :
         /\ \A q \in fetched : best[q] \in BestOffers(q)
         /\ \E added \in SetToSeqs(fetched) :
               /\ selected' = selected \o added
               /\ score' = [c \in Chunk |-> IF c \in fetched THEN Demoted(c, best[c].score)
                                            ELSE score[c]]
               /\ via' = [c \in Chunk |-> IF c \in fetched THEN best[c].from ELSE via[c]]
               /\ frontier' = fetched
  BY DEF Expand
<1>2. PICK added \in SetToSeqs(fetched) :
         /\ selected' = selected \o added
         /\ score' = [c \in Chunk |-> IF c \in fetched THEN Demoted(c, best[c].score) ELSE score[c]]
         /\ via' = [c \in Chunk |-> IF c \in fetched THEN best[c].from ELSE via[c]]
         /\ frontier' = fetched
  BY <1>1
<1>3. RetrievalTypeOK /\ pc = "expand"
  BY DEF RInv, Expand
<1>4. fetched \in SUBSET Chunk /\ \A q \in fetched : q \notin Range(selected)
  BY <1>3, WantedIsNew
<1>5. \A q \in fetched : /\ best[q].from \in frontier /\ best[q].score \in Nat
                         /\ best[q].score =< score[best[q].from]
  BY <1>1, <1>3, OffersLowerTheScore DEF BestOffers
<1> HIDE DEF fetched
<1>6. added \in Seq(fetched) /\ Range(added) = fetched
  BY <1>4, OrdersOfASet
<1>7. /\ selected \in Seq(Chunk) /\ score \in [Chunk -> Nat] /\ via \in [Chunk -> Chunk \union {None}]
      /\ frontier \subseteq Chunk /\ frontier \subseteq Range(selected)
  BY <1>3 DEF RetrievalTypeOK, Range
<1>8. \A p \in 1 .. Len(selected) : selected[p] \in Chunk /\ selected[p] \in Range(selected)
  BY <1>7 DEF Range
<1>9. /\ added \in Seq(Chunk) /\ selected' \in Seq(Chunk)
      /\ Len(selected') = Len(selected) + Len(added)
      /\ \A p \in 1 .. Len(selected) : selected'[p] = selected[p]
      /\ \A p \in 1 .. Len(added) : selected'[Len(selected) + p] = added[p]
  <2>1. added \in Seq(Chunk)
    BY <1>4, <1>6
  <2> QED BY <1>2, <1>7, <2>1
<1>10. \A c \in Chunk \ fetched : score'[c] = score[c] /\ via'[c] = via[c]
  BY <1>2
<1>11. ASSUME NEW c \in fetched
       PROVE  /\ via'[c] = best[c].from /\ via'[c] \in Chunk /\ via'[c] \in Range(selected)
              /\ score'[c] \in Nat /\ score'[c] =< score[via'[c]]
  <2>1. via'[c] = best[c].from /\ score'[c] = Demoted(c, best[c].score)
    BY <1>2, <1>4
  <2>2. best[c].from \in Chunk /\ best[c].from \in Range(selected) /\ best[c].score \in Nat
    BY <1>5, <1>7
  <2>3. score[best[c].from] \in Nat /\ best[c].score =< score[best[c].from]
    BY <1>5, <1>7, <2>2
  <2>4. Demoted(c, best[c].score) \in Nat /\ Demoted(c, best[c].score) =< best[c].score
    BY <2>2, DemotedType
  <2> QED BY <2>1, <2>2, <2>3, <2>4
<1>12. \A p \in 1 .. Len(added) : added[p] \in fetched
  BY <1>6
<1>13. RetrievalTypeOK'
  <2>1. score' \in [Chunk -> Nat] /\ via' \in [Chunk -> Chunk \union {None}]
    <3>1. \A c \in Chunk : score'[c] \in Nat /\ via'[c] \in Chunk \union {None}
      BY <1>7, <1>10, <1>11
    <3>2. score' = [c \in Chunk |-> score'[c]] /\ via' = [c \in Chunk |-> via'[c]]
      BY <1>2
    <3> QED BY <3>1, <3>2
  <2>2. frontier' \subseteq Range(selected')
    <3> SUFFICES ASSUME NEW c \in fetched PROVE c \in Range(selected')
      BY <1>2
    <3>1. PICK p \in 1 .. Len(added) : added[p] = c
      BY <1>6 DEF Range
    <3>2. Len(selected) + p \in 1 .. Len(selected') /\ selected'[Len(selected) + p] = c
      BY <1>7, <1>9, <3>1
    <3> QED BY <1>9, <3>2 DEF Range
  <2>3. hop' \in Nat /\ (pc' = "expand" => hop' \in 1 .. MaxHops) /\ pc' \in {"expand", "rank"}
    BY <1>3, LimitTypes DEF RetrievalTypeOK, Expand
  <2>4. UNCHANGED <<corpus, direction, ranked, turn, dropped, packed, total>>
    BY DEF Expand
  <2> QED BY <1>3, <1>9, <2>1, <2>2, <2>3, <2>4 DEF RetrievalTypeOK
<1>14. Explained'
  <2>1. pc' # "seed"
    BY DEF Expand
  <2>2. ASSUME NEW p \in 1 .. Len(selected'), via'[selected'[p]] # None
        PROVE  \E q \in 1 .. p - 1 : /\ selected'[q] = via'[selected'[p]]
                                     /\ score'[selected'[p]] =< score'[selected'[q]]
    <3>1. CASE p \in 1 .. Len(selected)
      <4>1. via[selected[p]] # None
        BY <1>4, <1>8, <1>9, <1>10, <2>2, <3>1
      <4>2. PICK q \in 1 .. p - 1 : /\ selected[q] = via[selected[p]]
                                    /\ score[selected[p]] =< score[selected[q]]
        BY <3>1, <4>1 DEF RInv, Explained
      <4>3. q \in 1 .. Len(selected)
        BY <1>7, <3>1
      <4>4. selected[p] \in Chunk \ fetched /\ selected[q] \in Chunk \ fetched
        BY <1>4, <1>8, <3>1, <4>3
      <4> QED BY <1>9, <1>10, <3>1, <4>2, <4>3, <4>4
    <3>2. CASE p \notin 1 .. Len(selected)
      <4> DEFINE r == p - Len(selected)
      <4>1. r \in 1 .. Len(added) /\ p = Len(selected) + r
        BY <1>7, <1>9, <3>2
      <4> HIDE DEF r
      <4>2. selected'[p] = added[r] /\ added[r] \in fetched
        BY <1>9, <1>12, <4>1
      <4>3. /\ via'[added[r]] \in Range(selected)
            /\ score'[added[r]] =< score[via'[added[r]]]
        BY <1>11, <4>2
      <4>4. PICK q \in 1 .. Len(selected) : selected[q] = via'[added[r]]
        <5> DEFINE u == via'[added[r]]
        <5>1. u \in Range(selected) /\ DOMAIN selected = 1 .. Len(selected)
          BY <1>7, <4>3
        <5> HIDE DEF u
        <5>2. \E q \in 1 .. Len(selected) : selected[q] = u
          BY <5>1 DEF Range
        <5> QED BY <5>2 DEF u
      <4>5. selected[q] \in Chunk \ fetched
        BY <1>4, <1>8
      <4>6. selected'[q] = selected[q] /\ score'[selected[q]] = score[selected[q]]
        BY <1>9, <1>10, <4>5
      <4>7. q \in 1 .. p - 1
        BY <1>7, <1>9, <3>2
      <4> QED BY <4>2, <4>3, <4>4, <4>6, <4>7
    <3> QED BY <3>1, <3>2
  <2> QED BY <2>1, <2>2 DEF Explained
<1> QED BY <1>13, <1>14, BeforeRankingNext DEF RInv, Expand

LEMMA ExpandEndsStep == RInv /\ ExpandEnds => RInv'
<1> SUFFICES ASSUME RInv, ExpandEnds PROVE RInv'
  OBVIOUS
<1>1. RetrievalTypeOK'
  BY DEF RInv, RetrievalTypeOK, ExpandEnds
<1>2. Explained'
  BY DEF RInv, Explained, ExpandEnds
<1> QED BY <1>1, <1>2, BeforeRankingNext DEF RInv, ExpandEnds

\* The ranking sorts, and a parent, which was selected earlier with a score as
\* high, stays ahead of what it led to; the cut takes from the end.
LEMMA RankStep == RInv /\ Rank => RInv'
<1> SUFFICES ASSUME RInv, Rank PROVE RInv'
  OBVIOUS
<1>1. /\ RetrievalTypeOK /\ pc = "rank" /\ selected \in Seq(Chunk) /\ score \in [Chunk -> Nat]
      /\ dropped = {} /\ packed = <<>> /\ total = 0 /\ turn = 1
      /\ ranked' = First(ByScore(selected, score), MaxNodes)
      /\ pc' = IF selected = <<>> THEN "done" ELSE "drop"
      /\ UNCHANGED <<corpus, direction, selected, score, via, frontier, hop, turn, dropped, packed, total>>
  BY DEF RInv, Rank, RetrievalTypeOK
<1> DEFINE sorted == ByScore(selected, score)
           n == Len(selected)
<1>2. /\ sorted \in Seq(Chunk) /\ Len(sorted) = n
      /\ \E o \in [1 .. n -> 1 .. n] :
            /\ \A i \in 1 .. n : sorted[i] = selected[o[i]]
            /\ \A p \in 1 .. n : \E k \in 1 .. n : o[k] = p
            /\ \A a, b \in 1 .. n : a < b =>
                  \/ score[selected[o[a]]] > score[selected[o[b]]]
                  \/ score[selected[o[a]]] = score[selected[o[b]]] /\ o[a] < o[b]
  BY <1>1, ByScoreSorts
<1>3. PICK o \in [1 .. n -> 1 .. n] :
         /\ \A i \in 1 .. n : sorted[i] = selected[o[i]]
         /\ \A p \in 1 .. n : \E k \in 1 .. n : o[k] = p
         /\ \A a, b \in 1 .. n : a < b =>
               \/ score[selected[o[a]]] > score[selected[o[b]]]
               \/ score[selected[o[a]]] = score[selected[o[b]]] /\ o[a] < o[b]
  BY <1>2
<1>4. n \in Nat /\ MaxNodes \in Nat \ {0} /\ \A p \in 1 .. n : score[selected[p]] \in Nat
  <2>1. \A p \in 1 .. n : selected[p] \in Chunk
    BY <1>1
  <2>2. n \in Nat
    BY <1>1
  <2>3. \A c \in Chunk : score[c] \in Nat
    BY <1>1
  <2> HIDE DEF n
  <2> QED BY <2>1, <2>2, <2>3, LimitTypes
<1>5. ranked' = First(sorted, MaxNodes)
  BY <1>1
<1> HIDE DEF sorted
<1>6. /\ ranked' \in Seq(Chunk) /\ Len(ranked') = IF n < MaxNodes THEN n ELSE MaxNodes
      /\ \A i \in 1 .. Len(ranked') : ranked'[i] = sorted[i]
  BY <1>2, <1>4, <1>5, FirstOf
<1> DEFINE m == Len(ranked')
<1>7. m \in Nat /\ m =< n /\ (n # 0 => m # 0)
  BY <1>4, <1>6
<1>8. ASSUME NEW i \in 1 .. m PROVE i \in 1 .. n /\ o[i] \in 1 .. n /\ ranked'[i] = selected[o[i]]
  <2>1. ranked'[i] = sorted[i]
    BY <1>6
  <2> HIDE DEF n, m
  <2>2. i \in 1 .. n
    BY <1>4, <1>7
  <2> QED BY <1>3, <2>1, <2>2
<1>9. n = 0 <=> selected = <<>>
  BY <1>1
<1> HIDE DEF n, m
<1>10. RetrievalTypeOK'
  <2>1. pc' \in {"drop", "done"} /\ (pc' = "drop" => turn' \in 1 .. m)
    BY <1>1, <1>7, <1>9
  <2>2. dropped' \subseteq DOMAIN ranked' /\ packed' \in Seq(1 .. m)
    BY <1>1
  <2> QED BY <1>1, <1>6, <2>1, <2>2 DEF RetrievalTypeOK, m
<1>11. Explained'
  BY <1>1 DEF RInv, Explained
<1>12. Ranking'
  <2>1. ASSUME NEW i \in 1 .. m, NEW j \in 1 .. m, i < j
        PROVE  score'[ranked'[j]] =< score'[ranked'[i]]
    <3>1. i \in 1 .. n /\ j \in 1 .. n
      BY <1>4, <1>7
    <3> DEFINE u == score[selected[o[i]]]
               v == score[selected[o[j]]]
    <3>2. u \in Nat /\ v \in Nat /\ (u > v \/ u = v)
      BY <1>3, <1>4, <2>1, <3>1
    <3> HIDE DEF u, v
    <3>3. v =< u
      BY <3>2
    <3> USE DEF u, v
    <3> QED BY <1>1, <1>8, <3>3
  <2>2. ASSUME NEW i \in 1 .. m, via'[ranked'[i]] # None
        PROVE  \E k \in 1 .. i - 1 : ranked'[k] = via'[ranked'[i]]
    <3>1. i \in 1 .. n /\ o[i] \in 1 .. n /\ ranked'[i] = selected[o[i]]
      BY <1>4, <1>7, <1>8
    <3>2. PICK q \in 1 .. o[i] - 1 : /\ selected[q] = via[selected[o[i]]]
                                     /\ score[selected[o[i]]] =< score[selected[q]]
      BY <1>1, <2>2, <3>1 DEF RInv, Explained, n
    <3>3. q \in 1 .. n /\ q < o[i]
      BY <1>4, <3>1
    <3>4. PICK k \in 1 .. n : o[k] = q
      BY <1>3, <3>3
    <3>5. k < i
      <4>1. ~(i < k)
        <5> DEFINE u == score[selected[o[i]]]
                   v == score[selected[o[k]]]
        <5>1. i < k => u > v \/ (u = v /\ o[i] < o[k])
          BY <1>3, <3>1
        <5>2. u \in Nat /\ v \in Nat
          BY <1>4, <3>1, <3>3, <3>4
        <5>3. u =< v
          BY <3>2, <3>4
        <5>4. o[k] < o[i] /\ o[i] \in Nat /\ o[k] \in Nat
          BY <1>4, <3>1, <3>3, <3>4
        <5> HIDE DEF u, v
        <5> QED BY <5>1, <5>2, <5>3, <5>4
      <4>2. k # i
        BY <3>1, <3>3, <3>4
      <4> QED BY <1>4, <3>1, <4>1, <4>2
    <3>6. k \in 1 .. m /\ k \in 1 .. i - 1
      BY <1>4, <1>7, <3>5
    <3> QED BY <1>1, <1>8, <3>1, <3>2, <3>4, <3>6
  <2>3. DOMAIN ranked' = 1 .. m
    BY <1>6 DEF m
  <2> QED BY <2>1, <2>2, <2>3 DEF Ranking, ParentsAreReturned, m
<1>13. Paid'
  BY <1>1 DEF Paid
<1>14. Packing'
  <2>1. Len(packed') = 0
    BY <1>1
  <2>2. Length'[0] = 0 /\ MaxChars \in Nat
    BY <1>10, LengthOfSectionsNext, LimitTypes
  <2>3. ASSUME NEW i \in Kept', Passed(i)' PROVE FALSE
    <3>1. pc' = "done"
      BY <1>1, <2>3 DEF Passed
    <3>2. selected = <<>> /\ m = 0
      BY <1>1, <1>4, <1>7, <1>9, <3>1
    <3> QED BY <1>6, <3>2 DEF Kept, m
  <2>4. total' = Length'[0] /\ total' =< MaxChars
    BY <1>1, <2>2
  <2> QED BY <2>1, <2>3, <2>4 DEF Packing
<1> QED BY <1>10, <1>11, <1>12, <1>13, <1>14 DEF RInv
-----------------------------------------------------------------------------
(* The steps of build_graph_context.                                       *)

\* Holding lines is an order up to equal spans, a tree above any chunk.
LEMMA Covering ==
    ASSUME RetrievalTypeOK,
           NEW i \in 1 .. Len(ranked), NEW j \in 1 .. Len(ranked), NEW k \in 1 .. Len(ranked)
    PROVE  /\ Holds(i, j) /\ Holds(j, k) => Holds(i, k)
           /\ Holds(i, k) /\ Holds(j, k) => Holds(i, j) \/ Holds(j, i)
           /\ Holds(i, j) => Encloses(i, j) \/ Holds(j, i)
           /\ Encloses(i, j) => Holds(i, j) /\ ~Holds(j, i)
           /\ Encloses(i, j) /\ Encloses(j, k) => Encloses(i, k)
<1> DEFINE a == corpus.span[ranked[i]]
           b == corpus.span[ranked[j]]
           c == corpus.span[ranked[k]]
<1>1. ranked[i] \in Chunk /\ ranked[j] \in Chunk /\ ranked[k] \in Chunk
  BY DEF RetrievalTypeOK
<1>2. a \in Nat \X Nat /\ b \in Nat \X Nat /\ c \in Nat \X Nat
  BY <1>1, CorpusFacts DEF RetrievalTypeOK
<1>3. Covers(a, c) /\ Covers(b, c) => Covers(a, b) \/ Covers(b, a)
  BY <1>1, CorpusFacts DEF RetrievalTypeOK
<1>4. /\ Holds(i, j) <=> Covers(a, b)
      /\ Holds(j, k) <=> Covers(b, c)
      /\ Holds(i, k) <=> Covers(a, c)
      /\ Holds(j, i) <=> Covers(b, a)
      /\ Encloses(i, j) <=> Covers(a, b) /\ a # b
      /\ Encloses(j, k) <=> Covers(b, c) /\ b # c
      /\ Encloses(i, k) <=> Covers(a, c) /\ a # c
  BY DEF Holds, Encloses
<1> HIDE DEF a, b, c
<1>5. /\ a = <<a[1], a[2]>> /\ a[1] \in Nat /\ a[2] \in Nat
      /\ b = <<b[1], b[2]>> /\ b[1] \in Nat /\ b[2] \in Nat
      /\ c = <<c[1], c[2]>> /\ c[1] \in Nat /\ c[2] \in Nat
  BY <1>2
<1>6. Covers(a, b) /\ Covers(b, c) => Covers(a, c)
  BY <1>5 DEF Covers
<1>7. Covers(a, b) /\ Covers(b, a) => a = b
  <2> SUFFICES ASSUME Covers(a, b), Covers(b, a) PROVE a = b
    OBVIOUS
  <2>1. a[1] = b[1] /\ a[2] = b[2]
    BY <1>5 DEF Covers
  <2> QED BY <1>5, <2>1
<1>8. a = b => Covers(b, a)
  BY <1>5 DEF Covers
<1>9. Covers(a, b) /\ Covers(b, c) /\ a = c => Covers(b, a)
  OBVIOUS
<1> QED BY <1>3, <1>4, <1>6, <1>7, <1>8, <1>9

LEMMA DropStep == RInv /\ DropContained => RInv'
<1> SUFFICES ASSUME RInv, DropContained PROVE RInv'
  OBVIOUS
<1> DEFINE n == Len(ranked)
           v(i) == score[ranked[i]]
<1>1. /\ RetrievalTypeOK /\ pc = "drop" /\ turn \in 1 .. n /\ n \in Nat
      /\ dropped \subseteq 1 .. n /\ DOMAIN ranked = 1 .. n /\ packed = <<>> /\ total = 0
      /\ UNCHANGED <<corpus, direction, selected, score, via, frontier, hop, ranked, packed, total>>
      /\ \/ pc' = "pack" /\ turn' = 1
         \/ turn < n /\ pc' = "drop" /\ turn' = turn + 1
  BY DEF RInv, RetrievalTypeOK, DropContained
<1>2. \A i \in 1 .. n : v(i) \in Nat
  <2>1. \A i \in 1 .. n : ranked[i] \in Chunk
    BY <1>1 DEF RetrievalTypeOK
  <2>2. \A c \in Chunk : score[c] \in Nat
    BY <1>1 DEF RetrievalTypeOK
  <2> QED BY <2>1, <2>2
<1>3. \A i, j \in 1 .. n : i < j => v(j) =< v(i)
  BY DEF RInv, Ranking
<1>4. \A i, j : Outranks(i, j) <=> v(i) > v(j)
  BY DEF Outranks
<1> DEFINE inside == {j \in DOMAIN ranked \ dropped : Encloses(turn, j)}
           stops == {j \in inside : ~Outranks(turn, j)}
           upTo(j) == \A k \in stops : j < k
           out == {j \in inside : Outranks(turn, j) /\ upTo(j) /\ ranked[turn] \notin corpus.cut}
<1>5. DropByTurns(turn) = out \union {k \in {turn} : stops # {}}
  BY DEF DropByTurns
<1>6. inside \subseteq Kept /\ stops \subseteq inside /\ out \subseteq inside
  BY DEF Kept
<1>7. \A j \in inside : j \in 1 .. n /\ Encloses(turn, j) /\ Holds(turn, j) /\ j # turn
  <2>1. \A j \in inside : j \in 1 .. n /\ Encloses(turn, j)
    BY <1>1
  <2> HIDE DEF inside, n
  <2> SUFFICES ASSUME NEW j \in inside PROVE Holds(turn, j) /\ j # turn
    BY <2>1
  <2>2. Holds(turn, j) /\ ~Holds(j, turn)
    BY <1>1, <2>1, Covering DEF n
  <2> QED BY <2>2
<1>8. \A j \in stops : ~Outranks(turn, j)
  OBVIOUS
<1>9. \A j \in out : Outranks(turn, j) /\ ranked[turn] \notin corpus.cut /\ upTo(j)
  OBVIOUS
<1>10. Kept = 1 .. n \ dropped
  BY <1>1 DEF Kept
<1> HIDE DEF inside, stops, out, n, v
\* A container that goes drops nothing: what it outranks comes after its stop.
<1>11. stops # {} => out = {}
  <2> SUFFICES ASSUME NEW s \in stops, NEW j \in out PROVE FALSE
    OBVIOUS
  <2>1. j \in 1 .. n /\ s \in 1 .. n /\ j < s
    BY <1>6, <1>7, <1>9
  <2>2. v(s) =< v(j) /\ v(turn) > v(j) /\ ~(v(turn) > v(s))
    BY <1>3, <1>4, <1>8, <1>9, <2>1
  <2> QED BY <1>1, <1>2, <2>1, <2>2
<1>12. \/ dropped' = dropped
       \/ turn \notin dropped /\ stops # {} /\ dropped' = dropped \union {turn}
       \/ turn \notin dropped /\ stops = {} /\ dropped' = dropped \union out
  <2>1. dropped' = IF turn \in dropped THEN dropped ELSE dropped \union DropByTurns(turn)
    BY DEF DropContained
  <2>2. CASE turn \in dropped
    BY <2>1, <2>2
  <2>3. CASE turn \notin dropped /\ stops # {}
    BY <1>5, <1>11, <2>1, <2>3
  <2>4. CASE turn \notin dropped /\ stops = {}
    BY <1>5, <2>1, <2>4
  <2> QED BY <2>2, <2>3, <2>4
<1>13. dropped' \subseteq 1 .. n
  BY <1>1, <1>6, <1>7, <1>12
<1>14. Kept' = 1 .. n \ dropped'
  BY <1>1 DEF Kept
<1>15. \A i, k : (Holds(i, k)' <=> Holds(i, k)) /\ (Encloses(i, k)' <=> Encloses(i, k))
                 /\ (Outranks(i, k)' <=> Outranks(i, k))
  BY <1>1 DEF Holds, Encloses, Outranks
<1> DEFINE Whole(k, i) == Holds(k, i) /\ Outranks(k, i) /\ ranked[k] \notin corpus.cut
           Match(k, i) == Encloses(i, k) /\ ~Outranks(i, k)
<1>16. ASSUME NEW i \in dropped
       PROVE  \E k \in Kept : (Whole(k, i) /\ k < turn) \/ Match(k, i)
  <2>1. PICK k \in Kept :
            \/ /\ Holds(k, i) /\ Outranks(k, i) /\ ranked[k] \notin corpus.cut
               /\ pc = "drop" => k < turn
            \/ Encloses(i, k) /\ ~Outranks(i, k)
    BY DEF RInv, Paid
  <2> QED BY <1>1, <2>1
<1>17. \A k : pc' = "drop" /\ k =< turn /\ k \in Nat => k < turn'
  BY <1>1
<1>18. ASSUME NEW i \in dropped'
       PROVE  \E k \in Kept' : (Whole(k, i) /\ k =< turn) \/ Match(k, i)
  <2>1. CASE dropped' = dropped
    <3>1. PICK k \in Kept : (Whole(k, i) /\ k < turn) \/ Match(k, i)
      BY <1>16, <2>1
    <3>2. k \in Kept' /\ (k < turn => k =< turn)
      BY <1>1, <1>10, <1>14, <2>1, <3>1
    <3> QED BY <3>1, <3>2
  <2>2. CASE turn \notin dropped /\ stops # {} /\ dropped' = dropped \union {turn}
    <3>1. PICK s \in stops : TRUE
      BY <2>2
    <3>2. s \in 1 .. n /\ s \in Kept' /\ Match(s, turn) /\ s # turn
      BY <1>6, <1>7, <1>8, <1>10, <1>14, <2>2
    <3>3. CASE i = turn
      BY <3>2, <3>3
    <3>4. CASE i \in dropped
      <4>1. PICK k \in Kept : (Whole(k, i) /\ k < turn) \/ Match(k, i)
        BY <1>16, <3>4
      <4>2. CASE k # turn
        <5>1. k \in Kept' /\ (k < turn => k =< turn)
          BY <1>1, <1>10, <1>14, <2>2, <4>1, <4>2
        <5> HIDE DEF Whole, Match
        <5> QED BY <4>1, <5>1
      <4>3. CASE k = turn
        <5>1. Match(turn, i) /\ i \in 1 .. n
          <6> HIDE DEF Whole, Match
          <6>1. (Whole(turn, i) /\ turn < turn) \/ Match(turn, i)
            BY <4>1, <4>3
          <6>2. turn \in Nat /\ i \in 1 .. n
            BY <1>1, <3>4
          <6> QED BY <6>1, <6>2
        <5>2. Encloses(i, s)
          BY <1>1, <3>2, <5>1, Covering DEF n
        <5>3. ~Outranks(i, s)
          <6>1. ~(v(i) > v(turn)) /\ ~(v(turn) > v(s))
            BY <1>4, <3>2, <5>1
          <6>2. v(i) \in Nat /\ v(turn) \in Nat /\ v(s) \in Nat
            BY <1>1, <1>2, <3>2, <5>1
          <6>3. ~(v(i) > v(s))
            BY <6>1, <6>2
          <6> QED BY <1>4, <6>3
        <5> QED BY <3>2, <5>2, <5>3
      <4> QED BY <4>2, <4>3
    <3> QED BY <2>2, <3>3, <3>4
  <2>3. CASE turn \notin dropped /\ stops = {} /\ dropped' = dropped \union out
    <3>1. turn \in Kept' /\ turn =< turn
      BY <1>1, <1>6, <1>7, <1>14, <2>3
    <3>2. ASSUME NEW j \in out PROVE Whole(turn, j) /\ Encloses(turn, j) /\ j \in 1 .. n
      BY <1>6, <1>7, <1>9
    <3>3. CASE i \in out
      BY <3>1, <3>2, <3>3
    <3>4. CASE i \in dropped
      <4>1. PICK k \in Kept : (Whole(k, i) /\ k < turn) \/ Match(k, i)
        BY <1>16, <3>4
      <4>2. CASE k \notin out
        <5>1. k \in Kept' /\ (k < turn => k =< turn)
          BY <1>1, <1>10, <1>14, <2>3, <4>1, <4>2
        <5> QED BY <4>1, <5>1
      <4>3. CASE k \in out
        <5>1. Whole(turn, k) /\ k \in 1 .. n /\ i \in 1 .. n
          BY <1>1, <3>2, <3>4, <4>3
        <5>2. v(i) \in Nat /\ v(turn) \in Nat /\ v(k) \in Nat /\ v(turn) > v(k)
          BY <1>1, <1>2, <1>4, <5>1
        <5>3. CASE Whole(k, i)
          <6>1. Holds(turn, i)
            BY <1>1, <5>1, <5>3, Covering DEF n
          <6>2. v(k) > v(i)
            BY <1>4, <5>3
          <6>3. v(turn) > v(i)
            BY <5>2, <6>2
          <6>4. Whole(turn, i)
            BY <1>4, <5>1, <6>1, <6>3
          <6> QED BY <3>1, <6>4
        <5>4. CASE Match(k, i)
          <6>1. ~(v(i) > v(k))
            BY <1>4, <5>4
          <6>2. v(turn) > v(i) /\ ~(v(i) > v(turn))
            BY <5>2, <6>1
          <6>3. Outranks(turn, i) /\ ~Outranks(i, turn)
            BY <1>4, <6>2
          <6>4. Holds(i, k) /\ Holds(turn, k)
            BY <1>1, <5>1, <5>4, Covering DEF n
          <6>5. Holds(turn, i) \/ Holds(i, turn)
            BY <1>1, <5>1, <6>4, Covering DEF n
          <6>6. Holds(turn, i) \/ Encloses(i, turn)
            BY <1>1, <5>1, <6>5, Covering DEF n
          <6>7. Whole(turn, i) \/ Match(turn, i)
            BY <5>1, <6>3, <6>6
          <6> QED BY <3>1, <6>7
        <5> QED BY <4>1, <5>3, <5>4
      <4> QED BY <4>2, <4>3
    <3> QED BY <2>3, <3>3, <3>4
  <2> QED BY <1>12, <2>1, <2>2, <2>3
<1>19. Paid'
  <2> SUFFICES ASSUME NEW i \in dropped'
               PROVE  (\E k \in Kept :
                          \/ /\ Holds(k, i) /\ Outranks(k, i) /\ ranked[k] \notin corpus.cut
                             /\ pc = "drop" => k < turn
                          \/ Encloses(i, k) /\ ~Outranks(i, k))'
    BY DEF Paid
  <2>1. PICK k \in Kept' : (Whole(k, i) /\ k =< turn) \/ Match(k, i)
    BY <1>18
  <2>2. k \in Nat
    BY <1>14
  <2>3. k =< turn /\ pc' = "drop" => k < turn'
    BY <1>17, <2>2
  <2> QED BY <1>1, <1>15, <2>1, <2>3
<1>20. RetrievalTypeOK'
  <2>1. pc' \in {"drop", "pack"} /\ turn' \in 1 .. n
    BY <1>1
  <2> QED BY <1>1, <1>13, <2>1 DEF RetrievalTypeOK, n
<1>21. Explained' /\ Ranking'
  BY <1>1 DEF RInv, Explained, Ranking, ParentsAreReturned
<1>22. Packing'
  <2>1. Len(packed') = 0
    BY <1>1
  <2>2. Length'[0] = 0 /\ MaxChars \in Nat
    BY <1>20, LengthOfSectionsNext, LimitTypes
  <2>3. ASSUME NEW i \in Kept', Passed(i)' PROVE FALSE
    <3>1. pc' = "pack" /\ i < turn'
      BY <1>1, <2>3 DEF Passed
    <3>2. i \in 1 .. n /\ turn' = 1
      BY <1>1, <1>14, <3>1
    <3> QED BY <1>1, <3>1, <3>2
  <2>4. total' = Length'[0] /\ total' =< MaxChars
    BY <1>1, <2>2
  <2> QED BY <2>1, <2>3, <2>4 DEF Packing
<1> QED BY <1>19, <1>20, <1>21, <1>22 DEF RInv
\* What was measured before stays when a section is added.
LEMMA LengthStays ==
    ASSUME RetrievalTypeOK, RetrievalTypeOK', UNCHANGED <<corpus, ranked>>,
           NEW i \in 1 .. Len(ranked), packed' = Append(packed, i)
    PROVE  \A m \in 0 .. Len(packed) : Length'[m] = Length[m]
<1> DEFINE n == Len(packed)
           L == Length
           M == Length'
<1>1. /\ n \in Nat /\ Len(packed') = n + 1
      /\ \A a \in 1 .. n : packed'[a] = packed[a]
  <2> DEFINE S == 1 .. Len(ranked)
  <2>1. packed \in Seq(S) /\ i \in S
    BY DEF RetrievalTypeOK
  <2> HIDE DEF S
  <2> QED BY <2>1
<1>2. \A a : Size(a)' = Size(a) /\ FirstSize(a)' = FirstSize(a)
  BY DEF Size, FirstSize
<1>3. /\ L[0] = 0 /\ (packed # <<>> => L[1] = FirstSize(packed[1]))
      /\ \A k \in 2 .. n : L[k] = L[k - 1] + 2 + Size(packed[k])
  BY LengthOfSections
<1>4. /\ M[0] = 0 /\ (packed' # <<>> => M[1] = FirstSize(packed[1])' )
      /\ \A k \in 2 .. n + 1 : M[k] = M[k - 1] + 2 + Size(packed[k])'
  BY <1>1, LengthOfSectionsNext
<1>5. /\ FirstSize(packed[1])' = FirstSize(packed'[1])
      /\ \A k \in 2 .. n : Size(packed[k])' = Size(packed'[k])
  BY <1>2 DEF Size, FirstSize
<1>6. n # 0 => packed # <<>> /\ packed' # <<>>
  BY <1>1
<1> HIDE DEF n, L, M
<1> DEFINE T == {m \in Nat : m =< n => M[m] = L[m]}
<1>7. 0 \in T
  BY <1>3, <1>4
<1>8. ASSUME NEW m \in Nat, m \in T PROVE m + 1 \in T
  <2> SUFFICES ASSUME m + 1 =< n PROVE M[m + 1] = L[m + 1]
    OBVIOUS
  <2>1. m + 1 \in 1 .. n /\ n # 0 /\ M[m] = L[m] /\ m + 1 - 1 = m
    BY <1>1, <1>8
  <2>2. packed'[m + 1] = packed[m + 1] /\ packed'[1] = packed[1]
    BY <1>1, <2>1
  <2>3. CASE m = 0
    BY <1>1, <1>2, <1>3, <1>4, <1>5, <1>6, <2>1, <2>2, <2>3
  <2>4. CASE m # 0
    <3> DEFINE k == m + 1
    <3>1. k \in 2 .. n /\ k \in 2 .. n + 1 /\ k - 1 = m /\ packed'[k] = packed[k]
      BY <1>1, <2>1, <2>2, <2>4
    <3> HIDE DEF k
    <3>2. L[k] = L[m] + 2 + Size(packed[k]) /\ M[k] = M[m] + 2 + Size(packed[k])'
      BY <1>3, <1>4, <3>1
    <3>3. Size(packed[k])' = Size(packed[k])
      BY <1>2, <3>1 DEF Size
    <3> QED BY <2>1, <3>2, <3>3 DEF k
  <2> QED BY <2>3, <2>4
<1> HIDE DEF T
<1>9. Nat \subseteq T
  BY <1>7, <1>8, Induction
<1> QED BY <1>1, <1>9 DEF T, n, L, M

LEMMA PackStep == RInv /\ Pack => RInv'
<1> SUFFICES ASSUME RInv, Pack PROVE RInv'
  OBVIOUS
<1> DEFINE n == Len(packed)
           N == Len(ranked)
<1>1. /\ RetrievalTypeOK /\ pc = "pack" /\ turn \in 1 .. N /\ N \in Nat /\ n \in Nat
      /\ packed \in Seq(1 .. N) /\ total \in Nat /\ DOMAIN ranked = 1 .. N
      /\ UNCHANGED <<corpus, direction, selected, score, via, frontier, hop, ranked, dropped>>
      /\ \/ pc' = "done" /\ turn' = turn /\ turn = N
         \/ pc' = "pack" /\ turn' = turn + 1 /\ turn < N
  BY DEF RInv, RetrievalTypeOK, Pack
<1>0. /\ \A a \in 1 .. n : packed[a] \in 1 .. N
      /\ DOMAIN packed = 1 .. n /\ (n = 0 <=> packed = <<>>)
  <2> DEFINE S == 1 .. N
  <2>1. packed \in Seq(S)
    BY <1>1
  <2> HIDE DEF S
  <2>2. \A a \in 1 .. n : packed[a] \in S
    BY <2>1
  <2>3. DOMAIN packed = 1 .. n /\ (n = 0 <=> packed = <<>>)
    BY <2>1
  <2> QED BY <2>2, <2>3 DEF S
<1> HIDE DEF n, N
<1>2. \/ turn \notin dropped /\ Fits(turn) /\ Take(turn)
      \/ ~(turn \notin dropped /\ Fits(turn)) /\ packed' = packed /\ total' = total
  BY DEF Pack
<1>3. /\ \A a, b \in 1 .. n : a < b => packed[a] < packed[b]
      /\ \A a \in 1 .. n : packed[a] \in Kept /\ Passed(packed[a])
      /\ total = Length[n] /\ total =< MaxChars
      /\ \A i \in Kept : Passed(i) => i \in Range(packed) \/ LeftOut(i)
  BY DEF RInv, Packing, n
<1>4. /\ \A i \in 1 .. N : Size(i) \in Nat /\ FirstSize(i) \in Nat /\ FirstSize(i) =< MaxChars
      /\ Length \in [0 .. n -> Nat] /\ MaxChars \in Nat
  BY <1>1, LengthOfSections, LimitTypes DEF n, N
<1>5. Kept' = Kept /\ Kept = 1 .. N \ dropped
  BY <1>1 DEF Kept
<1>6. \A i \in 1 .. N : (Passed(i)' <=> i =< turn) /\ (Passed(i) <=> i < turn)
  BY <1>1 DEF Passed
<1>7. \A i : Size(i)' = Size(i)
  BY <1>1 DEF Size
<1>8. \A a \in 1 .. n : packed[a] \in 1 .. N /\ packed[a] < turn
  BY <1>0, <1>3, <1>6
<1>9. RetrievalTypeOK'
  <2>1. packed' \in Seq(1 .. N) /\ total' \in Nat
    <3>1. Size(turn) \in Nat /\ FirstSize(turn) \in Nat
      BY <1>1, <1>4
    <3>2. ASSUME Take(turn) PROVE packed' \in Seq(1 .. N) /\ total' \in Nat
      <4>1. packed' = Append(packed, turn)
        BY <3>2 DEF Take
      <4>2. total' = FirstSize(turn) \/ total' = total + Size(turn) + 2
        BY <3>2 DEF Take
      <4>3. packed' \in Seq(1 .. N)
        <5> DEFINE S == 1 .. N
        <5>1. packed \in Seq(S) /\ turn \in S
          BY <1>1
        <5> HIDE DEF S
        <5>2. packed' \in Seq(S)
          BY <4>1, <5>1
        <5> QED BY <5>2 DEF S
      <4>4. total + Size(turn) + 2 \in Nat
        BY <1>1, <3>1
      <4> QED BY <3>1, <4>2, <4>3, <4>4
    <3> QED BY <1>1, <1>2, <3>2
  <2>2. pc' \in {"pack", "done"} /\ turn' \in 1 .. N
    BY <1>1
  <2> QED BY <1>1, <2>1, <2>2 DEF RetrievalTypeOK, N
<1>10. Explained' /\ Ranking'
  BY <1>1 DEF RInv, Explained, Ranking, ParentsAreReturned
<1>11. Paid'
  BY <1>1, <1>5 DEF RInv, Paid, Holds, Encloses, Outranks
<1>12. CASE turn \notin dropped /\ Fits(turn) /\ Take(turn)
  <2>1. /\ packed' = Append(packed, turn)
        /\ packed = <<>> => total' = FirstSize(turn)
        /\ packed # <<>> => total' = total + Size(turn) + 2 /\ total + Size(turn) + 2 =< MaxChars
    BY <1>12 DEF Take, Fits
  <2>2. /\ Len(packed') = n + 1 /\ packed'[n + 1] = turn
        /\ \A a \in 1 .. n : packed'[a] = packed[a]
    <3> DEFINE S == 1 .. N
    <3>1. packed \in Seq(S) /\ turn \in S
      BY <1>1
    <3> HIDE DEF S
    <3> QED BY <2>1, <3>1 DEF n
  <2>3. \A m \in 0 .. n : Length'[m] = Length[m]
    BY <1>1, <1>9, <2>1, LengthStays DEF n, N
  <2>4. n = 0 <=> packed = <<>>
    BY <1>0
  <2>5. total' = Length'[n + 1] /\ total' =< MaxChars
    <3>0. packed' # <<>>
      BY <1>1, <2>2, <2>4 DEF n
    <3>1. CASE n = 0
      <4>1. Length'[1] = FirstSize(packed[1])'
        BY <1>9, <3>0, LengthOfSectionsNext
      <4>2. FirstSize(packed[1])' = FirstSize(turn)
        <5>1. packed'[1] = turn
          BY <2>2, <3>1
        <5> QED BY <1>1, <5>1 DEF FirstSize, Size
      <4>3. FirstSize(turn) =< MaxChars
        BY <1>1, <1>4
      <4> QED BY <2>1, <2>4, <3>1, <4>1, <4>2, <4>3
    <3>2. CASE n # 0
      <4>1. n + 1 \in 2 .. Len(packed')
        BY <1>1, <2>2, <3>2
      <4>0. PICK k \in Nat : k = n + 1
        BY <1>1
      <4>2. k \in 2 .. Len(packed') /\ k - 1 = n /\ packed'[k] = turn /\ n \in 0 .. n
        BY <1>1, <2>2, <4>0, <4>1
      <4>3. Length'[k] = Length'[k - 1] + 2 + Size(packed[k])'
        BY <1>9, <4>2, LengthOfSectionsNext
      <4>4. Size(packed[k])' = Size(turn)
        BY <1>1, <4>2 DEF Size
      <4>5. Length'[n] = total
        BY <1>3, <2>3, <4>2
      <4>6. total \in Nat /\ Size(turn) \in Nat
        BY <1>1, <1>4
      <4>7. Length'[k] = total + 2 + Size(turn)
        BY <4>2, <4>3, <4>4, <4>5
      <4> QED BY <2>1, <2>4, <3>2, <4>0, <4>6, <4>7
    <3> QED BY <3>1, <3>2
  <2>6. ASSUME NEW a \in 1 .. n + 1, NEW b \in 1 .. n + 1, a < b PROVE packed'[a] < packed'[b]
    <3>1. CASE b \in 1 .. n
      <4>1. a \in 1 .. n
        BY <1>1, <2>6, <3>1
      <4> QED BY <1>3, <2>2, <2>6, <3>1, <4>1
    <3>2. CASE b = n + 1
      <4>1. a \in 1 .. n
        BY <1>1, <2>6, <3>2
      <4> QED BY <1>8, <2>2, <3>2, <4>1
    <3> QED BY <1>1, <3>1, <3>2
  <2>7. ASSUME NEW a \in 1 .. n + 1 PROVE packed'[a] \in Kept' /\ Passed(packed[a])'
    <3>1. packed'[a] \in Kept /\ packed'[a] \in 1 .. N /\ packed'[a] =< turn
      <4>1. CASE a \in 1 .. n
        <5>1. packed[a] \in Kept /\ packed[a] \in 1 .. N /\ packed[a] < turn
          BY <1>3, <1>8, <4>1
        <5> QED BY <1>1, <2>2, <4>1, <5>1
      <4>2. CASE a = n + 1
        BY <1>1, <1>5, <1>12, <2>2, <4>2
      <4> QED BY <1>1, <4>1, <4>2
    <3>2. Passed(packed[a])'
      BY <1>1, <3>1 DEF Passed
    <3> QED BY <1>5, <3>1, <3>2
  <2>8. ASSUME NEW i \in Kept', Passed(i)' PROVE i \in Range(packed') \/ LeftOut(i)'
    <3>0. DOMAIN packed = 1 .. n /\ DOMAIN packed' = 1 .. n + 1
      BY <1>0, <1>9, <2>2 DEF RetrievalTypeOK
    <3>1. i \in Kept /\ i \in 1 .. N /\ i =< turn
      BY <1>5, <1>6, <2>8
    <3>2. CASE i = turn
      <4>1. n + 1 \in 1 .. n + 1
        BY <1>1
      <4> QED BY <2>2, <3>0, <3>2, <4>1 DEF Range
    <3>3. CASE i # turn
      <4>1. Passed(i) /\ i < turn
        BY <1>1, <1>6, <3>1, <3>3
      <4>2. CASE i \in Range(packed)
        <5>1. PICK a \in 1 .. n : packed[a] = i
          BY <3>0, <4>2 DEF Range
        <5>2. a \in 1 .. n + 1 /\ packed'[a] = i
          BY <1>1, <2>2, <5>1
        <5> QED BY <3>0, <5>2 DEF Range
      <4>3. CASE LeftOut(i)
        <5>1. PICK m \in 1 .. n : /\ \A a \in 1 .. m : packed[a] < i
                                  /\ \A a \in m + 1 .. n : i < packed[a]
                                  /\ Length[m] + 2 + Size(i) > MaxChars
          BY <4>3 DEF LeftOut, n
        <5>2. m \in 1 .. n + 1 /\ m \in 0 .. n
          BY <1>1
        <5>3. \A a \in 1 .. m : packed'[a] < i
          BY <1>1, <2>2, <5>1
        <5>4. \A a \in m + 1 .. n + 1 : i < packed'[a]
          <6> SUFFICES ASSUME NEW a \in m + 1 .. n + 1 PROVE i < packed'[a]
            OBVIOUS
          <6>1. (a \in m + 1 .. n /\ a \in 1 .. n) \/ a = n + 1
            BY <1>1
          <6> QED BY <2>2, <4>1, <5>1, <6>1
        <5>5. Length'[m] + 2 + Size(i)' > MaxChars
          BY <1>7, <2>3, <5>1, <5>2
        <5> QED BY <2>2, <5>2, <5>3, <5>4, <5>5 DEF LeftOut
      <4> QED BY <1>3, <3>1, <4>1, <4>2, <4>3
    <3> QED BY <3>2, <3>3
  <2>9. Packing'
    BY <2>2, <2>5, <2>6, <2>7, <2>8 DEF Packing
  <2> QED BY <1>9, <1>10, <1>11, <2>9 DEF RInv
<1>13. CASE ~(turn \notin dropped /\ Fits(turn)) /\ packed' = packed /\ total' = total
  <2>1. Length' = Length
    BY <1>1, <1>13 DEF Length, Size, FirstSize
  <2>2. \A i : LeftOut(i)' <=> LeftOut(i)
    BY <1>7, <1>13, <2>1 DEF LeftOut
  <2>3. ASSUME NEW i \in Kept', Passed(i)' PROVE i \in Range(packed') \/ LeftOut(i)'
    <3>1. i \in Kept /\ i \in 1 .. N /\ i =< turn
      BY <1>5, <1>6, <2>3
    <3>2. CASE i = turn
      <4>1. packed # <<>> /\ total + Size(turn) + 2 > MaxChars
        <5>1. ~Fits(turn)
          BY <1>5, <1>13, <3>1, <3>2
        <5>2. total \in Nat /\ Size(turn) \in Nat /\ MaxChars \in Nat
          BY <1>1, <1>4
        <5>3. packed # <<>> /\ ~(total + Size(turn) + 2 =< MaxChars)
          BY <5>1 DEF Fits
        <5> QED BY <5>2, <5>3
      <4>2. n \in 1 .. n
        BY <1>0, <1>1, <4>1
      <4>3. \A a \in 1 .. n : packed[a] < i
        BY <1>8, <3>2
      <4>4. \A a \in n + 1 .. n : i < packed[a]
        BY <1>1
      <4>5. Length[n] + 2 + Size(i) > MaxChars
        BY <1>1, <1>3, <1>4, <3>2, <4>1
      <4>6. LeftOut(i)
        BY <4>2, <4>3, <4>4, <4>5 DEF LeftOut, n
      <4> QED BY <2>2, <4>6
    <3>3. CASE i # turn
      <4>1. Passed(i)
        BY <1>1, <1>6, <3>1, <3>3
      <4> QED BY <1>3, <1>13, <2>2, <3>1, <4>1
    <3> QED BY <3>2, <3>3
  <2>4. ASSUME NEW a \in 1 .. n PROVE packed[a] \in Kept' /\ Passed(packed[a])'
    <3>1. packed[a] \in 1 .. N /\ packed[a] < turn /\ packed[a] =< turn
      BY <1>1, <1>8
    <3>2. packed'[a] = packed[a]
      BY <1>13
    <3>3. Passed(packed[a])'
      BY <1>1, <3>1, <3>2 DEF Passed
    <3> QED BY <1>3, <1>5, <3>3
  <2>5. Packing'
    BY <1>3, <1>13, <2>1, <2>3, <2>4 DEF Packing, n
  <2> QED BY <1>9, <1>10, <1>11, <2>5 DEF RInv
<1> QED BY <1>2, <1>12, <1>13
-----------------------------------------------------------------------------
(* The theorems.                                                           *)

LEMMA NextRInv == RInv /\ [Next]_vars => RInv'
<1> SUFFICES ASSUME RInv, [Next]_vars PROVE RInv'
  OBVIOUS
<1>1. CASE SearchSeeds
  BY <1>1, SeedStep
<1>2. CASE Expand
  BY <1>2, ExpandStep
<1>3. CASE ExpandEnds
  BY <1>3, ExpandEndsStep
<1>4. CASE Rank
  BY <1>4, RankStep
<1>5. CASE DropContained
  BY <1>5, DropStep
<1>6. CASE Pack
  BY <1>6, PackStep
<1>7. CASE UNCHANGED vars
  <2>1. RetrievalTypeOK' /\ Explained' /\ Ranking' /\ Paid'
    BY <1>7 DEF RInv, RetrievalTypeOK, Explained, Ranking, ParentsAreReturned, Paid, Kept,
                Holds, Encloses, Outranks, vars
  <2>2. Packing'
    <3>1. UNCHANGED <<corpus, pc, ranked, turn, dropped, packed, total>>
      BY <1>7 DEF vars
    <3>2. Length' = Length /\ \A i : Size(i)' = Size(i)
      BY <3>1 DEF Length, Size, FirstSize
    <3>3. Kept' = Kept /\ \A i : Passed(i)' <=> Passed(i)
      BY <3>1 DEF Kept, Passed
    <3>4. \A i : LeftOut(i)' <=> LeftOut(i)
      BY <3>1, <3>2 DEF LeftOut
    <3>5. \A a : Passed(packed[a])' <=> Passed(packed[a])
      BY <3>1 DEF Passed
    <3> QED BY <3>1, <3>2, <3>3, <3>4, <3>5 DEF RInv, Packing
  <2> QED BY <2>1, <2>2 DEF RInv
<1> QED BY <1>1, <1>2, <1>3, <1>4, <1>5, <1>6, <1>7 DEF Next

LEMMA RInvHolds == Spec => []RInv
<1> QED BY InitRInv, NextRInv, PTL DEF Spec

\* What search_graph returns can be explained, whatever the graph, the scores
\* and the cut to max_nodes.
THEOREM ResultsCanBeExplained == Spec => []ParentsAreReturned
<1>1. RInv => ParentsAreReturned
  BY DEF RInv, Ranking
<1> QED BY <1>1, RInvHolds, PTL

\* _drop_contained keeps something for each chunk it drops, in any order of
\* any number of nested chunks.
THEOREM NothingIsDroppedInVain == Spec => []DropsArePaidFor
<1>1. RInv => DropsArePaidFor
  BY DEF RInv, Paid, DropsArePaidFor
<1> QED BY <1>1, RInvHolds, PTL

\* The m positions taken before one that was left out are the first m.
LEMMA BetterOnes ==
    ASSUME RInv, NEW i \in 1 .. Len(ranked), NEW m \in 1 .. Len(packed),
           \A a \in 1 .. m : packed[a] < i,
           \A a \in m + 1 .. Len(packed) : i < packed[a]
    PROVE  Cardinality({k \in Range(packed) : k < i}) = m
<1> DEFINE n == Len(packed)
           S == 1 .. m
           B == {k \in Range(packed) : k < i}
           f == [a \in S |-> packed[a]]
<1>1. n \in Nat /\ DOMAIN packed = 1 .. n /\ \A a \in 1 .. n : packed[a] \in 1 .. Len(ranked)
  <2> DEFINE P == 1 .. Len(ranked)
  <2>1. packed \in Seq(P)
    BY DEF RInv, RetrievalTypeOK
  <2> HIDE DEF P
  <2>2. n \in Nat /\ DOMAIN packed = 1 .. n /\ \A a \in 1 .. n : packed[a] \in P
    BY <2>1
  <2> QED BY <2>2 DEF P
<1>2. \A a, b \in 1 .. n : a < b => packed[a] < packed[b]
  BY DEF RInv, Packing
<1> HIDE DEF n
<1>3. m \in Nat /\ m =< n /\ S \subseteq 1 .. n
  BY <1>1 DEF n
<1>4. \A a \in S : f[a] = packed[a] /\ f[a] \in B
  BY <1>1, <1>3 DEF Range
<1>5. \A a, b \in S : f[a] = f[b] => a = b
  <2> SUFFICES ASSUME NEW a \in S, NEW b \in S, packed[a] = packed[b] PROVE a = b
    BY <1>4
  <2>1. a \in 1 .. n /\ b \in 1 .. n /\ packed[a] \in Nat
    BY <1>1, <1>3
  <2>2. ~(a < b) /\ ~(b < a)
    BY <1>2, <2>1
  <2> QED BY <2>1, <2>2
<1>6. ASSUME NEW k \in B PROVE \E a \in S : f[a] = k
  <2>1. PICK a \in 1 .. n : packed[a] = k
    BY <1>1 DEF Range
  <2>2. ~(i < k) /\ k < i
    BY <1>1, <2>1
  <2>3. a \in S
    BY <1>1, <1>3, <2>1, <2>2 DEF n
  <2> QED BY <1>4, <2>1, <2>3
<1>7. f \in [S -> B]
  <2> HIDE DEF B
  <2> QED BY <1>4
<1> HIDE DEF f, B
<1>8. f \in Bijection(S, B)
  BY <1>5, <1>6, <1>7 DEF Bijection, Injection, Surjection, IsInjective
<1>9. IsFiniteSet(S) /\ Cardinality(S) = m
  <2>1. 1 \in Int /\ m \in Int
    BY <1>3
  <2>2. IsFiniteSet(1 .. m) /\ Cardinality(1 .. m) = IF 1 > m THEN 0 ELSE m - 1 + 1
    BY <2>1, FS_Interval
  <2>3. ~(1 > m) /\ m - 1 + 1 = m
    BY <1>3
  <2> QED BY <2>2, <2>3
<1>10. ExistsBijection(S, B)
  BY <1>8 DEF ExistsBijection
<1>11. Cardinality(B) = Cardinality(S)
  <2> HIDE DEF S
  <2> QED BY <1>9, <1>10, FS_Bijection
<1> QED BY <1>9, <1>11 DEF B

\* The context keeps to its budget, starts with the best chunk that was kept
\* and leaves out only what did not fit, for texts of any length.
THEOREM ContextIsPacked == Spec => []ContextIsFull
<1>1. ASSUME RInv PROVE ContextIsFull
  <2> SUFFICES ASSUME pc = "done", ranked # <<>>
               PROVE  /\ packed # <<>> /\ \A i \in Kept : packed[1] =< i
                      /\ Length[Len(packed)] =< MaxChars
                      /\ \A i \in Kept \ Range(packed) :
                            Length[Cardinality({k \in Range(packed) : k < i})] + 2 + Size(i) > MaxChars
    BY DEF ContextIsFull
  <2> DEFINE n == Len(packed)
             N == Len(ranked)
  <2>1. /\ n \in Nat /\ N \in Nat \ {0} /\ DOMAIN packed = 1 .. n /\ DOMAIN ranked = 1 .. N
        /\ \A a \in 1 .. n : packed[a] \in 1 .. N
        /\ n = 0 <=> packed = <<>>
    BY <1>1 DEF RInv, RetrievalTypeOK
  <2>2. Kept = 1 .. N \ dropped
    BY <2>1 DEF Kept
  <2>3. /\ \A a, b \in 1 .. n : a < b => packed[a] < packed[b]
        /\ Length[n] =< MaxChars
        /\ \A i \in Kept : i \in Range(packed) \/ LeftOut(i)
    BY <1>1 DEF RInv, Packing, Passed
  <2> HIDE DEF n, N
  <2>4. \E i : i \in Kept
    <3>1. CASE 1 \in dropped
      BY <1>1, <3>1 DEF RInv, Paid
    <3>2. CASE 1 \notin dropped
      BY <2>1, <2>2, <3>2
    <3> QED BY <3>1, <3>2
  <2>5. ASSUME NEW i \in Kept PROVE n # 0 /\ packed[1] =< i
    <3>0. i \in 1 .. N
      BY <2>2
    <3>1. CASE i \in Range(packed)
      <4>1. PICK a \in 1 .. n : packed[a] = i
        BY <2>1, <3>1 DEF Range
      <4>2. 1 \in 1 .. n /\ n # 0 /\ (a = 1 \/ 1 < a)
        BY <2>1
      <4>3. packed[1] \in Nat /\ (packed[1] < i \/ packed[1] = i)
        BY <2>1, <2>3, <4>1, <4>2
      <4> QED BY <3>0, <4>2, <4>3
    <3>2. CASE LeftOut(i)
      <4>1. PICK m \in 1 .. n : \A a \in 1 .. m : packed[a] < i
        BY <3>2 DEF LeftOut, n
      <4>2. 1 \in 1 .. m /\ 1 \in 1 .. n /\ n # 0
        BY <2>1
      <4>3. packed[1] < i /\ packed[1] \in Nat
        BY <2>1, <4>1, <4>2
      <4> QED BY <3>0, <4>2, <4>3
    <3> QED BY <2>3, <3>1, <3>2
  <2>6. packed # <<>>
    BY <2>1, <2>4, <2>5
  <2>7. ASSUME NEW i \in Kept \ Range(packed)
        PROVE  Length[Cardinality({k \in Range(packed) : k < i})] + 2 + Size(i) > MaxChars
    <3>1. LeftOut(i) /\ i \in 1 .. Len(ranked)
      BY <2>2, <2>3 DEF N
    <3>2. PICK m \in 1 .. Len(packed) :
             /\ \A a \in 1 .. m : packed[a] < i
             /\ \A a \in m + 1 .. Len(packed) : i < packed[a]
             /\ Length[m] + 2 + Size(i) > MaxChars
      BY <3>1 DEF LeftOut
    <3>3. Cardinality({k \in Range(packed) : k < i}) = m
      BY <1>1, <3>1, <3>2, BetterOnes
    <3> QED BY <3>2, <3>3
  <2> QED BY <2>3, <2>5, <2>6, <2>7 DEF n
<1> QED BY <1>1, RInvHolds, PTL
=============================================================================
