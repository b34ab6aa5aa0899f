------------------------- MODULE RoutineCoresProofs -------------------------
(***************************************************************************)
(* Theorems about module RoutineCores, for any launches, edits and answers *)
(* of the model: what is injected of documents respects their priority;    *)
(* what a hunt reports was read, or at least asked to be read; and, for    *)
(* any edit scripts, what a review makes of a diff is the diff.            *)
(*                                                                         *)
(* The invariant of either kind (CoresInv): a run keeps its record's       *)
(* fields; documents have sizes; what went into a prompt is the greedy cut *)
(* of the sizes that were read; a hunt has no findings before their        *)
(* validation, and is let through to it only with evidence, after the      *)
(* pushback or with nothing to report.                                     *)
(*                                                                         *)
(* The invariant of a review (ReviewInv): its files are text entries of    *)
(* the diff at the commit it read, a context that was read at that commit  *)
(* is the excerpt of the very script of its file, and a finding is a       *)
(* report about a file and a line, with the hunk nearest to it.  The rest  *)
(* is about scripts: the walk over a hunk (_hunk_changed_ranges) keeps in  *)
(* step with git's numbers, hunks are far enough apart for it to miss no   *)
(* run of changed lines, and merging and trimming stay inside the file.    *)
(***************************************************************************)
EXTENDS RoutineCores, FiniteSetTheorems, WellFoundedInduction, TLAPS

HuntFields ==
    {"kind", "stage", "cause", "names", "sizes", "got", "findings",
     "pushed", "earlier", "skills", "answer"}
ReviewFields ==
    {"kind", "stage", "cause", "names", "sizes", "got", "findings",
     "files", "seen", "next", "contexts", "picked", "skillSizes", "skillGot"}

RunShape ==
    /\ run.kind \in Kinds
    /\ run = [f \in IF run.kind = "bughunt" THEN HuntFields ELSE ReviewFields |-> run[f]]

TablesOK ==
    /\ playbooks \in [DOMAIN playbooks -> [size : Nat, kinds : SUBSET Kinds]]
    /\ skills \in [DOMAIN skills -> Nat]

PlaybooksCut ==
    /\ run.names \in Seq(PlaybookNames) /\ run.sizes \in Seq(Nat)
    /\ run.got = Included(run.sizes, InjectionMax)

Prompted == {"analyze", "summarize", "done"}
SkillsCut ==
    run.kind = "review" =>
        /\ run.skillSizes \in Seq(Nat)
        /\ run.stage \in Prompted => run.skillGot = Included(run.skillSizes, SkillInjectionMax)

Evidence == run.pushed \/ run.earlier \cap ReadTools # {}
Backed ==
    run.kind = "bughunt" =>
        /\ run.stage \notin {"summarize", "done", "failed"} => run.findings = <<>>
        /\ run.stage = "findings" => Evidence \/ run.answer.raw = <<>>
        /\ run.stage \in {"summarize", "done"} /\ run.findings # <<>> => Evidence

CoresInv == RunShape /\ TablesOK /\ PlaybooksCut /\ SkillsCut /\ Backed

-----------------------------------------------------------------------------
(* Induction, and what recursive definitions stand for.                    *)

LEMMA LeastNatural ==
    ASSUME NEW T \in SUBSET Nat, T # {}
    PROVE  \E x \in T : \A y \in T : x =< y
<1>1. IsWellFoundedOn(OpToRel(<, Nat), Nat)
  BY NatLessThanWellFounded
<1>2. PICK x \in T : \A y \in T : ~ (<<y, x>> \in OpToRel(<, Nat))
  BY <1>1, WFMin
<1>3. \A y \in Nat : y < x => <<y, x>> \in OpToRel(<, Nat)
  BY <1>2 DEF OpToRel
<1>4. ASSUME NEW y \in T PROVE x =< y
  <2>1. x \in Nat /\ y \in Nat /\ ~ (y < x)
    BY <1>2, <1>3
  <2> QED BY <2>1
<1> QED BY <1>2, <1>4

LEMMA Induction ==
    ASSUME NEW T, 0 \in T, \A n \in Nat : n \in T => n + 1 \in T
    PROVE  Nat \subseteq T
<1> SUFFICES ASSUME ~(Nat \subseteq T) PROVE FALSE
  OBVIOUS
<1> DEFINE U == Nat \ T
<1>1. U \in SUBSET Nat /\ U # {}
  OBVIOUS
<1>2. PICK x \in U : \A y \in U : x =< y
  BY <1>1, LeastNatural
<1>3. x \in Nat /\ x # 0 /\ x \notin T
  BY <1>2
<1>4. x - 1 \in Nat /\ x - 1 \notin U
  BY <1>2, <1>3
<1>5. x - 1 + 1 = x
  BY <1>3
<1> QED BY <1>3, <1>4, <1>5

\* What N steps go through, the k-th of which may depend on k.
Iterates(W, S, a, f, N) ==
    W \in [0 .. N -> S] /\ W[0] = a /\ \A k \in 1 .. N : W[k] = f[<<k, W[k - 1]>>]

LEMMA Iteration ==
    ASSUME NEW S, NEW a \in S, NEW N \in Nat, NEW f \in [(1 .. N) \X S -> S]
    PROVE  \E W : Iterates(W, S, a, f, N)
<1> DEFINE Paths(j) == {W \in [0 .. j -> S] : W[0] = a /\ \A k \in 1 .. j : W[k] = f[<<k, W[k - 1]>>]}
           T == {j \in Nat : j =< N => Paths(j) # {}}
<1>1. 0 \in T
  <2> DEFINE W == [k \in 0 .. 0 |-> a]
  <2>1. W \in Paths(0)
    OBVIOUS
  <2> QED BY <2>1
<1>2. ASSUME NEW j \in Nat, j \in T PROVE j + 1 \in T
  <2>0. SUFFICES ASSUME j + 1 =< N PROVE Paths(j + 1) # {}
    OBVIOUS
  <2>1. PICK W \in [0 .. j -> S] : W[0] = a /\ \A k \in 1 .. j : W[k] = f[<<k, W[k - 1]>>]
    BY <1>2, <2>0
  <2> DEFINE new == f[<<j + 1, W[j]>>]
             V == [k \in 0 .. j + 1 |-> IF k = j + 1 THEN new ELSE W[k]]
  <2>2. V \in [0 .. j + 1 -> S] /\ V[0] = a
    <3>1. <<j + 1, W[j]>> \in (1 .. N) \X S
      BY <2>0, <2>1
    <3>2. new \in S
      BY <3>1
    <3>3. W \in [0 .. j -> S] /\ W[0] = a
      BY <2>1
    <3> HIDE DEF new, T, Paths
    <3>4. \A k \in 0 .. j + 1 : k # j + 1 => k \in 0 .. j
      OBVIOUS
    <3> QED BY <3>2, <3>3, <3>4
  <2>3. ASSUME NEW k \in 1 .. j + 1 PROVE V[k] = f[<<k, V[k - 1]>>]
    <3>1. CASE k = j + 1
      <4>1. V[j + 1] = new /\ V[j] = W[j] /\ k - 1 = j
        <5> HIDE DEF new
        <5> QED BY <3>1
      <4> HIDE DEF V
      <4> QED BY <3>1, <4>1
    <3>2. CASE k \in 1 .. j
      <4>1. V[k] = W[k] /\ V[k - 1] = W[k - 1]
        BY <3>2
      <4> QED BY <2>1, <3>2, <4>1
    <3> QED BY <3>1, <3>2
  <2> HIDE DEF V
  <2>4. V \in Paths(j + 1)
    BY <2>2, <2>3
  <2> QED BY <2>4
<1>3. Nat \subseteq T
  <2> HIDE DEF T
  <2> QED BY <1>1, <1>2, Induction
<1>4. PICK W \in Paths(N) : TRUE
  BY <1>3
<1> QED BY <1>4 DEF Iterates


-----------------------------------------------------------------------------
(* The operators on sequences.                                             *)

\* What is taken from a sequence are elements of it.
LEMMA SublistType ==
    ASSUME NEW s, Len(s) \in Nat, NEW at, NEW E, \A i \in 1 .. Len(s) : i \in at => s[i] \in E
    PROVE  Sublist(s, at) \in Seq(E)
<1> DEFINE N == Len(s)
           S == Seq(E)
           f == [e \in (1 .. N) \X S |-> IF e[1] \in at THEN Append(e[2], s[e[1]]) ELSE e[2]]
           Is(V) == V = [k \in 0 .. N |->
                           IF k = 0 THEN <<>> ELSE IF k \in at THEN Append(V[k - 1], s[k]) ELSE V[k - 1]]
<1>1. N \in Nat /\ <<>> \in S
  OBVIOUS
<1>2. \A k \in 1 .. N, x \in S : f[<<k, x>>] = IF k \in at THEN Append(x, s[k]) ELSE x
  OBVIOUS
<1>3. ASSUME NEW k \in 1 .. N, NEW x \in S
      PROVE  (IF k \in at THEN Append(x, s[k]) ELSE x) \in S
  <2>1. k \in at => s[k] \in E
    OBVIOUS
  <2> QED BY <2>1
<1>4. f \in [(1 .. N) \X S -> S]
  <2> HIDE DEF N, S
  <2>1. \A e \in (1 .. N) \X S : (IF e[1] \in at THEN Append(e[2], s[e[1]]) ELSE e[2]) \in S
    BY <1>3
  <2> QED BY <2>1
<1> HIDE DEF f, S, N
<1>5. PICK W : Iterates(W, S, <<>>, f, N)
  BY <1>1, <1>4, Iteration
<1>6. W \in [0 .. N -> S] /\ W[0] = <<>> /\ \A k \in 1 .. N : W[k] = f[<<k, W[k - 1]>>]
  BY <1>5 DEF Iterates
<1>7. ASSUME NEW k \in 1 .. N PROVE W[k] = IF k \in at THEN Append(W[k - 1], s[k]) ELSE W[k - 1]
  <2>1. k - 1 \in 0 .. N
    BY <1>1
  <2>2. W[k - 1] \in S
    BY <1>6, <2>1
  <2> QED BY <1>2, <1>6, <2>2
<1>8. Is(W)
  <2>1. \A k \in 0 .. N : W[k] = IF k = 0 THEN <<>> ELSE IF k \in at THEN Append(W[k - 1], s[k]) ELSE W[k - 1]
    <3>1. \A k \in 0 .. N : k = 0 \/ k \in 1 .. N
      BY <1>1
    <3>2. \A k \in 1 .. N : k # 0
      BY <1>1
    <3> QED BY <1>6, <1>7, <3>1, <3>2
  <2> QED BY <1>6, <2>1
<1> DEFINE U == CHOOSE V : Is(V)
<1>9. Sublist(s, at) = U[N]
  BY DEF Sublist, N
<1> HIDE DEF Is
<1>10. Is(U)
  BY <1>8
<1> HIDE DEF U
<1>11. \A k \in 0 .. N : U[k] = IF k = 0 THEN <<>> ELSE IF k \in at THEN Append(U[k - 1], s[k]) ELSE U[k - 1]
  BY <1>10 DEF Is
<1> DEFINE T == {k \in Nat : k =< N => U[k] \in S}
<1>12. 0 \in T
  BY <1>1, <1>11
<1>13. ASSUME NEW k \in Nat, k \in T PROVE k + 1 \in T
  <2> SUFFICES ASSUME k + 1 =< N PROVE U[k + 1] \in S
    OBVIOUS
  <2>1. k + 1 \in 1 .. N /\ U[k] \in S
    BY <1>1, <1>13
  <2>2. U[k + 1] = IF k + 1 \in at THEN Append(U[k], s[k + 1]) ELSE U[k]
    BY <1>1, <1>11
  <2> QED BY <1>3, <2>1, <2>2
<1> HIDE DEF T
<1>14. Nat \subseteq T
  BY <1>12, <1>13, Induction
<1>15. U[N] \in S
  BY <1>1, <1>14 DEF T
<1> QED BY <1>9, <1>15 DEF S

LEMMA NothingToTake ==
    ASSUME NEW at PROVE Sublist(<<>>, at) = <<>>
<1>1. Sublist(<<>>, at) \in Seq({})
  <2>1. Len(<<>>) = 0
    OBVIOUS
  <2> QED BY <2>1, SublistType
<1> QED BY <1>1

\* Sums of sequences of numbers.
LEMMA InjectedIsSum ==
    ASSUME NEW got \in Seq(Int)
    PROVE  \E sum \in [0 .. Len(got) -> Int] :
              /\ sum[0] = 0 /\ Injected(got) = sum[Len(got)]
              /\ \A k \in 1 .. Len(got) : sum[k] = sum[k - 1] + got[k]
<1> DEFINE N == Len(got)
           f == [e \in (1 .. N) \X Int |-> e[2] + got[e[1]]]
           Is(V) == V = [k \in 0 .. N |-> IF k = 0 THEN 0 ELSE V[k - 1] + got[k]]
<1>1. N \in Nat /\ 0 \in Int
  OBVIOUS
<1>2. \A k \in 1 .. N, x \in Int : f[<<k, x>>] = x + got[k]
  OBVIOUS
<1>3. \A k \in 1 .. N : got[k] \in Int
  OBVIOUS
<1> HIDE DEF N
<1>4. f \in [(1 .. N) \X Int -> Int]
  BY <1>3
<1> HIDE DEF f
<1>5. PICK W : Iterates(W, Int, 0, f, N)
  BY <1>1, <1>4, Iteration
<1>6. W \in [0 .. N -> Int] /\ W[0] = 0 /\ \A k \in 1 .. N : W[k] = f[<<k, W[k - 1]>>]
  BY <1>5 DEF Iterates
<1>7. ASSUME NEW k \in 1 .. N PROVE W[k] = W[k - 1] + got[k]
  <2>1. k - 1 \in 0 .. N
    BY <1>1
  <2>2. W[k - 1] \in Int
    BY <1>6, <2>1
  <2> QED BY <1>2, <1>6, <2>2
<1>8. Is(W)
  <2>1. \A k \in 0 .. N : W[k] = IF k = 0 THEN 0 ELSE W[k - 1] + got[k]
    <3>1. \A k \in 0 .. N : k = 0 \/ k \in 1 .. N
      BY <1>1
    <3>2. \A k \in 1 .. N : k # 0
      BY <1>1
    <3> QED BY <1>6, <1>7, <3>1, <3>2
  <2> QED BY <1>6, <2>1
<1> DEFINE U == CHOOSE V : Is(V)
<1>9. Injected(got) = U[N]
  BY DEF Injected, N
<1> HIDE DEF Is
<1>10. Is(U)
  BY <1>8
<1> HIDE DEF U
<1>11. U = [k \in 0 .. N |-> IF k = 0 THEN 0 ELSE U[k - 1] + got[k]]
  BY <1>10 DEF Is
<1>12. \A k \in 0 .. N : U[k] = IF k = 0 THEN 0 ELSE U[k - 1] + got[k]
  BY <1>11
<1> DEFINE T == {k \in Nat : k =< N => U[k] \in Int}
<1>13. 0 \in T
  BY <1>1, <1>12
<1>14. ASSUME NEW k \in Nat, k \in T PROVE k + 1 \in T
  <2> SUFFICES ASSUME k + 1 =< N PROVE U[k + 1] \in Int
    OBVIOUS
  <2>1. k + 1 \in 1 .. N /\ U[k] \in Int /\ got[k + 1] \in Int
    BY <1>1, <1>3, <1>14
  <2>2. U[k + 1] = U[k] + got[k + 1]
    BY <1>1, <1>12
  <2> QED BY <2>1, <2>2
<1> HIDE DEF T
<1>15. Nat \subseteq T
  BY <1>13, <1>14, Induction
<1>16. \A k \in 0 .. N : U[k] \in Int
  BY <1>1, <1>15 DEF T
<1>17. U \in [0 .. N -> Int]
  BY <1>11, <1>16
<1>18. U[0] = 0 /\ \A k \in 1 .. N : U[k] = U[k - 1] + got[k]
  BY <1>1, <1>12
<1> QED BY <1>9, <1>17, <1>18 DEF N

\* Characters used after each body, and what goes in of each.
LEMMA IncludedIsGreedy ==
    ASSUME NEW sizes \in Seq(Nat), NEW cap \in Nat
    PROVE  \E used \in [0 .. Len(sizes) -> 0 .. cap] :
              /\ used[0] = 0
              /\ \A k \in 1 .. Len(sizes) : used[k] = used[k - 1] + Cut(sizes[k], cap - used[k - 1])
              /\ Included(sizes, cap) = [k \in 1 .. Len(sizes) |-> Cut(sizes[k], cap - used[k - 1])]
<1> DEFINE N == Len(sizes)
           S == 0 .. cap
           f == [e \in (1 .. N) \X S |-> e[2] + Cut(sizes[e[1]], cap - e[2])]
           Is(V) == V = [k \in 0 .. N |-> IF k = 0 THEN 0 ELSE V[k - 1] + Cut(sizes[k], cap - V[k - 1])]
<1>1. N \in Nat /\ 0 \in S
  OBVIOUS
<1>2. \A k \in 1 .. N, x \in S : f[<<k, x>>] = x + Cut(sizes[k], cap - x)
  OBVIOUS
<1>3. \A k \in 1 .. N, x \in S : x + Cut(sizes[k], cap - x) \in S
  <2> SUFFICES ASSUME NEW k \in 1 .. N, NEW x \in S PROVE x + Cut(sizes[k], cap - x) \in S
    OBVIOUS
  <2>1. sizes[k] \in Nat
    OBVIOUS
  <2> QED BY <2>1 DEF Cut
<1> HIDE DEF N
<1>4. f \in [(1 .. N) \X S -> S]
  <2> HIDE DEF S
  <2> QED BY <1>3
<1> HIDE DEF f, S
<1>5. PICK W : Iterates(W, S, 0, f, N)
  BY <1>1, <1>4, Iteration
<1>6. W \in [0 .. N -> S] /\ W[0] = 0 /\ \A k \in 1 .. N : W[k] = f[<<k, W[k - 1]>>]
  BY <1>5 DEF Iterates
<1>7. ASSUME NEW k \in 1 .. N PROVE W[k] = W[k - 1] + Cut(sizes[k], cap - W[k - 1])
  <2>1. k - 1 \in 0 .. N
    BY <1>1
  <2>2. W[k - 1] \in S
    BY <1>6, <2>1
  <2> QED BY <1>2, <1>6, <2>2
<1>8. Is(W)
  <2>1. \A k \in 0 .. N : W[k] = IF k = 0 THEN 0 ELSE W[k - 1] + Cut(sizes[k], cap - W[k - 1])
    <3>1. \A k \in 0 .. N : k = 0 \/ k \in 1 .. N
      BY <1>1
    <3>2. \A k \in 1 .. N : k # 0
      BY <1>1
    <3> QED BY <1>6, <1>7, <3>1, <3>2
  <2> QED BY <1>6, <2>1
<1> DEFINE U == CHOOSE V : Is(V)
<1>9. Included(sizes, cap) = [k \in 1 .. N |-> Cut(sizes[k], cap - U[k - 1])]
  BY DEF Included, N
<1> HIDE DEF Is
<1>10. Is(U)
  BY <1>8
<1> HIDE DEF U
<1>11. U = [k \in 0 .. N |-> IF k = 0 THEN 0 ELSE U[k - 1] + Cut(sizes[k], cap - U[k - 1])]
  BY <1>10 DEF Is
<1>12. \A k \in 0 .. N : U[k] = IF k = 0 THEN 0 ELSE U[k - 1] + Cut(sizes[k], cap - U[k - 1])
  BY <1>11
<1> DEFINE T == {k \in Nat : k =< N => U[k] \in S}
<1>13. 0 \in T
  BY <1>1, <1>12
<1>14. ASSUME NEW k \in Nat, k \in T PROVE k + 1 \in T
  <2> SUFFICES ASSUME k + 1 =< N PROVE U[k + 1] \in S
    OBVIOUS
  <2>1. k + 1 \in 1 .. N /\ U[k] \in S
    BY <1>1, <1>14
  <2>2. U[k + 1] = U[k] + Cut(sizes[k + 1], cap - U[k])
    BY <1>1, <1>12
  <2> QED BY <1>3, <2>1, <2>2
<1> HIDE DEF T
<1>15. Nat \subseteq T
  BY <1>13, <1>14, Induction
<1>16. \A k \in 0 .. N : U[k] \in S
  BY <1>1, <1>15 DEF T
<1>17. U \in [0 .. N -> S]
  BY <1>11, <1>16
<1>18. U[0] = 0 /\ \A k \in 1 .. N : U[k] = U[k - 1] + Cut(sizes[k], cap - U[k - 1])
  BY <1>1, <1>12
<1> QED BY <1>9, <1>17, <1>18 DEF N, S

\* Greedy inclusion keeps the cap, uses it up once it cuts, and gives nothing
\* of what comes after a cut.
LEMMA IncludedKeepsPriority ==
    ASSUME NEW sizes \in Seq(Nat), NEW cap \in Nat
    PROVE  KeepsPriority(sizes, Included(sizes, cap), cap)
<1> DEFINE N == Len(sizes)
           got == Included(sizes, cap)
<1>1. PICK used \in [0 .. N -> 0 .. cap] :
         /\ used[0] = 0
         /\ \A k \in 1 .. N : used[k] = used[k - 1] + Cut(sizes[k], cap - used[k - 1])
         /\ got = [k \in 1 .. N |-> Cut(sizes[k], cap - used[k - 1])]
  BY IncludedIsGreedy
<1>2. N \in Nat /\ DOMAIN sizes = 1 .. N /\ \A k \in 1 .. N : sizes[k] \in Nat
  OBVIOUS
<1> HIDE DEF N, got
<1>3. \A k \in 0 .. N : used[k] \in Nat /\ used[k] =< cap
  BY <1>1
<1>4. \A k \in 1 .. N : k - 1 \in 0 .. N /\ k \in 0 .. N
  BY <1>2
<1>5. ASSUME NEW k \in 1 .. N
      PROVE  got[k] \in Nat /\ used[k] = used[k - 1] + got[k] /\ (got[k] < sizes[k] => used[k] = cap)
  <2>1. got[k] = Cut(sizes[k], cap - used[k - 1]) /\ used[k] = used[k - 1] + got[k]
    BY <1>1
  <2>2. sizes[k] \in Nat /\ used[k - 1] \in Nat /\ used[k - 1] =< cap
    BY <1>2, <1>3, <1>4
  <2> QED BY <2>1, <2>2 DEF Cut
<1>6. got \in Seq(Int) /\ Len(got) = N
  <2>1. got \in [1 .. N -> Int]
    <3>1. \A k \in 1 .. N : got[k] \in Int
      BY <1>5
    <3> QED BY <1>1, <3>1
  <2> QED BY <1>2, <2>1
<1>7. Injected(got) = used[N]
  <2>1. PICK sum \in [0 .. N -> Int] :
           /\ sum[0] = 0 /\ Injected(got) = sum[N]
           /\ \A k \in 1 .. N : sum[k] = sum[k - 1] + got[k]
    BY <1>6, InjectedIsSum
  <2> DEFINE T == {k \in Nat : k =< N => sum[k] = used[k]}
  <2>2. 0 \in T
    BY <1>1, <2>1
  <2>3. ASSUME NEW k \in Nat, k \in T PROVE k + 1 \in T
    <3> SUFFICES ASSUME k + 1 =< N PROVE sum[k + 1] = used[k + 1]
      OBVIOUS
    <3>1. k + 1 \in 1 .. N /\ k + 1 - 1 = k /\ sum[k] = used[k]
      BY <1>2, <2>3
    <3> QED BY <1>5, <2>1, <3>1
  <2> HIDE DEF T
  <2>4. Nat \subseteq T
    BY <2>2, <2>3, Induction
  <2> QED BY <1>2, <2>1, <2>4 DEF T
<1>8. ASSUME NEW i \in 1 .. N, used[i] = cap, NEW j \in i .. N PROVE used[j] = cap
  <2> DEFINE T == {k \in Nat : i + k =< N => used[i + k] = cap}
  <2>1. 0 \in T
    BY <1>2, <1>8
  <2>2. ASSUME NEW k \in Nat, k \in T PROVE k + 1 \in T
    <3> SUFFICES ASSUME i + (k + 1) =< N PROVE used[i + (k + 1)] = cap
      OBVIOUS
    <3> DEFINE m == i + (k + 1)
    <3>1. m \in 1 .. N /\ m - 1 = i + k /\ used[m - 1] = cap
      BY <1>2, <2>2
    <3> HIDE DEF m
    <3>2. used[m] = used[m - 1] + got[m] /\ got[m] \in Nat /\ used[m] =< cap /\ used[m] \in Nat
      BY <1>3, <1>4, <1>5, <3>1
    <3>3. used[m] = cap
      BY <3>1, <3>2
    <3> QED BY <3>3 DEF m
  <2> HIDE DEF T
  <2>3. Nat \subseteq T
    BY <2>1, <2>2, Induction
  <2>4. j - i \in Nat /\ i + (j - i) = j /\ j =< N
    BY <1>2
  <2> QED BY <2>3, <2>4 DEF T
<1>9. ASSUME NEW i \in 1 .. N, NEW j \in 1 .. N, i < j, got[i] < sizes[i] PROVE got[j] = 0
  <2>1. used[i] = cap /\ j - 1 \in i .. N /\ j \in i .. N
    BY SMTT(20), <1>2, <1>5, <1>9
  <2>2. used[j - 1] = cap /\ used[j] = cap
    BY <1>8, <2>1
  <2>3. got[j] \in Nat /\ used[j] = used[j - 1] + got[j]
    BY <1>5
  <2> QED BY <2>2, <2>3
<1>10. ASSUME NEW i \in 1 .. N, got[i] < sizes[i] PROVE used[N] = cap
  <2>1. used[i] = cap /\ N \in i .. N
    BY <1>2, <1>5, <1>10
  <2> QED BY <1>8, <2>1
<1>11. used[N] =< cap
  BY <1>2, <1>3
<1> QED BY <1>2, <1>7, <1>9, <1>10, <1>11 DEF KeepsPriority, got

-----------------------------------------------------------------------------
(* The invariant                                                           *)

\* A step of a run sets some fields of its record.
Sets(fields) ==
    /\ DOMAIN run' = DOMAIN run /\ run' = [f \in DOMAIN run |-> run'[f]]
    /\ \A f \in DOMAIN run \ fields : run'[f] = run[f]

LEMMA Fields ==
    ASSUME RunShape
    PROVE  /\ run.kind = "bughunt" => DOMAIN run = HuntFields
           /\ run.kind = "review" => DOMAIN run = ReviewFields
           /\ run = [f \in DOMAIN run |-> run[f]]
           /\ {"kind", "stage", "cause", "names", "sizes", "got", "findings"} \subseteq DOMAIN run
BY DEF RunShape, Kinds, HuntFields, ReviewFields

LEMMA ShapeKept ==
    ASSUME RunShape, NEW fields, "kind" \notin fields, Sets(fields)
    PROVE  RunShape' /\ run'.kind = run.kind
<1>1. run'.kind = run.kind
  BY Fields DEF Sets
<1> QED BY <1>1, Fields DEF Sets, RunShape, Kinds

\* What a stage of either kind leaves alone stays true.
LEMMA PlaybooksCutKept ==
    ASSUME RunShape, PlaybooksCut, NEW fields, Sets(fields), fields \cap {"names", "sizes", "got"} = {}
    PROVE  PlaybooksCut'
<1>1. run'.names = run.names /\ run'.sizes = run.sizes /\ run'.got = run.got
  BY Fields DEF Sets
<1> QED BY <1>1 DEF PlaybooksCut

LEMMA HuntKept ==
    ASSUME CoresInv, run.kind = "bughunt", run.stage \notin {"summarize", "done", "failed"},
           NEW fields, Sets(fields), fields \cap {"kind", "names", "sizes", "got", "findings"} = {},
           run'.stage \in {"playbooks", "client", "loop", "judge", "retry", "done", "failed"},
           UNCHANGED documentVars
    PROVE  CoresInv'
<1>1. RunShape' /\ run'.kind = "bughunt"
  BY ShapeKept DEF CoresInv
<1>2. PlaybooksCut'
  BY PlaybooksCutKept DEF CoresInv
<1>3. run'.findings = <<>>
  BY Fields DEF CoresInv, Sets, Backed
<1>4. TablesOK' /\ SkillsCut'
  BY <1>1 DEF CoresInv, TablesOK, documentVars, SkillsCut
<1>5. Backed'
  BY <1>1, <1>3 DEF Backed
<1> QED BY <1>1, <1>2, <1>4, <1>5 DEF CoresInv

LEMMA ReviewKept ==
    ASSUME CoresInv, run.kind = "review", NEW fields, Sets(fields),
           fields \cap {"kind", "names", "sizes", "got", "skillSizes", "skillGot"} = {},
           run'.stage \in Prompted => run.stage \in Prompted,
           UNCHANGED documentVars
    PROVE  CoresInv'
<1>1. RunShape' /\ run'.kind = "review"
  BY ShapeKept DEF CoresInv
<1>2. PlaybooksCut'
  BY PlaybooksCutKept DEF CoresInv
<1>3. run'.skillSizes = run.skillSizes /\ run'.skillGot = run.skillGot
  BY Fields DEF CoresInv, Sets, ReviewFields
<1>4. TablesOK' /\ Backed'
  BY <1>1 DEF CoresInv, TablesOK, documentVars, Backed
<1>5. SkillsCut'
  BY <1>1, <1>3 DEF CoresInv, SkillsCut
<1> QED BY <1>1, <1>2, <1>4, <1>5 DEF CoresInv

LEMMA InitCores == Init => CoresInv
<1> SUFFICES ASSUME Init PROVE CoresInv
  OBVIOUS
<1>1. PICK launch \in Launches :
         /\ InitDocuments(launch.playbooks, launch.skills, launch.edits)
         /\ run = IF launch.kind = "review" THEN NewReview(launch.names) ELSE NewHunt(launch.names)
  BY DEF Init
<1>2. launch.names \in Seq(PlaybookNames)
  BY LaunchesAssumption
<1>3. TablesOK
  BY <1>1, LaunchesAssumption DEF InitDocuments, TablesOK
<1>4. Included(<<>>, InjectionMax) = <<>>
  <2>1. Len(<<>>) = 0 /\ <<>> \in Seq(Nat) /\ InjectionMax \in Nat
    BY DocumentsAssumption
  <2> DEFINE N == Len(<<>>)
  <2>2. PICK used \in [0 .. N -> 0 .. InjectionMax] :
           Included(<<>>, InjectionMax) = [k \in 1 .. N |-> Cut(<<>>[k], InjectionMax - used[k - 1])]
    BY <2>1, IncludedIsGreedy
  <2>3. 1 .. N = {}
    BY <2>1
  <2> QED BY <2>2, <2>3
<1>5. CASE launch.kind = "review"
  <2>1. run = NewReview(launch.names)
    BY <1>1, <1>5
  <2>2. /\ run.kind = "review" /\ run.stage = "resolve" /\ run.names = launch.names
        /\ run.sizes = <<>> /\ run.got = <<>> /\ run.skillSizes = <<>>
    BY <2>1 DEF NewReview
  <2>3. RunShape
    BY <2>1 DEF NewReview, RunShape, ReviewFields, Kinds
  <2> QED BY <1>2, <1>3, <1>4, <2>2, <2>3 DEF CoresInv, PlaybooksCut, SkillsCut, Backed, Prompted
<1>6. CASE launch.kind # "review"
  <2>1. run = NewHunt(launch.names)
    BY <1>1, <1>6
  <2>2. /\ run.kind = "bughunt" /\ run.stage = "resolve" /\ run.names = launch.names
        /\ run.sizes = <<>> /\ run.got = <<>> /\ run.findings = <<>>
    BY <2>1 DEF NewHunt
  <2>3. RunShape
    BY <2>1 DEF NewHunt, RunShape, HuntFields, Kinds
  <2> QED BY <1>2, <1>3, <1>4, <2>2, <2>3 DEF CoresInv, PlaybooksCut, SkillsCut, Backed
<1> QED BY <1>5, <1>6

LEMMA FailsSets ==
    ASSUME RunShape, NEW cause, Fails(cause)
    PROVE  Sets({"stage", "cause"}) /\ run'.stage = "failed"
BY Fields DEF Fails, Sets

LEMMA FailsKeeps ==
    ASSUME CoresInv, run.stage \notin {"summarize", "done", "failed"}, NEW cause, Fails(cause),
           UNCHANGED documentVars
    PROVE  CoresInv'
<1>1. Sets({"stage", "cause"}) /\ run'.stage = "failed"
  BY FailsSets DEF CoresInv
<1>2. run.kind \in {"review", "bughunt"}
  BY DEF CoresInv, RunShape, Kinds
<1> QED BY <1>1, <1>2, HuntKept, ReviewKept DEF Prompted

LEMMA GoesSets ==
    ASSUME RunShape, NEW stage, Goes(stage)
    PROVE  Sets({"stage"}) /\ run'.stage = stage
BY Fields DEF Goes, Sets

\* The playbooks that were found, cut to what may be injected of them.
LEMMA LoadPlaybooksCuts ==
    ASSUME CoresInv, NEW next, LoadPlaybooks(next)
    PROVE  /\ PlaybooksCut' /\ Sets({"stage", "sizes", "got"}) /\ run'.stage = next
<1>1. PICK reached \in BOOLEAN :
         LET names == FetchedPlaybooks(run.names, reached)
             sizes == [i \in DOMAIN names |-> playbooks[names[i]].size]
         IN  run' = [run EXCEPT !.stage = next, !.sizes = sizes, !.got = Included(sizes, InjectionMax)]
  BY DEF LoadPlaybooks
<1> DEFINE names == FetchedPlaybooks(run.names, reached)
           sizes == [i \in DOMAIN names |-> playbooks[names[i]].size]
<1>2. run' = [run EXCEPT !.stage = next, !.sizes = sizes, !.got = Included(sizes, InjectionMax)]
  BY <1>1
<1>3. names \in Seq(DOMAIN playbooks)
  <2>1. CASE reached
    <3> DEFINE at == {i \in DOMAIN run.names : run.names[i] \in DOMAIN playbooks}
    <3>1. names = Sublist(run.names, at)
      BY <2>1 DEF FetchedPlaybooks
    <3>2. Len(run.names) \in Nat
      BY DEF CoresInv, PlaybooksCut
    <3>3. \A i \in 1 .. Len(run.names) : i \in at => run.names[i] \in DOMAIN playbooks
      OBVIOUS
    <3> HIDE DEF at
    <3> QED BY <3>1, <3>2, <3>3, SublistType
  <2>2. CASE ~reached
    BY <2>2 DEF FetchedPlaybooks
  <2> QED BY <2>1, <2>2
<1> HIDE DEF names
<1>4. sizes \in Seq(Nat)
  <2>1. Len(names) \in Nat /\ DOMAIN names = 1 .. Len(names)
        /\ \A i \in DOMAIN names : names[i] \in DOMAIN playbooks
    BY <1>3
  <2>2. \A n \in DOMAIN playbooks : playbooks[n].size \in Nat
    BY DEF CoresInv, TablesOK
  <2>3. sizes \in [1 .. Len(names) -> Nat]
    BY <2>1, <2>2
  <2> HIDE DEF sizes
  <2> QED BY <2>1, <2>3
<1> HIDE DEF sizes
<1>5. Sets({"stage", "sizes", "got"})
  BY <1>2, Fields DEF CoresInv, Sets
<1>6. run'.stage = next /\ run'.sizes = sizes /\ run'.got = Included(sizes, InjectionMax)
  BY <1>2, Fields DEF CoresInv
<1>7. run'.names = run.names
  BY <1>5, Fields DEF CoresInv, Sets
<1> QED BY <1>4, <1>5, <1>6, <1>7 DEF CoresInv, PlaybooksCut

LEMMA HuntSteps ==
    ASSUME CoresInv, HuntStep, UNCHANGED documentVars
    PROVE  CoresInv'
<1>1. CASE run.kind = "bughunt" /\ ResolveLlm("playbooks")
  <2>1. run.stage = "resolve" /\ (Goes("playbooks") \/ Fails("llm"))
    BY <1>1 DEF ResolveLlm
  <2>2. CASE Goes("playbooks")
    <3>1. Sets({"stage"}) /\ run'.stage = "playbooks"
      BY <2>2, GoesSets DEF CoresInv
    <3> QED BY <1>1, <2>1, <3>1, HuntKept
  <2>3. CASE Fails("llm")
    BY <2>1, <2>3, FailsKeeps
  <2> QED BY <2>1, <2>2, <2>3
<1>2. CASE run.kind = "bughunt" /\ LoadPlaybooks("client")
  <2>1. PlaybooksCut' /\ Sets({"stage", "sizes", "got"}) /\ run'.stage = "client" /\ run.stage = "playbooks"
    BY <1>2, LoadPlaybooksCuts DEF LoadPlaybooks
  <2>2. RunShape' /\ run'.kind = "bughunt"
    BY <1>2, <2>1, ShapeKept DEF CoresInv
  <2>3. run'.findings = <<>>
    BY <1>2, <2>1, Fields DEF CoresInv, Sets, Backed
  <2>4. TablesOK' /\ SkillsCut'
    BY <2>2 DEF CoresInv, TablesOK, documentVars, SkillsCut
  <2>5. Backed'
    BY <2>1, <2>2, <2>3 DEF Backed
  <2> QED BY <2>1, <2>2, <2>4, <2>5 DEF CoresInv
<1>3. CASE run.kind = "bughunt" /\ Summarize
  <2>1. run.stage = "summarize" /\ (Goes("done") \/ Fails("provider"))
    BY <1>3 DEF Summarize
  <2>2. Sets({"stage", "cause"}) /\ run'.stage \in {"done", "failed"}
    <3>1. CASE Goes("done")
      <4>1. Sets({"stage"}) /\ run'.stage = "done"
        BY <3>1, GoesSets DEF CoresInv
      <4> QED BY <4>1 DEF Sets
    <3>2. CASE Fails("provider")
      BY <3>2, FailsSets DEF CoresInv
    <3> QED BY <2>1, <3>1, <3>2
  <2>3. RunShape' /\ run'.kind = "bughunt" /\ PlaybooksCut'
    BY <1>3, <2>2, ShapeKept, PlaybooksCutKept DEF CoresInv
  <2>4. run'.findings = run.findings /\ run'.pushed = run.pushed /\ run'.earlier = run.earlier
    BY <1>3, <2>2, Fields DEF CoresInv, Sets, HuntFields
  <2>5. TablesOK' /\ SkillsCut'
    BY <2>3 DEF CoresInv, TablesOK, documentVars, SkillsCut
  <2>6. Backed'
    BY <1>3, <2>1, <2>2, <2>3, <2>4 DEF CoresInv, Backed, Evidence
  <2> QED BY <2>3, <2>5, <2>6 DEF CoresInv
<1>4. CASE OpenClient
  <2>1. run.kind = "bughunt" /\ run.stage = "client"
    BY <1>4 DEF OpenClient, At
  <2>2. CASE run' = [run EXCEPT !.stage = "loop"]
    <3>1. Sets({"stage"}) /\ run'.stage = "loop"
      BY <2>2, Fields DEF CoresInv, Sets
    <3> QED BY <2>1, <3>1, HuntKept
  <2>3. CASE Fails("weaviate")
    BY <2>1, <2>3, FailsKeeps
  <2> QED BY <1>4, <2>2, <2>3 DEF OpenClient
<1>5. CASE ChatRaises
  BY <1>5, FailsKeeps DEF ChatRaises, At
<1>6. CASE LoopReturns
  <2>1. /\ run.kind = "bughunt" /\ run.stage = "loop"
        /\ Sets({"stage", "answer"}) /\ run'.stage \in {"judge", "retry"}
    BY <1>6, Fields DEF CoresInv, LoopReturns, At, Sets
  <2> QED BY <2>1, HuntKept
<1>7. CASE RetryParse
  <2>1. run.kind = "bughunt" /\ run.stage = "retry"
    BY <1>7 DEF RetryParse, At
  <2>2. CASE Fails("provider")
    BY <2>1, <2>2, FailsKeeps
  <2>3. ASSUME NEW answer \in Answers, run' = [run EXCEPT !.stage = "judge", !.answer = answer]
        PROVE  CoresInv'
    <3>1. Sets({"stage", "answer"}) /\ run'.stage = "judge"
      BY <2>3, Fields DEF CoresInv, Sets
    <3> QED BY <2>1, <3>1, HuntKept
  <2> QED BY <1>7, <2>2, <2>3 DEF RetryParse
<1>8. CASE PushBack
  <2>1. /\ run.kind = "bughunt" /\ run.stage = "judge"
        /\ run' = [run EXCEPT !.stage = "loop", !.pushed = TRUE, !.earlier = AllTools, !.skills = AllSkills]
    BY <1>8 DEF PushBack, At
  <2>2. Sets({"stage", "pushed", "earlier", "skills"}) /\ run'.stage = "loop"
    BY <2>1, Fields DEF CoresInv, Sets
  <2> QED BY <2>1, <2>2, HuntKept
<1>9. CASE HuntEnds
  <2>1. /\ run.kind = "bughunt" /\ run.stage = "judge" /\ ~NeedsPushback
        /\ run' = [run EXCEPT !.stage = IF run.answer.ok THEN "findings" ELSE "done",
                              !.skills = AllSkills, !.earlier = AllTools]
    BY <1>9 DEF HuntEnds, At
  <2>2. Sets({"stage", "earlier", "skills"})
    BY <2>1, Fields DEF CoresInv, Sets
  <2>3. /\ run'.stage = (IF run.answer.ok THEN "findings" ELSE "done")
        /\ run'.earlier = AllTools /\ run'.pushed = run.pushed
        /\ run'.answer = run.answer /\ run'.findings = run.findings
    BY <2>1, Fields DEF CoresInv, HuntFields
  <2>4. RunShape' /\ run'.kind = "bughunt" /\ PlaybooksCut'
    BY <2>1, <2>2, ShapeKept, PlaybooksCutKept DEF CoresInv
  <2>5. TablesOK' /\ SkillsCut'
    BY <2>4 DEF CoresInv, TablesOK, documentVars, SkillsCut
  <2>6. run'.findings = <<>>
    BY <2>1, <2>3 DEF CoresInv, Backed
  <2>7. run'.stage = "findings" => Evidence' \/ run'.answer.raw = <<>>
    BY <2>1, <2>3 DEF NeedsPushback, Evidence
  <2>8. Backed'
    BY <2>3, <2>6, <2>7 DEF Backed
  <2> QED BY <2>4, <2>5, <2>8 DEF CoresInv
<1>10. CASE ValidateFindings
  <2> DEFINE raw == run.answer.raw
             kept == Sublist(raw, {i \in DOMAIN raw : IsKept(raw[i])})
             valid == [i \in DOMAIN kept |-> Finding(kept[i])]
  <2>1. run.kind = "bughunt" /\ run.stage = "findings"
    BY <1>10 DEF ValidateFindings, At
  <2>2. Fails("noise") \/ run' = [run EXCEPT !.stage = "summarize", !.findings = valid]
    BY <1>10 DEF ValidateFindings
  <2>3. raw = <<>> => valid = <<>>
    <3>1. raw = <<>> => kept = <<>>
      BY NothingToTake
    <3> HIDE DEF kept, raw
    <3> QED BY <3>1
  <2> HIDE DEF valid, raw, kept
  <2>4. CASE Fails("noise")
    BY <2>1, <2>4, FailsKeeps
  <2>5. CASE run' = [run EXCEPT !.stage = "summarize", !.findings = valid]
    <3>1. Sets({"stage", "findings"})
      BY <2>5, Fields DEF CoresInv, Sets
    <3>2. /\ run'.stage = "summarize" /\ run'.findings = valid
          /\ run'.pushed = run.pushed /\ run'.earlier = run.earlier
      BY <2>1, <2>5, Fields DEF CoresInv, HuntFields
    <3>3. RunShape' /\ run'.kind = "bughunt" /\ PlaybooksCut'
      BY <2>1, <3>1, ShapeKept, PlaybooksCutKept DEF CoresInv
    <3>4. TablesOK' /\ SkillsCut'
      BY <3>3 DEF CoresInv, TablesOK, documentVars, SkillsCut
    <3>5. Evidence \/ run'.findings = <<>>
      BY <2>1, <2>3, <3>2 DEF CoresInv, Backed, raw
    <3>6. Backed'
      BY <3>2, <3>5 DEF Backed, Evidence
    <3> QED BY <3>3, <3>4, <3>6 DEF CoresInv
  <2> QED BY <2>2, <2>4, <2>5
<1>11. CASE At("loop") /\ LoopStep /\ UNCHANGED run
  BY <1>11 DEF CoresInv, RunShape, TablesOK, PlaybooksCut, SkillsCut, Backed, Evidence, documentVars
<1> QED BY <1>1, <1>2, <1>3, <1>4, <1>5, <1>6, <1>7, <1>8, <1>9, <1>10, <1>11 DEF HuntStep

LEMMA FailsInReview ==
    ASSUME CoresInv, run.kind = "review", NEW cause, Fails(cause), UNCHANGED documentVars
    PROVE  CoresInv'
<1>1. Sets({"stage", "cause"}) /\ run'.stage = "failed"
  BY FailsSets DEF CoresInv
<1> QED BY <1>1, ReviewKept DEF Prompted

LEMMA ReviewSteps ==
    ASSUME CoresInv, ReviewStep, UNCHANGED documentVars
    PROVE  CoresInv'
<1>1. CASE run.kind = "review" /\ ResolveLlm("diff")
  <2>1. run.stage = "resolve" /\ (Goes("diff") \/ Fails("llm"))
    BY <1>1 DEF ResolveLlm
  <2>2. CASE Goes("diff")
    <3>1. Sets({"stage"}) /\ run'.stage = "diff"
      BY <2>2, GoesSets DEF CoresInv
    <3> QED BY <1>1, <3>1, ReviewKept DEF Prompted
  <2>3. CASE Fails("llm")
    BY <2>1, <2>3, FailsKeeps
  <2> QED BY <2>1, <2>2, <2>3
<1>2. CASE run.kind = "review" /\ LoadPlaybooks("skills")
  <2>1. PlaybooksCut' /\ Sets({"stage", "sizes", "got"}) /\ run'.stage = "skills"
    BY <1>2, LoadPlaybooksCuts
  <2>2. RunShape' /\ run'.kind = "review"
    BY <1>2, <2>1, ShapeKept DEF CoresInv
  <2>3. run'.skillSizes = run.skillSizes
    BY <1>2, <2>1, Fields DEF CoresInv, Sets, ReviewFields
  <2>4. TablesOK' /\ Backed'
    BY <2>2 DEF CoresInv, TablesOK, documentVars, Backed
  <2>5. SkillsCut'
    BY <1>2, <2>1, <2>3 DEF CoresInv, SkillsCut, Prompted
  <2> QED BY <2>1, <2>2, <2>4, <2>5 DEF CoresInv
<1>3. CASE run.kind = "review" /\ Summarize
  <2>1. run.stage = "summarize" /\ (Goes("done") \/ Fails("provider"))
    BY <1>3 DEF Summarize
  <2>2. CASE Goes("done")
    <3>1. Sets({"stage"}) /\ run'.stage = "done"
      BY <2>2, GoesSets DEF CoresInv
    <3> QED BY <1>3, <2>1, <3>1, ReviewKept DEF Prompted
  <2>3. CASE Fails("provider")
    BY <1>3, <2>3, FailsInReview
  <2> QED BY <2>1, <2>2, <2>3
<1>4. CASE ReadDiff
  <2>1. run.kind = "review"
    BY <1>4 DEF ReadDiff, Reviewing
  <2>2. CASE \E cause \in {"git", "empty", "tooMany"} : Fails(cause)
    BY <2>1, <2>2, FailsInReview
  <2>3. CASE run' = [run EXCEPT !.stage = "graph", !.files = Reviewable(Tip), !.seen = moved]
    <3>1. Sets({"stage", "files", "seen"}) /\ run'.stage = "graph"
      BY <2>3, Fields DEF CoresInv, Sets
    <3> QED BY <2>1, <3>1, ReviewKept DEF Prompted
  <2> QED BY <1>4, <2>2, <2>3 DEF ReadDiff
<1>5. CASE OpenGraph
  <2>1. run.kind = "review" /\ Goes("context")
    BY <1>5 DEF OpenGraph, Reviewing
  <2>2. Sets({"stage"}) /\ run'.stage = "context"
    BY <2>1, GoesSets DEF CoresInv
  <2> QED BY <2>1, <2>2, ReviewKept DEF Prompted
<1>6. CASE ReadFile
  <2>1. run.kind = "review"
    BY <1>6 DEF ReadFile, Reviewing
  <2>2. CASE \E cause \in {"undecodable", "excerpt"} : Fails(cause)
    BY <2>1, <2>2, FailsInReview
  <2>3. ASSUME NEW context, run' = NextFile(context) PROVE CoresInv'
    <3>1. Sets({"next", "contexts"})
      BY <2>3, Fields DEF CoresInv, Sets, NextFile
    <3>2. run'.stage = run.stage
      BY <3>1, Fields DEF CoresInv, Sets
    <3> QED BY <2>1, <3>1, <3>2, ReviewKept
  <2> QED BY <1>6, <2>2, <2>3 DEF ReadFile
<1>7. CASE ContextEnds
  <2>1. run.kind = "review" /\ run' = [run EXCEPT !.stage = "playbooks", !.next = 1]
    BY <1>7 DEF ContextEnds, Reviewing
  <2>2. Sets({"stage", "next"}) /\ run'.stage = "playbooks"
    BY <2>1, Fields DEF CoresInv, Sets
  <2> QED BY <2>1, <2>2, ReviewKept DEF Prompted
<1>8. CASE SelectSkills
  <2>1. run.kind = "review"
    BY <1>8 DEF SelectSkills, Reviewing
  <2>2. CASE Goes("prompt")
    <3>1. Sets({"stage"}) /\ run'.stage = "prompt"
      BY <2>2, GoesSets DEF CoresInv
    <3> QED BY <2>1, <3>1, ReviewKept DEF Prompted
  <2>3. CASE Fails("provider")
    BY <2>1, <2>3, FailsInReview
  <2>4. ASSUME NEW picked, run' = [run EXCEPT !.stage = "fetch", !.picked = picked] PROVE CoresInv'
    <3>1. Sets({"stage", "picked"}) /\ run'.stage = "fetch"
      BY <2>4, Fields DEF CoresInv, Sets
    <3> QED BY <2>1, <3>1, ReviewKept DEF Prompted
  <2> QED BY <1>8, <2>2, <2>3, <2>4 DEF SelectSkills
<1>9. CASE FetchSkill
  <2>1. PICK reached \in BOOLEAN :
           /\ run.kind = "review" /\ run.stage = "fetch"
           /\ IF run.picked = <<>> THEN Goes("prompt")
              ELSE run' = [run EXCEPT !.picked = Tail(@),
                                      !.skillSizes = IF Found(Head(run.picked), reached)
                                                     THEN Append(@, skills[Head(run.picked)]) ELSE @]
    BY <1>9 DEF FetchSkill, Reviewing
  <2>2. CASE Goes("prompt")
    <3>1. Sets({"stage"}) /\ run'.stage = "prompt"
      BY <2>2, GoesSets DEF CoresInv
    <3> QED BY <2>1, <3>1, ReviewKept DEF Prompted
  <2> DEFINE more == IF Found(Head(run.picked), reached)
                     THEN Append(run.skillSizes, skills[Head(run.picked)]) ELSE run.skillSizes
  <2>3. more \in Seq(Nat)
    <3>1. run.skillSizes \in Seq(Nat)
      BY <2>1 DEF CoresInv, SkillsCut
    <3>2. Found(Head(run.picked), reached) => skills[Head(run.picked)] \in Nat
      BY DEF Found, CoresInv, TablesOK
    <3> QED BY <3>1, <3>2
  <2>4. CASE run' = [run EXCEPT !.picked = Tail(run.picked), !.skillSizes = more]
    <3> HIDE DEF more
    <3>1. Sets({"picked", "skillSizes"})
      BY <2>4, Fields DEF CoresInv, Sets
    <3>2. run'.stage = "fetch" /\ run'.skillSizes = more
      BY <2>1, <2>4, Fields DEF CoresInv, ReviewFields
    <3>3. RunShape' /\ run'.kind = "review" /\ PlaybooksCut'
      BY <2>1, <3>1, ShapeKept, PlaybooksCutKept DEF CoresInv
    <3>4. TablesOK' /\ Backed'
      BY <3>3 DEF CoresInv, TablesOK, documentVars, Backed
    <3>5. SkillsCut'
      BY <2>3, <3>2 DEF SkillsCut, Prompted
    <3> QED BY <3>3, <3>4, <3>5 DEF CoresInv
  <2> QED BY <2>1, <2>2, <2>4
<1>10. CASE BuildPrompt
  <2>1. /\ run.kind = "review"
        /\ run' = [run EXCEPT !.stage = "analyze", !.skillGot = Included(run.skillSizes, SkillInjectionMax)]
    BY <1>10 DEF BuildPrompt, Reviewing
  <2>2. Sets({"stage", "skillGot"})
    BY <2>1, Fields DEF CoresInv, Sets
  <2>3. run'.skillSizes = run.skillSizes /\ run'.skillGot = Included(run.skillSizes, SkillInjectionMax)
    BY <2>1, Fields DEF CoresInv, ReviewFields
  <2>4. RunShape' /\ run'.kind = "review" /\ PlaybooksCut'
    BY <2>1, <2>2, ShapeKept, PlaybooksCutKept DEF CoresInv
  <2>5. TablesOK' /\ Backed'
    BY <2>4 DEF CoresInv, TablesOK, documentVars, Backed
  <2>6. SkillsCut'
    BY <2>1, <2>3 DEF CoresInv, SkillsCut
  <2> QED BY <2>4, <2>5, <2>6 DEF CoresInv
<1>11. CASE AnalyzeFile
  <2>1. run.kind = "review" /\ run.stage = "analyze"
    BY <1>11 DEF AnalyzeFile, Reviewing
  <2>2. CASE \E cause \in {"provider", "noise"} : Fails(cause)
    BY <2>1, <2>2, FailsInReview
  <2>3. CASE run' = [run EXCEPT !.next = @ + 1]
    <3>1. Sets({"next"})
      BY <2>3, Fields DEF CoresInv, Sets
    <3>2. run'.stage = run.stage
      BY <3>1, Fields DEF CoresInv, Sets
    <3> QED BY <2>1, <3>1, <3>2, ReviewKept
  <2>4. ASSUME NEW more, run' = [run EXCEPT !.next = @ + 1, !.findings = @ \o more] PROVE CoresInv'
    <3>1. Sets({"next", "findings"})
      <4> DEFINE all == run.findings \o more
                 n == run.next + 1
      <4>1. run' = [run EXCEPT !.next = n, !.findings = all]
        BY <2>4
      <4> HIDE DEF all, n
      <4> QED BY <4>1, Fields DEF CoresInv, Sets
    <3>2. run'.stage = run.stage
      BY <3>1, Fields DEF CoresInv, Sets
    <3>3. RunShape' /\ run'.kind = "review" /\ PlaybooksCut'
      BY <2>1, <3>1, ShapeKept, PlaybooksCutKept DEF CoresInv
    <3> QED BY <2>1, <3>1, <3>2, ReviewKept
  <2>5. \/ \E cause \in {"provider", "noise"} : Fails(cause)
        \/ run' = [run EXCEPT !.next = @ + 1]
        \/ \E more : run' = [run EXCEPT !.next = @ + 1, !.findings = @ \o more]
    BY <1>11 DEF AnalyzeFile
  <2> QED BY <2>2, <2>3, <2>4, <2>5
<1>12. CASE AnalysisEnds
  <2>1. run.kind = "review" /\ run.stage = "analyze" /\ Goes("summarize")
    BY <1>12 DEF AnalysisEnds, Reviewing
  <2>2. Sets({"stage"})
    BY <2>1, GoesSets DEF CoresInv
  <2> QED BY <2>1, <2>2, ReviewKept DEF Prompted
<1> QED BY <1>1, <1>2, <1>3, <1>4, <1>5, <1>6, <1>7, <1>8, <1>9, <1>10, <1>11, <1>12 DEF ReviewStep

LEMMA EditingKeeps ==
    ASSUME CoresInv, Editing
    PROVE  CoresInv'
<1>1. UNCHANGED run
  BY DEF Editing
<1>2. TablesOK'
  <2>1. CASE PutPlaybook
    <3>1. PICK n \in PlaybookNames, size \in BodySizes, kinds \in SUBSET Kinds :
             /\ playbooks' = [m \in DOMAIN playbooks \cup {n} |->
                                 IF m = n THEN [size |-> size, kinds |-> kinds] ELSE playbooks[m]]
             /\ UNCHANGED skills
      BY <2>1 DEF PutPlaybook
    <3>2. size \in Nat
      BY DocumentsAssumption
    <3> QED BY <3>1, <3>2 DEF CoresInv, TablesOK
  <2>2. CASE DeletePlaybook
    BY <2>2 DEF DeletePlaybook, CoresInv, TablesOK
  <2>3. CASE PutSkill
    <3>1. PICK n \in SkillNames, size \in BodySizes :
             /\ skills' = [m \in DOMAIN skills \cup {n} |-> IF m = n THEN size ELSE skills[m]]
             /\ UNCHANGED playbooks
      BY <2>3 DEF PutSkill
    <3>2. size \in Nat
      BY DocumentsAssumption
    <3> QED BY <3>1, <3>2 DEF CoresInv, TablesOK
  <2>4. CASE DeleteSkill
    BY <2>4 DEF DeleteSkill, CoresInv, TablesOK
  <2> QED BY <2>1, <2>2, <2>3, <2>4 DEF Editing, EditDocuments
<1> QED BY <1>1, <1>2 DEF CoresInv, RunShape, PlaybooksCut, SkillsCut, Backed, Evidence

LEMMA CoresInduction == CoresInv /\ [Next]_coreVars => CoresInv'
<1> SUFFICES ASSUME CoresInv, [Next]_coreVars PROVE CoresInv'
  OBVIOUS
<1>1. CASE HuntStep /\ UNCHANGED documentVars
  BY <1>1, HuntSteps
<1>2. CASE ReviewStep /\ UNCHANGED documentVars
  BY <1>2, ReviewSteps
<1>3. CASE Editing
  BY <1>3, EditingKeeps
<1>4. CASE UNCHANGED <<run, documentVars>>
  BY <1>4 DEF CoresInv, RunShape, TablesOK, PlaybooksCut, SkillsCut, Backed, Evidence, documentVars
<1>5. CASE Moving
  BY <1>4, <1>5 DEF Moving, TargetMoves, documentVars
<1>6. CASE UNCHANGED coreVars
  BY <1>4, <1>6 DEF coreVars, documentVars
<1> QED BY <1>1, <1>2, <1>3, <1>5, <1>6 DEF Next, Work, documentVars

(* The documents of a run are cut greedily in order of their priority,      *)
(* whatever is edited while it is on its way (_build_analyze_system_prompt  *)
(* of review.py, which bughunt.py reuses).                                  *)
THEOREM DocumentsKeepPriorityAlways == Spec => []DocumentsKeepPriority
<1>1. CoresInv => DocumentsKeepPriority
  <2> SUFFICES ASSUME CoresInv PROVE DocumentsKeepPriority
    OBVIOUS
  <2>1. InjectionMax \in Nat /\ SkillInjectionMax \in Nat
    BY DocumentsAssumption, ReviewAssumption
  <2>2. PlaybooksKeepPriority
    BY <2>1, IncludedKeepsPriority DEF CoresInv, PlaybooksCut, PlaybooksKeepPriority
  <2>3. SkillsKeepPriority
    BY <2>1, IncludedKeepsPriority DEF CoresInv, SkillsCut, Prompted, SkillsKeepPriority
  <2> QED BY <2>2, <2>3 DEF DocumentsKeepPriority
<1> QED BY <1>1, InitCores, CoresInduction, PTL DEF Spec

(* What a hunt reports was preceded by a call that reads code, or by the    *)
(* pushback that demanded one, whatever the model answers and calls         *)
(* (run_bughunt, the read-before-report guard).                             *)
THEOREM EvidenceOrPushbackAlways == Spec => []EvidenceOrPushback
<1>1. CoresInv => EvidenceOrPushback
  BY DEF CoresInv, Backed, Evidence, EvidenceOrPushback
<1> QED BY <1>1, InitCores, CoresInduction, PTL DEF Spec

-----------------------------------------------------------------------------
(* The lines of a changed file.                                            *)

\* Letters of a kind up to a place are counted one by one.
CountTo(s, P, i) == Cardinality({j \in 1 .. i : s[j] \in P})

LEMMA CountStep ==
    ASSUME NEW s, NEW P, NEW i \in Nat
    PROVE  /\ CountTo(s, P, i) \in Nat /\ CountTo(s, P, 0) = 0
           /\ CountTo(s, P, i + 1) = CountTo(s, P, i) + (IF s[i + 1] \in P THEN 1 ELSE 0)
<1> DEFINE A == {j \in 1 .. i : s[j] \in P}
           B == {j \in 1 .. i + 1 : s[j] \in P}
<1>1. IsFiniteSet(1 .. i)
  BY FS_Interval
<1>2. IsFiniteSet(A) /\ Cardinality(A) \in Nat
  <2>1. A \in SUBSET (1 .. i)
    OBVIOUS
  <2> QED BY <1>1, <2>1, FS_Subset, FS_CardinalityType
<1>3. CountTo(s, P, 0) = 0
  <2>1. {j \in 1 .. 0 : s[j] \in P} = {}
    OBVIOUS
  <2> QED BY <2>1, FS_EmptySet DEF CountTo
<1>4. CASE s[i + 1] \in P
  <2>1. B = A \union {i + 1} /\ i + 1 \notin A
    BY <1>4
  <2> HIDE DEF A, B
  <2>2. Cardinality(B) = Cardinality(A) + 1
    BY <1>2, <2>1, FS_AddElement
  <2> QED BY <1>2, <1>3, <1>4, <2>2 DEF A, B, CountTo
<1>5. CASE s[i + 1] \notin P
  <2>1. B = A
    BY <1>5
  <2> HIDE DEF A, B
  <2>2. Cardinality(B) = Cardinality(A) + 0
    BY <1>2, <2>1
  <2> QED BY <1>2, <1>3, <1>5, <2>2 DEF A, B, CountTo
<1> QED BY <1>4, <1>5

LEMMA TargetLineStep ==
    ASSUME NEW s, NEW i \in Nat
    PROVE  /\ TargetLine(s, i) \in Nat /\ TargetLine(s, 0) = 0
           /\ TargetLine(s, i + 1) = TargetLine(s, i) + (IF s[i + 1] = "-" THEN 0 ELSE 1)
<1> DEFINE P == {s[j] : j \in 1 .. i + 1} \ {"-"}
<1>1. /\ {j \in 1 .. i : s[j] # "-"} = {j \in 1 .. i : s[j] \in P}
      /\ {j \in 1 .. i + 1 : s[j] # "-"} = {j \in 1 .. i + 1 : s[j] \in P}
      /\ {j \in 1 .. 0 : s[j] # "-"} = {j \in 1 .. 0 : s[j] \in P}
      /\ s[i + 1] = "-" <=> s[i + 1] \notin P
  OBVIOUS
<1> HIDE DEF P
<1>2. /\ TargetLine(s, i) = CountTo(s, P, i) /\ TargetLine(s, i + 1) = CountTo(s, P, i + 1)
      /\ TargetLine(s, 0) = CountTo(s, P, 0)
  BY <1>1 DEF TargetLine, CountTo
<1>3. CASE s[i + 1] = "-"
  BY <1>1, <1>2, <1>3, CountStep
<1>4. CASE s[i + 1] # "-"
  BY <1>1, <1>2, <1>4, CountStep
<1> QED BY <1>3, <1>4

\* Carriage returns inside the lines up to the i-th.
ReturnsTo(s, i) == CountTo(s, {"c"}, i)

LEMMA ReturnsStep ==
    ASSUME NEW s, NEW i \in Nat
    PROVE  /\ ReturnsTo(s, i) \in Nat /\ ReturnsTo(s, 0) = 0
           /\ ReturnsTo(s, i + 1) = ReturnsTo(s, i) + (IF s[i + 1] = "c" THEN 1 ELSE 0)
<1>1. s[i + 1] \in {"c"} <=> s[i + 1] = "c"
  OBVIOUS
<1> QED BY <1>1, CountStep DEF ReturnsTo

\* Lines only go up, by one at most, and by none over deleted ones only.
LEMMA LinesGoUp ==
    ASSUME NEW s, NEW i \in Nat, NEW j \in Nat, i =< j
    PROVE  /\ TargetLine(s, i) =< TargetLine(s, j)
           /\ ReturnsTo(s, i) =< ReturnsTo(s, j)
           /\ TargetLine(s, i) = TargetLine(s, j) <=> \A k \in i + 1 .. j : s[k] = "-"
<1> DEFINE T == {n \in Nat : /\ TargetLine(s, i) =< TargetLine(s, i + n)
                             /\ ReturnsTo(s, i) =< ReturnsTo(s, i + n)
                             /\ TargetLine(s, i) = TargetLine(s, i + n) <=> \A k \in i + 1 .. i + n : s[k] = "-"}
<1>1. 0 \in T
  <2>1. TargetLine(s, i) \in Nat /\ ReturnsTo(s, i) \in Nat /\ i + 0 = i
    BY TargetLineStep, ReturnsStep
  <2> QED BY <2>1
<1>2. ASSUME NEW n \in Nat, n \in T PROVE n + 1 \in T
  <2>1. /\ TargetLine(s, i) \in Nat /\ TargetLine(s, i + n) \in Nat
        /\ TargetLine(s, i + n + 1) = TargetLine(s, i + n) + (IF s[i + n + 1] = "-" THEN 0 ELSE 1)
    BY TargetLineStep
  <2>2. /\ ReturnsTo(s, i) \in Nat /\ ReturnsTo(s, i + n) \in Nat
        /\ ReturnsTo(s, i + n + 1) = ReturnsTo(s, i + n) + (IF s[i + n + 1] = "c" THEN 1 ELSE 0)
    BY ReturnsStep
  <2>3. i + (n + 1) = i + n + 1
    OBVIOUS
  <2>4. \A k \in i + 1 .. i + n + 1 : k \in i + 1 .. i + n \/ k = i + n + 1
    OBVIOUS
  <2>5. \A k \in i + 1 .. i + n : k \in i + 1 .. i + n + 1
    OBVIOUS
  <2>6. i + n + 1 \in i + 1 .. i + n + 1
    OBVIOUS
  <2>7. CASE s[i + n + 1] = "-"
    BY <1>2, <2>1, <2>2, <2>3, <2>4, <2>5, <2>6, <2>7
  <2>8. CASE s[i + n + 1] # "-"
    BY <1>2, <2>1, <2>2, <2>3, <2>4, <2>5, <2>6, <2>8
  <2> QED BY <2>7, <2>8
<1> HIDE DEF T
<1>3. Nat \subseteq T
  BY <1>1, <1>2, Induction
<1>4. j - i \in T /\ i + (j - i) = j
  BY <1>3
<1> QED BY <1>4 DEF T

\* Each line between two places is the target line of a place between them.
LEMMA LineIsSomewhere ==
    ASSUME NEW s, NEW i \in Nat, NEW j \in Nat, i =< j, NEW line \in TargetLine(s, i) + 1 .. TargetLine(s, j)
    PROVE  \E k \in i + 1 .. j : s[k] # "-" /\ TargetLine(s, k) = line
<1> DEFINE T == {n \in Nat : line =< TargetLine(s, i + n)}
<1>0. TargetLine(s, i) \in Nat /\ TargetLine(s, j) \in Nat
  BY TargetLineStep
<1>1. j - i \in T
  BY <1>0
<1>2. PICK n \in T : \A m \in T : n =< m
  <2>1. T \in SUBSET Nat /\ T # {}
    BY <1>1
  <2> HIDE DEF T
  <2> QED BY <2>1, LeastNatural
<1>3. n \in Nat /\ n # 0 /\ n =< j - i /\ line =< TargetLine(s, i + n)
  BY <1>0, <1>1, <1>2
<1>4. n - 1 \in Nat /\ ~(line =< TargetLine(s, i + (n - 1))) /\ i + (n - 1) + 1 = i + n
  BY <1>2, <1>3
<1>5. /\ TargetLine(s, i + (n - 1)) \in Nat
      /\ TargetLine(s, i + (n - 1) + 1)
         = TargetLine(s, i + (n - 1)) + (IF s[i + (n - 1) + 1] = "-" THEN 0 ELSE 1)
  BY <1>4, TargetLineStep
<1>6. s[i + n] # "-" /\ TargetLine(s, i + n) = line
  BY <1>0, <1>3, <1>4, <1>5
<1> QED BY <1>3, <1>6

-----------------------------------------------------------------------------
(* Runs of positions.                                                      *)

Pairs == Nat \X Nat

\* What ExtendRuns makes of nothing, position by position.
RunsAt(U, S, n) ==
    /\ U \in [0 .. n -> Seq(Pairs)] /\ U[0] = <<>>
    /\ \A k \in 1 .. n : U[k] = ExtendRuns(U[k - 1], k, S)

LEMMA ExtendRunsType ==
    ASSUME NEW runs \in Seq(Pairs), NEW i \in Nat, NEW S
    PROVE  ExtendRuns(runs, i, S) \in Seq(Pairs)
<1>1. CASE i \notin S
  BY <1>1 DEF ExtendRuns
<1>2. CASE i \in S /\ i - 1 \in S
  <2>1. ExtendRuns(runs, i, S) = [runs EXCEPT ![Len(runs)] = <<runs[Len(runs)][1], i>>]
    BY <1>2 DEF ExtendRuns
  <2>2. CASE runs = <<>>
    <3>1. [runs EXCEPT ![Len(runs)] = <<runs[Len(runs)][1], i>>] = runs
      BY <2>2
    <3> QED BY <2>1, <3>1
  <2>3. CASE runs # <<>>
    <3>1. Len(runs) \in 1 .. Len(runs) /\ runs[Len(runs)] \in Pairs
      BY <2>3
    <3>2. <<runs[Len(runs)][1], i>> \in Pairs
      BY <3>1 DEF Pairs
    <3> HIDE DEF Pairs
    <3> QED BY <2>1, <3>1, <3>2
  <2> QED BY <2>2, <2>3
<1>3. CASE i \in S /\ i - 1 \notin S
  <2>1. ExtendRuns(runs, i, S) = Append(runs, <<i, i>>)
    BY <1>3 DEF ExtendRuns
  <2>2. <<i, i>> \in Pairs
    BY DEF Pairs
  <2> QED BY <2>1, <2>2
<1> QED BY <1>1, <1>2, <1>3

LEMMA RunsOfScan ==
    ASSUME NEW S, NEW n \in Nat
    PROVE  \E U : RunsAt(U, S, n) /\ RunsOf(S, n) = U[n]
<1> DEFINE Q == Seq(Pairs)
           f == [e \in (1 .. n) \X Q |-> ExtendRuns(e[2], e[1], S)]
           Is(V) == V = [k \in 0 .. n |-> IF k = 0 THEN <<>> ELSE ExtendRuns(V[k - 1], k, S)]
<1>1. <<>> \in Q
  OBVIOUS
<1>2. \A k \in 1 .. n, x \in Q : f[<<k, x>>] = ExtendRuns(x, k, S)
  OBVIOUS
<1>3. f \in [(1 .. n) \X Q -> Q]
  <2>1. \A e \in (1 .. n) \X Q : ExtendRuns(e[2], e[1], S) \in Q
    BY ExtendRunsType
  <2> HIDE DEF Q
  <2> QED BY <2>1
<1> HIDE DEF f, Q
<1>5. PICK W : Iterates(W, Q, <<>>, f, n)
  BY <1>1, <1>3, Iteration
<1>6. W \in [0 .. n -> Q] /\ W[0] = <<>> /\ \A k \in 1 .. n : W[k] = f[<<k, W[k - 1]>>]
  BY <1>5 DEF Iterates
<1>7. ASSUME NEW k \in 1 .. n PROVE W[k] = ExtendRuns(W[k - 1], k, S)
  <2>1. k - 1 \in 0 .. n
    OBVIOUS
  <2>2. W[k - 1] \in Q
    BY <1>6, <2>1
  <2> QED BY <1>2, <1>6, <2>2
<1>8. Is(W)
  <2>1. \A k \in 0 .. n : W[k] = IF k = 0 THEN <<>> ELSE ExtendRuns(W[k - 1], k, S)
    <3>1. \A k \in 0 .. n : k = 0 \/ k \in 1 .. n
      OBVIOUS
    <3>2. \A k \in 1 .. n : k # 0
      OBVIOUS
    <3> QED BY <1>6, <1>7, <3>1, <3>2
  <2> QED BY <1>6, <2>1
<1> DEFINE U == CHOOSE V : Is(V)
<1>9. RunsOf(S, n) = U[n]
  BY DEF RunsOf
<1> HIDE DEF Is
<1>10. Is(U)
  BY <1>8
<1> HIDE DEF U
<1>11. U = [k \in 0 .. n |-> IF k = 0 THEN <<>> ELSE ExtendRuns(U[k - 1], k, S)]
  BY <1>10 DEF Is
<1>12. \A k \in 0 .. n : U[k] = IF k = 0 THEN <<>> ELSE ExtendRuns(U[k - 1], k, S)
  BY <1>11
<1> DEFINE T == {k \in Nat : k =< n => U[k] \in Q}
<1>13. 0 \in T
  BY <1>1, <1>12
<1>14. ASSUME NEW k \in Nat, k \in T PROVE k + 1 \in T
  <2> SUFFICES ASSUME k + 1 =< n PROVE U[k + 1] \in Q
    OBVIOUS
  <2>1. k + 1 \in 0 .. n /\ U[k] \in Q /\ k + 1 - 1 = k /\ k + 1 # 0
    BY <1>14
  <2>2. U[k + 1] = ExtendRuns(U[k], k + 1, S)
    BY <1>12, <2>1
  <2> QED BY <2>1, <2>2, ExtendRunsType DEF Q
<1> HIDE DEF T
<1>15. Nat \subseteq T
  BY <1>13, <1>14, Induction
<1>16. \A k \in 0 .. n : U[k] \in Q
  BY <1>15 DEF T
<1>17. U \in [0 .. n -> Q]
  BY <1>11, <1>16
<1>18. U[0] = <<>> /\ \A k \in 1 .. n : U[k] = ExtendRuns(U[k - 1], k, S)
  BY <1>12
<1> QED BY <1>9, <1>17, <1>18 DEF RunsAt, Q

\* The maximal runs of a set up to a position, in order.
RunsTo(runs, S, i) ==
    /\ runs \in Seq(Pairs)
    /\ \A k \in 1 .. Len(runs) :
          /\ 1 =< runs[k][1] /\ runs[k][1] =< runs[k][2] /\ runs[k][2] =< i
          /\ \A j \in runs[k][1] .. runs[k][2] : j \in S
          /\ runs[k][1] - 1 \notin S
          /\ runs[k][2] = i \/ runs[k][2] + 1 \notin S
    /\ \A j \in 1 .. i : j \in S => \E k \in 1 .. Len(runs) : j \in runs[k][1] .. runs[k][2]
    /\ \A k, l \in 1 .. Len(runs) : k < l => runs[k][2] < runs[l][1]
    /\ i \in S => Len(runs) > 0 /\ runs[Len(runs)][2] = i

LEMMA RunsGrow ==
    ASSUME NEW i \in Nat, NEW S, 0 \notin S, NEW runs, RunsTo(runs, S, i)
    PROVE  RunsTo(ExtendRuns(runs, i + 1, S), S, i + 1)
<1> DEFINE L == Len(runs)
           new == ExtendRuns(runs, i + 1, S)
<1>1. /\ runs \in Seq(Pairs) /\ L \in Nat
      /\ \A k \in 1 .. L :
          /\ runs[k] \in Pairs
          /\ 1 =< runs[k][1] /\ runs[k][1] =< runs[k][2] /\ runs[k][2] =< i
          /\ \A j \in runs[k][1] .. runs[k][2] : j \in S
          /\ runs[k][1] - 1 \notin S
          /\ runs[k][2] = i \/ runs[k][2] + 1 \notin S
      /\ \A j \in 1 .. i : j \in S => \E k \in 1 .. L : j \in runs[k][1] .. runs[k][2]
      /\ \A k, l \in 1 .. L : k < l => runs[k][2] < runs[l][1]
      /\ i \in S => L > 0 /\ runs[L][2] = i
  BY DEF RunsTo
<1>2. \A k \in 1 .. L : runs[k][1] \in Nat /\ runs[k][2] \in Nat
  BY <1>1 DEF Pairs
<1>3. new \in Seq(Pairs)
  BY <1>1, ExtendRunsType
<1>4. CASE i + 1 \notin S
  <2>1. new = runs
    BY <1>4 DEF ExtendRuns
  <2>2. ASSUME NEW k \in 1 .. L
        PROVE  /\ runs[k][2] =< i + 1
               /\ runs[k][2] = i + 1 \/ runs[k][2] + 1 \notin S
    <3>1. runs[k][2] \in Nat /\ runs[k][2] =< i /\ (runs[k][2] = i \/ runs[k][2] + 1 \notin S)
      BY <1>1, <1>2
    <3> QED BY <1>4, <3>1
  <2>3. \A j \in 1 .. i + 1 : j \in S => j \in 1 .. i
    BY <1>4
  <2> QED BY <1>1, <1>4, <2>1, <2>2, <2>3 DEF RunsTo
<1>5. CASE i + 1 \in S /\ i \in S
  <2> DEFINE last == <<runs[L][1], i + 1>>
  <2>0. L \in 1 .. L /\ runs[L][2] = i /\ i + 1 - 1 = i
    BY <1>1, <1>5
  <2>1. new = [runs EXCEPT ![L] = last]
    BY <1>5, <2>0 DEF ExtendRuns
  <2>2. Len(new) = L /\ new[L] = last /\ \A k \in 1 .. L : k # L => new[k] = runs[k]
    BY <1>1, <2>0, <2>1
  <2> HIDE DEF new
  <2>3. new[L][1] = runs[L][1] /\ new[L][2] = i + 1
    BY <2>2
  <2>4. ASSUME NEW k \in 1 .. L
        PROVE  /\ 1 =< new[k][1] /\ new[k][1] =< new[k][2] /\ new[k][2] =< i + 1
               /\ \A j \in new[k][1] .. new[k][2] : j \in S
               /\ new[k][1] - 1 \notin S
               /\ new[k][2] = i + 1 \/ new[k][2] + 1 \notin S
    <3>1. CASE k = L
      <4>1. \A j \in runs[L][1] .. i + 1 : j \in runs[L][1] .. i \/ j = i + 1
        BY <1>2, <2>0
      <4>2. 1 =< runs[L][1] /\ runs[L][1] =< i /\ runs[L][1] \in Nat
        BY <1>1, <1>2, <2>0
      <4> QED BY <1>1, <1>5, <2>0, <2>3, <3>1, <4>1, <4>2
    <3>2. CASE k # L
      <4>1. new[k] = runs[k] /\ k < L
        BY <1>1, <2>2, <3>2
      <4>2. runs[k][2] < runs[L][1] /\ runs[L][1] =< i
        BY <1>1, <2>0, <4>1
      <4>3. runs[k][2] # i /\ runs[k][2] =< i + 1
        BY <1>2, <2>0, <4>2
      <4> QED BY <1>1, <4>1, <4>3
    <3> QED BY <3>1, <3>2
  <2>5. ASSUME NEW j \in 1 .. i + 1, j \in S
        PROVE  \E k \in 1 .. L : j \in new[k][1] .. new[k][2]
    <3>1. CASE j = i + 1
      <4>1. j \in new[L][1] .. new[L][2]
        BY <1>1, <1>2, <2>0, <2>3, <3>1
      <4> QED BY <2>0, <4>1
    <3>2. CASE j # i + 1
      <4>1. PICK k \in 1 .. L : j \in runs[k][1] .. runs[k][2]
        BY <1>1, <2>5, <3>2
      <4>2. CASE k = L
        <5>1. j \in new[L][1] .. new[L][2]
          BY <1>2, <2>0, <2>3, <4>1, <4>2
        <5> QED BY <2>0, <5>1
      <4>3. CASE k # L
        BY <2>2, <4>1, <4>3
      <4> QED BY <4>2, <4>3
    <3> QED BY <3>1, <3>2
  <2>6. ASSUME NEW k \in 1 .. L, NEW l \in 1 .. L, k < l PROVE new[k][2] < new[l][1]
    <3>1. k # L /\ new[k] = runs[k]
      BY <1>1, <2>2, <2>6
    <3>2. new[l][1] = runs[l][1]
      BY <2>2, <2>3
    <3> QED BY <1>1, <2>6, <3>1, <3>2
  <2>7. L > 0
    BY <1>1, <2>0
  <2>8. new \in Seq(Pairs)
    BY <1>3 DEF new
  <2>9. RunsTo(new, S, i + 1)
    BY <2>2, <2>3, <2>4, <2>5, <2>6, <2>7, <2>8 DEF RunsTo
  <2> QED BY <2>9 DEF new
<1>6. CASE i + 1 \in S /\ i \notin S
  <2>0. i + 1 - 1 = i
    OBVIOUS
  <2>1. new = Append(runs, <<i + 1, i + 1>>)
    BY <1>6, <2>0 DEF ExtendRuns
  <2>2. Len(new) = L + 1 /\ new[L + 1] = <<i + 1, i + 1>> /\ \A k \in 1 .. L : new[k] = runs[k]
    BY <1>1, <2>1
  <2> HIDE DEF new
  <2>3. new[L + 1][1] = i + 1 /\ new[L + 1][2] = i + 1
    BY <2>2
  <2>4. \A k \in 1 .. L + 1 : k \in 1 .. L \/ k = L + 1
    BY <1>1
  <2>5. ASSUME NEW k \in 1 .. L + 1
        PROVE  /\ 1 =< new[k][1] /\ new[k][1] =< new[k][2] /\ new[k][2] =< i + 1
               /\ \A j \in new[k][1] .. new[k][2] : j \in S
               /\ new[k][1] - 1 \notin S
               /\ new[k][2] = i + 1 \/ new[k][2] + 1 \notin S
    <3>1. CASE k = L + 1
      <4>1. \A j \in i + 1 .. i + 1 : j = i + 1
        OBVIOUS
      <4> QED BY <1>6, <2>0, <2>3, <3>1, <4>1
    <3>2. CASE k \in 1 .. L
      <4>1. runs[k][2] \in S
        BY <1>1, <1>2, <3>2
      <4>2. runs[k][2] # i /\ runs[k][2] =< i + 1
        BY <1>1, <1>2, <1>6, <3>2, <4>1
      <4> QED BY <1>1, <2>2, <3>2, <4>2
    <3> QED BY <2>4, <3>1, <3>2
  <2>6. ASSUME NEW j \in 1 .. i + 1, j \in S
        PROVE  \E k \in 1 .. L + 1 : j \in new[k][1] .. new[k][2]
    <3>1. CASE j = i + 1
      <4>1. L + 1 \in 1 .. L + 1 /\ j \in new[L + 1][1] .. new[L + 1][2]
        BY <1>1, <2>3, <3>1
      <4> QED BY <4>1
    <3>2. CASE j # i + 1
      <4>1. PICK k \in 1 .. L : j \in runs[k][1] .. runs[k][2]
        BY <1>1, <2>6, <3>2
      <4>2. k \in 1 .. L + 1 /\ new[k] = runs[k]
        BY <1>1, <2>2
      <4> QED BY <4>1, <4>2
    <3> QED BY <3>1, <3>2
  <2>7. ASSUME NEW k \in 1 .. L + 1, NEW l \in 1 .. L + 1, k < l PROVE new[k][2] < new[l][1]
    <3>1. k \in 1 .. L /\ new[k] = runs[k]
      BY <1>1, <2>2, <2>4, <2>7
    <3>2. CASE l = L + 1
      <4>1. runs[k][2] =< i /\ runs[k][2] \in Nat /\ new[l][1] = i + 1
        BY <1>1, <1>2, <2>3, <3>1, <3>2
      <4> QED BY <3>1, <4>1
    <3>3. CASE l \in 1 .. L
      BY <1>1, <2>2, <2>7, <3>1, <3>3
    <3> QED BY <2>4, <3>2, <3>3
  <2>8. L + 1 > 0
    BY <1>1
  <2> QED BY <1>3, <2>2, <2>3, <2>5, <2>6, <2>7, <2>8 DEF RunsTo, new
<1> QED BY <1>4, <1>5, <1>6

LEMMA RunsAreMaximal ==
    ASSUME NEW n \in Nat, NEW S, 0 \notin S, NEW U, RunsAt(U, S, n)
    PROVE  \A i \in 0 .. n : RunsTo(U[i], S, i)
<1> DEFINE T == {i \in Nat : i =< n => RunsTo(U[i], S, i)}
<1>1. 0 \in T
  <2>1. U[0] = <<>> /\ Len(<<>>) = 0
    BY DEF RunsAt
  <2>2. RunsTo(<<>>, S, 0)
    <3>1. <<>> \in Seq(Pairs) /\ Len(<<>>) = 0 /\ 1 .. 0 = {}
      OBVIOUS
    <3> QED BY <3>1 DEF RunsTo
  <2> QED BY <2>1, <2>2
<1>2. ASSUME NEW i \in Nat, i \in T PROVE i + 1 \in T
  <2> SUFFICES ASSUME i + 1 =< n PROVE RunsTo(U[i + 1], S, i + 1)
    OBVIOUS
  <2>1. i + 1 \in 1 .. n /\ i + 1 - 1 = i /\ RunsTo(U[i], S, i)
    BY <1>2
  <2>2. U[i + 1] = ExtendRuns(U[i], i + 1, S)
    BY <2>1 DEF RunsAt
  <2> QED BY <2>1, <2>2, RunsGrow
<1> HIDE DEF T
<1>3. Nat \subseteq T
  BY <1>1, <1>2, Induction
<1> QED BY <1>3 DEF T

-----------------------------------------------------------------------------
(* The ranges of a hunk, against the runs of changed lines.                *)

Tidy(s) == Returns(s) = {}
\* Where the numbers of a file's lines start: an empty file has line 0 only.
Base(s) == IF TargetLine(s, Len(s)) = 0 THEN 0 ELSE 1
Top(s) == TargetLine(s, Len(s)) + ReturnsTo(s, Len(s)) + Base(s)

\* What a run of changed lines is reported as.
RangeOf(s, r) ==
    LET first == TargetLine(s, r[1] - 1) + Base(s) IN <<first, Most(first, TargetLine(s, r[2]))>>

ScanState ==
    [at : Int, open : BOOLEAN, from : Int, first : Int, last : Int, ranges : Seq(Int \X Int)]

RangeOK(s, r, changed) ==
    /\ r \in Int \X Int /\ Base(s) =< r[1] /\ r[1] =< r[2] /\ r[2] =< Top(s)
    /\ Tidy(s) => r = RangeOf(s, changed)

\* The ranges so far are those of the runs from one place to another.
PartOK(s, rs, R, base, m) ==
    /\ rs \in Seq(Int \X Int) /\ base + Len(rs) = m
    /\ \A k \in 1 .. Len(rs) : RangeOK(s, rs[k], R[base + k])

\* The range under way, of a run that started at p.
OpenOK(s, acc, p, i) ==
    /\ Base(s) =< acc.from /\ acc.from =< acc.at
    /\ acc.first # NoPlus =>
          Base(s) =< acc.first /\ acc.first =< acc.last /\ acc.last < acc.at
    /\ Tidy(s) =>
          /\ acc.from = TargetLine(s, p - 1) + Base(s)
          /\ IF TargetLine(s, i) = TargetLine(s, p - 1) THEN acc.first = NoPlus
             ELSE acc.first = acc.from /\ acc.last = TargetLine(s, i) + Base(s) - 1

AtOK(s, at, i) ==
    /\ Base(s) =< at /\ at =< TargetLine(s, i) + ReturnsTo(s, i) + Base(s)
    /\ Tidy(s) => at = TargetLine(s, i) + Base(s)

ScanOK(s, acc, R, base, i) ==
    /\ acc \in ScanState
    /\ AtOK(s, acc.at, i)
    /\ acc.open <=> i \in Changed(s)
    /\ acc.open => /\ PartOK(s, acc.ranges, R, base, Len(R) - 1)
                   /\ OpenOK(s, acc, R[Len(R)][1], i)
    /\ ~acc.open => PartOK(s, acc.ranges, R, base, Len(R)) /\ acc.first = NoPlus

LEMMA Counts ==
    ASSUME NEW s, NEW i \in Nat
    PROVE  /\ TargetLine(s, i) \in Nat /\ ReturnsTo(s, i) \in Nat
           /\ Len(s) \in Nat /\ i =< Len(s) =>
                 /\ TargetLine(s, i) =< TargetLine(s, Len(s)) /\ ReturnsTo(s, i) =< ReturnsTo(s, Len(s))
           /\ Len(s) \in Nat => Base(s) \in {0, 1} /\ Top(s) \in Nat
<1>1. TargetLine(s, i) \in Nat /\ ReturnsTo(s, i) \in Nat
  BY TargetLineStep, ReturnsStep
<1>2. ASSUME Len(s) \in Nat PROVE TargetLine(s, Len(s)) \in Nat /\ ReturnsTo(s, Len(s)) \in Nat
  BY <1>2, TargetLineStep, ReturnsStep
<1>3. ASSUME Len(s) \in Nat, i =< Len(s)
      PROVE  TargetLine(s, i) =< TargetLine(s, Len(s)) /\ ReturnsTo(s, i) =< ReturnsTo(s, Len(s))
  BY <1>3, LinesGoUp
<1> QED BY <1>1, <1>2, <1>3 DEF Base, Top

\* Closing a run.
LEMMA FlushCloses ==
    ASSUME NEW s \in Seq(Letter), NEW i \in Nat, i =< Len(s), NEW R, RunsTo(R, Changed(s), i),
           NEW base \in Nat, NEW acc, ScanOK(s, acc, R, base, i)
    PROVE  /\ Flush(acc) \in ScanState /\ Flush(acc).at = acc.at
           /\ ~Flush(acc).open /\ Flush(acc).first = NoPlus
           /\ PartOK(s, Flush(acc).ranges, R, base, Len(R))
<1>1. CASE ~acc.open
  BY <1>1 DEF ScanOK, Flush
<1>2. CASE acc.open
  <2> DEFINE r == IF acc.first # NoPlus THEN <<acc.first, acc.last>> ELSE <<acc.from, acc.from>>
             L == Len(R)
             p == R[L][1]
             rs == acc.ranges
  <2>1. /\ acc \in ScanState /\ i \in Changed(s) /\ AtOK(s, acc.at, i)
        /\ PartOK(s, rs, R, base, L - 1) /\ OpenOK(s, acc, p, i)
    BY <1>2 DEF ScanOK
  <2>2. L > 0 /\ L \in Nat /\ R[L][2] = i /\ p \in Nat /\ 1 =< p /\ p =< i
    <3>1. R \in Seq(Pairs) /\ L > 0 /\ R[L][2] = i
      BY <2>1 DEF RunsTo
    <3>2. L \in 1 .. L
      BY <3>1
    <3>3. R[L] \in Pairs
      BY <3>1, <3>2
    <3> QED BY <3>1, <3>2, <3>3 DEF RunsTo, Pairs
  <2>3. p - 1 \in Nat
    BY <2>2
  <2>4. /\ TargetLine(s, i) \in Nat /\ ReturnsTo(s, i) \in Nat
        /\ TargetLine(s, i) =< TargetLine(s, Len(s)) /\ ReturnsTo(s, i) =< ReturnsTo(s, Len(s))
        /\ TargetLine(s, Len(s)) \in Nat /\ ReturnsTo(s, Len(s)) \in Nat
        /\ Base(s) \in {0, 1} /\ Top(s) \in Nat
    BY Counts
  <2>5. TargetLine(s, p - 1) \in Nat /\ TargetLine(s, p - 1) =< TargetLine(s, i)
    BY <2>2, <2>3, LinesGoUp, Counts
  <2>6. acc.at \in Int /\ acc.from \in Int /\ acc.first \in Int /\ acc.last \in Int /\ rs \in Seq(Int \X Int)
    BY <2>1 DEF ScanState
  <2>7. r \in Int \X Int /\ Base(s) =< r[1] /\ r[1] =< r[2] /\ r[2] =< Top(s)
    <3>1. acc.at =< Top(s) /\ Base(s) =< acc.from /\ acc.from =< acc.at
      <4>1. Base(s) =< acc.from /\ acc.from =< acc.at
        BY <2>1 DEF OpenOK
      <4>2. acc.at =< TargetLine(s, i) + ReturnsTo(s, i) + Base(s)
        BY <2>1 DEF AtOK
      <4>3. Top(s) = TargetLine(s, Len(s)) + ReturnsTo(s, Len(s)) + Base(s)
        BY DEF Top
      <4>4. TargetLine(s, i) + ReturnsTo(s, i) + Base(s) =< TargetLine(s, Len(s)) + ReturnsTo(s, Len(s)) + Base(s)
        BY <2>4
      <4>5. TargetLine(s, i) + ReturnsTo(s, i) + Base(s) \in Int
        BY <2>4
      <4>6. acc.at =< Top(s)
        BY SMTT(20), <2>4, <2>6, <4>2, <4>3, <4>4, <4>5
      <4> QED BY <4>1, <4>6
    <3>2. CASE acc.first # NoPlus
      <4>1. Base(s) =< acc.first /\ acc.first =< acc.last /\ acc.last < acc.at
        BY <2>1, <3>2 DEF OpenOK
      <4> QED BY <2>4, <2>6, <3>1, <3>2, <4>1
    <3>3. CASE acc.first = NoPlus
      BY <2>4, <2>6, <3>1, <3>3
    <3> QED BY <3>2, <3>3
  <2>8. ASSUME Tidy(s) PROVE r = RangeOf(s, R[L])
    <3>1. acc.from = TargetLine(s, p - 1) + Base(s)
      BY <2>1, <2>8 DEF OpenOK
    <3>2. RangeOf(s, R[L]) = <<TargetLine(s, p - 1) + Base(s),
                               Most(TargetLine(s, p - 1) + Base(s), TargetLine(s, i))>>
      BY <2>2 DEF RangeOf
    <3>3. CASE TargetLine(s, i) = TargetLine(s, p - 1)
      <4>1. acc.first = NoPlus
        BY <2>1, <2>8, <3>3 DEF OpenOK
      <4>2. Most(TargetLine(s, p - 1) + Base(s), TargetLine(s, i)) = TargetLine(s, p - 1) + Base(s)
        BY <2>4, <2>5, <3>3 DEF Most
      <4> QED BY <3>1, <3>2, <4>1, <4>2
    <3>4. CASE TargetLine(s, i) # TargetLine(s, p - 1)
      <4>1. acc.first = acc.from /\ acc.last = TargetLine(s, i) + Base(s) - 1
        BY <2>1, <2>8, <3>4 DEF OpenOK
      <4>2. Base(s) = 1
        BY <2>4, <2>5, <3>4 DEF Base
      <4>3. acc.first # NoPlus
        BY <2>5, <3>1, <4>1, <4>2 DEF NoPlus
      <4>4. Most(TargetLine(s, p - 1) + Base(s), TargetLine(s, i)) = TargetLine(s, i)
        BY <2>4, <2>5, <3>4, <4>2 DEF Most
      <4>5. acc.last = TargetLine(s, i)
        BY <2>4, <4>1, <4>2
      <4> QED BY <3>1, <3>2, <4>1, <4>3, <4>4, <4>5
    <3> QED BY <3>3, <3>4
  <2>9. RangeOK(s, r, R[L])
    BY <2>7, <2>8 DEF RangeOK
  <2> DEFINE new == Append(rs, r)
  <2>10. Flush(acc) = [acc EXCEPT !.open = FALSE, !.first = NoPlus, !.ranges = new]
    BY <1>2 DEF Flush
  <2> HIDE DEF r
  <2>11. new \in Seq(Int \X Int)
    BY <2>6, <2>7
  <2>12. Len(new) = Len(rs) + 1 /\ new[Len(rs) + 1] = r /\ \A k \in 1 .. Len(rs) : new[k] = rs[k]
    BY <2>6, <2>7
  <2> HIDE DEF new
  <2>13. /\ Flush(acc) \in ScanState /\ Flush(acc).at = acc.at
         /\ ~Flush(acc).open /\ Flush(acc).first = NoPlus /\ Flush(acc).ranges = new
    <3> DEFINE RR == Seq(Int \X Int)
    <3>1. /\ acc \in [at : Int, open : BOOLEAN, from : Int, first : Int, last : Int, ranges : RR]
          /\ new \in RR /\ NoPlus \in Int
      BY <2>1, <2>11 DEF ScanState, NoPlus
    <3> HIDE DEF RR
    <3>2. Flush(acc) \in [at : Int, open : BOOLEAN, from : Int, first : Int, last : Int, ranges : RR]
      BY <2>10, <3>1
    <3>3. /\ Flush(acc).at = acc.at /\ Flush(acc).open = FALSE
          /\ Flush(acc).first = NoPlus /\ Flush(acc).ranges = new
      BY <2>10, <3>1
    <3> QED BY <3>2, <3>3 DEF RR, ScanState
  <2>14. PartOK(s, new, R, base, L)
    <3>1. Len(rs) \in Nat /\ base + Len(rs) = L - 1
      BY <2>1, <2>6 DEF PartOK
    <3>2. base + Len(new) = L /\ base + (Len(rs) + 1) = L
      BY SMTT(20), <2>2, <2>12, <3>1
    <3>3. ASSUME NEW k \in 1 .. Len(new) PROVE RangeOK(s, new[k], R[base + k])
      <4>1. CASE k = Len(rs) + 1
        BY <2>9, <2>12, <3>2, <4>1
      <4>2. CASE k \in 1 .. Len(rs)
        BY <2>1, <2>12, <4>2 DEF PartOK
      <4> QED BY <2>12, <3>1, <4>1, <4>2
    <3> QED BY <2>11, <3>2, <3>3 DEF PartOK
  <2> QED BY <2>13, <2>14
<1> QED BY <1>1, <1>2

LEMMA PartKept ==
    ASSUME NEW s, NEW rs, NEW R, NEW base \in Nat, NEW m, PartOK(s, rs, R, base, m),
           NEW V, \A j \in 1 .. m : V[j] = R[j]
    PROVE  PartOK(s, rs, V, base, m)
<1>1. rs \in Seq(Int \X Int) /\ base + Len(rs) = m /\ Len(rs) \in Nat
  BY DEF PartOK
<1>2. ASSUME NEW k \in 1 .. Len(rs) PROVE RangeOK(s, rs[k], V[base + k])
  <2>1. base + k \in 1 .. m
    BY <1>1
  <2>2. RangeOK(s, rs[k], R[base + k])
    BY DEF PartOK
  <2> QED BY <2>1, <2>2
<1> QED BY <1>1, <1>2 DEF PartOK

\* What the runs of changed lines become with one more line.
Grown(V, R, S, i) ==
    LET L == Len(R)
    IN  /\ L \in Nat
        /\ i + 1 \notin S => V = R
        /\ i + 1 \in S /\ i \in S =>
              /\ L > 0 /\ Len(V) = L /\ V[L][1] = R[L][1] /\ \A k \in 1 .. L - 1 : V[k] = R[k]
              /\ R[L][1] \in Nat /\ 1 =< R[L][1] /\ R[L][1] =< i
        /\ i + 1 \in S /\ i \notin S =>
              Len(V) = L + 1 /\ V[L + 1][1] = i + 1 /\ \A k \in 1 .. L : V[k] = R[k]

LEMMA RunsNext ==
    ASSUME NEW S, NEW i \in Nat, NEW R, RunsTo(R, S, i)
    PROVE  Grown(ExtendRuns(R, i + 1, S), R, S, i)
<1> DEFINE V == ExtendRuns(R, i + 1, S)
           L == Len(R)
<1>1. R \in Seq(Pairs) /\ L \in Nat /\ i + 1 - 1 = i
  BY DEF RunsTo
<1>2. CASE i + 1 \notin S
  BY <1>1, <1>2 DEF ExtendRuns, Grown
<1>3. CASE i + 1 \in S /\ i \in S
  <2>1. L > 0 /\ L \in 1 .. L
    BY <1>1, <1>3 DEF RunsTo
  <2>2. R[L] \in Pairs /\ 1 =< R[L][1] /\ R[L][1] =< R[L][2] /\ R[L][2] =< i
    BY <1>1, <2>1 DEF RunsTo
  <2>3. R[L][1] \in Nat /\ R[L][2] \in Nat
    BY <2>2 DEF Pairs
  <2>4. V = [R EXCEPT ![L] = <<R[L][1], i + 1>>]
    <3>1. i + 1 - 1 \in S
      BY <1>1, <1>3
    <3> QED BY SMTT(20), <1>3, <3>1 DEF ExtendRuns
  <2>5. Len(V) = L /\ V[L] = <<R[L][1], i + 1>> /\ \A k \in 1 .. L - 1 : V[k] = R[k]
    BY <1>1, <2>1, <2>4
  <2> HIDE DEF V
  <2>6. V[L][1] = R[L][1]
    BY <2>5
  <2>7. Grown(V, R, S, i)
    BY <1>1, <1>3, <2>1, <2>2, <2>3, <2>5, <2>6 DEF Grown
  <2> QED BY <2>7 DEF V
<1>4. CASE i + 1 \in S /\ i \notin S
  <2>1. V = Append(R, <<i + 1, i + 1>>)
    <3>1. i + 1 - 1 \notin S
      BY <1>1, <1>4
    <3> QED BY SMTT(20), <1>4, <3>1 DEF ExtendRuns
  <2>2. Len(V) = L + 1 /\ V[L + 1] = <<i + 1, i + 1>> /\ \A k \in 1 .. L : V[k] = R[k]
    BY <1>1, <2>1
  <2> HIDE DEF V
  <2>3. V[L + 1][1] = i + 1
    BY <2>2
  <2>4. Grown(V, R, S, i)
    BY <1>1, <1>4, <2>2, <2>3 DEF Grown
  <2> QED BY <2>4 DEF V
<1> QED BY <1>2, <1>3, <1>4

\* What a line of either kind sets.
LEMMA ScanSets ==
    ASSUME NEW acc \in ScanState
    PROVE  /\ LET a == ScanLine(acc, "+")
              IN  /\ a \in ScanState /\ a.open /\ a.ranges = acc.ranges /\ a.at = acc.at + 1 /\ a.last = acc.at
                  /\ a.from = IF acc.open THEN acc.from ELSE acc.at
                  /\ a.first = IF acc.first = NoPlus THEN acc.at ELSE acc.first
           /\ LET a == ScanLine(acc, "-")
              IN  /\ a \in ScanState /\ a.open /\ a.ranges = acc.ranges /\ a.at = acc.at
                  /\ a.last = acc.last /\ a.first = acc.first
                  /\ a.from = IF acc.open THEN acc.from ELSE acc.at
           /\ Flush(acc) \in ScanState =>
                 LET a == ScanLine(acc, "=")
                 IN  /\ a \in ScanState /\ a.open = Flush(acc).open /\ a.ranges = Flush(acc).ranges
                     /\ a.at = Flush(acc).at + 1 /\ a.first = Flush(acc).first
           /\ Flush(acc) \in ScanState =>
                 LET a == ScanLine(acc, "c")
                 IN  /\ a \in ScanState /\ a.open = Flush(acc).open /\ a.ranges = Flush(acc).ranges
                     /\ a.at = Flush(acc).at + 2 /\ a.first = Flush(acc).first
<1> DEFINE RR == Seq(Int \X Int)
           SS == [at : Int, open : BOOLEAN, from : Int, first : Int, last : Int, ranges : RR]
<1>0. ScanState = SS
  BY DEF ScanState
<1> HIDE DEF RR
<1>1. Opened(acc) = IF acc.open THEN acc ELSE [acc EXCEPT !.open = TRUE, !.from = acc.at]
  BY DEF Opened
<1>2. /\ Opened(acc) \in SS /\ Opened(acc).open /\ Opened(acc).ranges = acc.ranges
      /\ Opened(acc).at = acc.at /\ Opened(acc).last = acc.last /\ Opened(acc).first = acc.first
      /\ Opened(acc).from = IF acc.open THEN acc.from ELSE acc.at
  BY <1>0, <1>1
<1>3. LET a == ScanLine(acc, "+")
      IN  /\ a \in SS /\ a.open /\ a.ranges = acc.ranges /\ a.at = acc.at + 1 /\ a.last = acc.at
          /\ a.from = IF acc.open THEN acc.from ELSE acc.at
          /\ a.first = IF acc.first = NoPlus THEN acc.at ELSE acc.first
  <2>1. ScanLine(acc, "+") = [Opened(acc) EXCEPT !.first = IF Opened(acc).first = NoPlus THEN acc.at ELSE Opened(acc).first,
                                                 !.last = acc.at, !.at = Opened(acc).at + 1]
    BY DEF ScanLine
  <2>2. PICK o : o = Opened(acc)
    OBVIOUS
  <2>3. PICK v : v = IF o.first = NoPlus THEN acc.at ELSE o.first
    OBVIOUS
  <2>4. PICK w : w = acc.at
    OBVIOUS
  <2>5. PICK a : a = ScanLine(acc, "+")
    OBVIOUS
  <2>6. /\ o \in SS /\ o.open /\ o.ranges = acc.ranges /\ o.at = acc.at /\ o.first = acc.first
        /\ o.from = IF acc.open THEN acc.from ELSE acc.at
    BY <1>2, <2>2
  <2>7. w \in Int /\ v \in Int /\ v = IF acc.first = NoPlus THEN acc.at ELSE acc.first
    BY <1>0, <2>3, <2>4, <2>6
  <2>8. a = [o EXCEPT !.first = v, !.last = w, !.at = o.at + 1]
    BY <2>1, <2>2, <2>3, <2>4, <2>5
  <2>9. PICK b : b = [o EXCEPT !.first = v]
    OBVIOUS
  <2>10. b \in SS /\ b.open = o.open /\ b.ranges = o.ranges /\ b.at = o.at /\ b.from = o.from /\ b.first = v
    BY <2>6, <2>7, <2>9
  <2>11. PICK c : c = [b EXCEPT !.last = w]
    OBVIOUS
  <2>12. /\ c \in SS /\ c.open = b.open /\ c.ranges = b.ranges /\ c.at = b.at
         /\ c.from = b.from /\ c.first = b.first /\ c.last = w
    BY <2>7, <2>10, <2>11
  <2>13. a = [c EXCEPT !.at = o.at + 1]
    BY <2>8, <2>9, <2>11
  <2>14. /\ a \in SS /\ a.open = c.open /\ a.ranges = c.ranges /\ a.at = o.at + 1
         /\ a.from = c.from /\ a.first = c.first /\ a.last = c.last
    BY <2>6, <2>12, <2>13
  <2> HIDE DEF SS
  <2> QED BY <2>4, <2>5, <2>6, <2>7, <2>10, <2>12, <2>14
<1>4. ScanLine(acc, "-") = Opened(acc)
  BY DEF ScanLine
<1>5. ScanLine(acc, "=") = [Flush(acc) EXCEPT !.at = Flush(acc).at + 1]
  BY DEF ScanLine
<1>6. ScanLine(acc, "c") = [Flush(acc) EXCEPT !.at = Flush(acc).at + 2]
  BY DEF ScanLine
<1>7. ASSUME NEW f \in SS, NEW d \in Nat, NEW a, a = [f EXCEPT !.at = f.at + d]
      PROVE  a \in SS /\ a.open = f.open /\ a.ranges = f.ranges /\ a.at = f.at + d /\ a.first = f.first
  BY <1>7
<1>8. 1 \in Nat /\ 2 \in Nat
  OBVIOUS
<1> HIDE DEF SS
<1>9. Flush(acc) \in SS =>
        LET a == ScanLine(acc, "=")
        IN  /\ a \in SS /\ a.open = Flush(acc).open /\ a.ranges = Flush(acc).ranges
            /\ a.at = Flush(acc).at + 1 /\ a.first = Flush(acc).first
  BY <1>5, <1>7, <1>8
<1>10. Flush(acc) \in SS =>
        LET a == ScanLine(acc, "c")
        IN  /\ a \in SS /\ a.open = Flush(acc).open /\ a.ranges = Flush(acc).ranges
            /\ a.at = Flush(acc).at + 2 /\ a.first = Flush(acc).first
  BY <1>6, <1>7, <1>8
<1> QED BY <1>0, <1>2, <1>3, <1>4, <1>9, <1>10

LEMMA AtMoves ==
    ASSUME NEW s, NEW i, NEW j, NEW at \in Int, NEW d \in {0, 1}, NEW new, new = at + d,
           TargetLine(s, i) \in Int, ReturnsTo(s, i) \in Int, Base(s) \in Int, AtOK(s, at, i),
           TargetLine(s, j) = TargetLine(s, i) + d, ReturnsTo(s, j) = ReturnsTo(s, i)
    PROVE  AtOK(s, new, j)
<1>1. Base(s) =< new /\ new =< TargetLine(s, j) + ReturnsTo(s, j) + Base(s)
  BY DEF AtOK
<1>2. ASSUME Tidy(s) PROVE new = TargetLine(s, j) + Base(s)
  BY <1>2 DEF AtOK
<1> QED BY <1>1, <1>2 DEF AtOK

\* One more line of a hunk.
LEMMA ScanStep ==
    ASSUME NEW s \in Seq(Letter), NEW i \in Nat, i + 1 =< Len(s), NEW R, RunsTo(R, Changed(s), i),
           NEW base \in Nat, NEW acc, ScanOK(s, acc, R, base, i)
    PROVE  ScanOK(s, ScanLine(acc, s[i + 1]), ExtendRuns(R, i + 1, Changed(s)), base, i + 1)
<1> DEFINE S == Changed(s)
           V == ExtendRuns(R, i + 1, S)
           L == Len(R)
           new == ScanLine(acc, s[i + 1])
           p == R[L][1]
<1>1. /\ TargetLine(s, i) \in Nat /\ ReturnsTo(s, i) \in Nat
      /\ TargetLine(s, i + 1) = TargetLine(s, i) + (IF s[i + 1] = "-" THEN 0 ELSE 1)
      /\ ReturnsTo(s, i + 1) = ReturnsTo(s, i) + (IF s[i + 1] = "c" THEN 1 ELSE 0)
      /\ Base(s) \in {0, 1} /\ Len(s) \in Nat
  BY TargetLineStep, ReturnsStep, Counts
<1>2. i + 1 \in 1 .. Len(s) /\ s[i + 1] \in Letter /\ DOMAIN s = 1 .. Len(s)
  BY <1>1
<1>3. i + 1 \in S <=> s[i + 1] \in {"+", "-"}
  BY <1>2 DEF Changed
<1>4. /\ acc \in ScanState /\ AtOK(s, acc.at, i) /\ (acc.open <=> i \in S)
      /\ acc.open => PartOK(s, acc.ranges, R, base, L - 1) /\ OpenOK(s, acc, p, i)
      /\ ~acc.open => PartOK(s, acc.ranges, R, base, L) /\ acc.first = NoPlus
  BY DEF ScanOK
<1>5. acc.at \in Int /\ acc.from \in Int /\ acc.first \in Int /\ acc.last \in Int
  BY <1>4 DEF ScanState
<1>6. /\ L \in Nat
      /\ i + 1 \notin S => V = R
      /\ i + 1 \in S /\ i \in S =>
            /\ L > 0 /\ Len(V) = L /\ V[L][1] = R[L][1] /\ \A k \in 1 .. L - 1 : V[k] = R[k]
            /\ R[L][1] \in Nat /\ 1 =< R[L][1] /\ R[L][1] =< i
      /\ i + 1 \in S /\ i \notin S =>
            Len(V) = L + 1 /\ V[L + 1][1] = i + 1 /\ \A k \in 1 .. L : V[k] = R[k]
  <2>1. Grown(V, R, S, i)
    BY RunsNext
  <2> HIDE DEF S, V
  <2> QED BY <2>1 DEF Grown
<1>7. Tidy(s) => s[i + 1] # "c"
  BY <1>2 DEF Tidy, Returns
<1>10. TargetLine(s, i) \in Int /\ ReturnsTo(s, i) \in Int /\ Base(s) \in Int
  BY <1>1
<1>8. CASE s[i + 1] \in {"=", "c"}
  <2>1. /\ Flush(acc) \in ScanState /\ Flush(acc).at = acc.at
        /\ ~Flush(acc).open /\ Flush(acc).first = NoPlus
        /\ PartOK(s, Flush(acc).ranges, R, base, L)
    BY <1>1, FlushCloses
  <2>2. V = R /\ i + 1 \notin S
    BY <1>3, <1>6, <1>8
  <2>3. /\ new \in ScanState /\ ~new.open /\ new.ranges = Flush(acc).ranges /\ new.first = NoPlus
        /\ new.at = acc.at + (IF s[i + 1] = "c" THEN 2 ELSE 1)
    <3>1. CASE s[i + 1] = "="
      BY <1>4, <2>1, <3>1, ScanSets
    <3>2. CASE s[i + 1] = "c"
      BY <1>4, <2>1, <3>2, ScanSets
    <3> QED BY <1>8, <3>1, <3>2
  <2> HIDE DEF new, V
  <2>4. AtOK(s, new.at, i + 1)
    <3>0. /\ Base(s) =< acc.at /\ acc.at =< TargetLine(s, i) + ReturnsTo(s, i) + Base(s)
          /\ Tidy(s) => acc.at = TargetLine(s, i) + Base(s)
      BY <1>4 DEF AtOK
    <3>1. CASE s[i + 1] = "="
      <4>1. /\ TargetLine(s, i + 1) = TargetLine(s, i) + 1 /\ ReturnsTo(s, i + 1) = ReturnsTo(s, i)
            /\ new.at = acc.at + 1
        BY <1>1, <2>3, <3>1
      <4> QED BY <1>4, <1>5, <1>10, <4>1, AtMoves
    <3>2. CASE s[i + 1] = "c"
      <4>1. /\ TargetLine(s, i + 1) = TargetLine(s, i) + 1 /\ ReturnsTo(s, i + 1) = ReturnsTo(s, i) + 1
            /\ new.at = acc.at + 2
        BY <1>1, <2>3, <3>2
      <4>2. ~Tidy(s)
        BY <1>7, <3>2
      <4>3. Base(s) =< new.at
        BY <1>5, <1>10, <3>0, <4>1
      <4>4. new.at =< TargetLine(s, i + 1) + ReturnsTo(s, i + 1) + Base(s)
        BY <1>5, <1>10, <3>0, <4>1
      <4> QED BY <4>2, <4>3, <4>4 DEF AtOK
    <3> QED BY <1>8, <3>1, <3>2
  <2>5. ScanOK(s, new, V, base, i + 1)
    BY <2>1, <2>2, <2>3, <2>4 DEF ScanOK
  <2> QED BY <2>5 DEF new, V
<1>9. CASE s[i + 1] \in {"+", "-"}
  <2>1. i + 1 \in S
    BY <1>3, <1>9
  <2>2. /\ new \in ScanState /\ new.open /\ new.ranges = acc.ranges
        /\ new.from = IF acc.open THEN acc.from ELSE acc.at
        /\ s[i + 1] = "+" => /\ new.at = acc.at + 1 /\ new.last = acc.at
                             /\ new.first = IF acc.first = NoPlus THEN acc.at ELSE acc.first
        /\ s[i + 1] = "-" => new.at = acc.at /\ new.last = acc.last /\ new.first = acc.first
    BY <1>4, <1>9, ScanSets
  <2> HIDE DEF new, V
  <2>3. AtOK(s, new.at, i + 1)
    <3>0. /\ Base(s) =< acc.at /\ acc.at =< TargetLine(s, i) + ReturnsTo(s, i) + Base(s)
          /\ Tidy(s) => acc.at = TargetLine(s, i) + Base(s)
      BY <1>4 DEF AtOK
    <3>1. CASE s[i + 1] = "+"
      <4>1. /\ TargetLine(s, i + 1) = TargetLine(s, i) + 1 /\ ReturnsTo(s, i + 1) = ReturnsTo(s, i)
            /\ new.at = acc.at + 1
        BY <1>1, <2>2, <3>1
      <4> QED BY <1>4, <1>5, <1>10, <4>1, AtMoves
    <3>2. CASE s[i + 1] = "-"
      <4>1. /\ TargetLine(s, i + 1) = TargetLine(s, i) /\ ReturnsTo(s, i + 1) = ReturnsTo(s, i)
            /\ new.at = acc.at + 0 /\ TargetLine(s, i + 1) = TargetLine(s, i) + 0
        BY <1>1, <1>5, <2>2, <3>2
      <4> QED BY <1>4, <1>5, <1>10, <4>1, AtMoves
    <3> QED BY <1>9, <3>1, <3>2
  <2> DEFINE q == V[Len(V)][1]
  <2>4. PartOK(s, new.ranges, V, base, Len(V) - 1)
    <3>1. CASE i \in S
      <4>1. PartOK(s, acc.ranges, R, base, L - 1) /\ Len(V) = L /\ \A k \in 1 .. L - 1 : V[k] = R[k]
        BY <1>4, <1>6, <2>1, <3>1
      <4> QED BY <2>2, <4>1, PartKept
    <3>2. CASE i \notin S
      <4>1. PartOK(s, acc.ranges, R, base, L) /\ Len(V) - 1 = L /\ \A k \in 1 .. L : V[k] = R[k]
        BY <1>4, <1>6, <2>1, <3>2
      <4> QED BY <2>2, <4>1, PartKept
    <3> QED BY <3>1, <3>2
  <2>5. OpenOK(s, new, q, i + 1)
    <3>1. CASE i \in S
      <4>1. q = p /\ acc.open /\ OpenOK(s, acc, p, i) /\ p \in Nat /\ 1 =< p /\ p =< i
        BY <1>4, <1>6, <2>1, <3>1
      <4> HIDE DEF p, q
      <4>0. p - 1 \in Nat /\ p - 1 =< i
        BY <4>1
      <4>2. p - 1 \in Nat /\ TargetLine(s, p - 1) \in Nat /\ TargetLine(s, p - 1) =< TargetLine(s, i)
        BY <4>0, LinesGoUp, TargetLineStep
      <4>3. CASE s[i + 1] = "-"
        <5>1. TargetLine(s, i + 1) = TargetLine(s, i)
          BY <1>1, <4>3
        <5>2. new.at = acc.at /\ new.last = acc.last /\ new.first = acc.first /\ new.from = acc.from
          BY <2>2, <4>1, <4>3
        <5> QED BY <4>1, <5>1, <5>2 DEF OpenOK
      <4>4. CASE s[i + 1] = "+"
        <5>1. TargetLine(s, i + 1) = TargetLine(s, i) + 1
          BY <1>1, <4>4
        <5>2. /\ new.at = acc.at + 1 /\ new.last = acc.at /\ new.from = acc.from
              /\ new.first = IF acc.first = NoPlus THEN acc.at ELSE acc.first
          BY <2>2, <4>1, <4>4
        <5>3. Base(s) =< acc.at /\ (Tidy(s) => acc.at = TargetLine(s, i) + Base(s))
          BY <1>4 DEF AtOK
        <5>4. Base(s) =< acc.from /\ acc.from =< acc.at
          BY <4>1 DEF OpenOK
        <5>5. Base(s) =< new.first /\ new.first =< new.last /\ new.last < new.at
          <6>1. CASE acc.first = NoPlus
            BY <1>1, <1>5, <5>2, <5>3, <6>1
          <6>2. CASE acc.first # NoPlus
            <7>1. Base(s) =< acc.first /\ acc.first =< acc.last /\ acc.last < acc.at
              BY <4>1, <6>2 DEF OpenOK
            <7> QED BY <1>1, <1>5, <5>2, <6>2, <7>1
          <6> QED BY <6>1, <6>2
        <5>6. ASSUME Tidy(s)
              PROVE  /\ new.from = TargetLine(s, p - 1) + Base(s)
                     /\ TargetLine(s, i + 1) # TargetLine(s, p - 1)
                     /\ new.first = new.from /\ new.last = TargetLine(s, i + 1) + Base(s) - 1
          <6>1. /\ acc.from = TargetLine(s, p - 1) + Base(s)
                /\ IF TargetLine(s, i) = TargetLine(s, p - 1) THEN acc.first = NoPlus
                   ELSE acc.first = acc.from /\ acc.last = TargetLine(s, i) + Base(s) - 1
            BY <4>1, <5>6 DEF OpenOK
          <6>2. acc.at = TargetLine(s, i) + Base(s)
            BY <5>3, <5>6
          <6>3. CASE TargetLine(s, i) = TargetLine(s, p - 1)
            BY <1>1, <4>2, <5>1, <5>2, <6>1, <6>2, <6>3
          <6>4. CASE TargetLine(s, i) # TargetLine(s, p - 1)
            <7>1. acc.first = acc.from /\ acc.first # NoPlus
              BY <1>1, <4>2, <6>1, <6>4 DEF NoPlus
            <7> QED BY <1>1, <4>2, <5>1, <5>2, <6>1, <6>2, <6>4, <7>1
          <6> QED BY <6>3, <6>4
        <5>7. new.from =< new.at /\ Base(s) =< new.from
          BY <1>1, <1>5, <5>2, <5>4
        <5> QED BY <4>1, <5>5, <5>6, <5>7 DEF OpenOK
      <4> QED BY <1>9, <4>3, <4>4
    <3>2. CASE i \notin S
      <4>1. q = i + 1 /\ ~acc.open /\ acc.first = NoPlus /\ q - 1 = i
        BY <1>4, <1>6, <2>1, <3>2
      <4>2. Base(s) =< acc.at /\ (Tidy(s) => acc.at = TargetLine(s, i) + Base(s))
        BY <1>4 DEF AtOK
      <4> HIDE DEF q
      <4>3. CASE s[i + 1] = "-"
        <5>1. TargetLine(s, i + 1) = TargetLine(s, i)
          BY <1>1, <4>3
        <5>2. new.at = acc.at /\ new.first = NoPlus /\ new.from = acc.at
          BY <2>2, <4>1, <4>3
        <5> QED BY <1>1, <1>5, <4>1, <4>2, <5>1, <5>2 DEF OpenOK
      <4>4. CASE s[i + 1] = "+"
        <5>1. TargetLine(s, i + 1) = TargetLine(s, i) + 1
          BY <1>1, <4>4
        <5>2. new.at = acc.at + 1 /\ new.last = acc.at /\ new.from = acc.at /\ new.first = acc.at
          BY <2>2, <4>1, <4>4
        <5>3. acc.at # NoPlus /\ TargetLine(s, i + 1) # TargetLine(s, i)
          BY <1>1, <1>5, <4>2, <5>1 DEF NoPlus
        <5> QED BY SMTT(20), <1>1, <1>5, <4>1, <4>2, <5>1, <5>2, <5>3 DEF OpenOK
      <4> QED BY <1>9, <4>3, <4>4
    <3> QED BY <3>1, <3>2
  <2>6. ScanOK(s, new, V, base, i + 1)
    BY <2>1, <2>2, <2>3, <2>4, <2>5 DEF ScanOK
  <2> QED BY <2>6 DEF new, V
<1> QED BY <1>2, <1>8, <1>9 DEF Letter

-----------------------------------------------------------------------------
(* The hunks of a diff, which hold all changes and some lines around each.  *)

LEMMA Script ==
    ASSUME NEW s \in Seq(Letter)
    PROVE  /\ Len(s) \in Nat /\ DOMAIN s = 1 .. Len(s)
           /\ \A i \in 1 .. Len(s) : s[i] \in Letter
           /\ 0 \notin Changed(s) /\ 0 \notin Shown(s)
           /\ GitContext \in Nat /\ Tolerance \in Nat /\ Tolerance < GitContext
           /\ \A i : i \in Changed(s) <=> i \in 1 .. Len(s) /\ s[i] \in {"+", "-"}
           /\ \A i, j : /\ i \in 1 .. Len(s) /\ j \in Changed(s) /\ i - j =< GitContext /\ j - i =< GitContext
                        => i \in Shown(s)
           /\ Changed(s) \subseteq Shown(s) /\ Shown(s) \subseteq 1 .. Len(s)
<1>1. Len(s) \in Nat /\ DOMAIN s = 1 .. Len(s) /\ \A i \in 1 .. Len(s) : s[i] \in Letter
  OBVIOUS
<1>2. GitContext \in Nat /\ Tolerance \in Nat /\ Tolerance < GitContext
  BY DiffAssumption
<1>3. \A i : i \in Changed(s) <=> i \in 1 .. Len(s) /\ s[i] \in {"+", "-"}
  BY <1>1 DEF Changed
<1>4. ASSUME NEW i \in 1 .. Len(s), NEW j \in Changed(s), i - j =< GitContext, j - i =< GitContext
      PROVE  i \in Shown(s)
  <2>1. j \in 1 .. Len(s)
    BY <1>3
  <2>2. i - j \in (-GitContext) .. GitContext
    BY <1>1, <1>2, <1>4, <2>1
  <2> QED BY <1>1, <2>2 DEF Shown
<1>5. Changed(s) \subseteq Shown(s)
  <2>1. ASSUME NEW i \in Changed(s) PROVE i \in Shown(s)
    <3>1. i \in 1 .. Len(s) /\ i - i =< GitContext
      BY <1>2, <1>3
    <3> QED BY <1>4, <3>1
  <2> QED BY <2>1
<1>6. Shown(s) \subseteq 1 .. Len(s)
  BY <1>1 DEF Shown
<1>7. 0 \notin Changed(s) /\ 0 \notin Shown(s)
  BY <1>3, <1>6
<1>8. \A i, j : /\ i \in 1 .. Len(s) /\ j \in Changed(s) /\ i - j =< GitContext /\ j - i =< GitContext
                => i \in Shown(s)
  BY <1>4
<1> QED BY <1>1, <1>2, <1>3, <1>5, <1>6, <1>7, <1>8

LEMMA HunksAreMaximal ==
    ASSUME NEW s \in Seq(Letter)
    PROVE  RunsTo(Hunks(s), Shown(s), Len(s)) /\ RunsTo(Runs(s), Changed(s), Len(s))
<1>1. Len(s) \in Nat /\ 0 \notin Shown(s) /\ 0 \notin Changed(s) /\ Len(s) \in 0 .. Len(s)
  BY Script
<1>2. PICK U : RunsAt(U, Shown(s), Len(s)) /\ RunsOf(Shown(s), Len(s)) = U[Len(s)]
  BY <1>1, RunsOfScan
<1>3. PICK V : RunsAt(V, Changed(s), Len(s)) /\ RunsOf(Changed(s), Len(s)) = V[Len(s)]
  BY <1>1, RunsOfScan
<1> QED BY <1>1, <1>2, <1>3, RunsAreMaximal DEF Hunks, Runs

\* A hunk: where it starts and ends, and the unchanged lines at either side.
HunkOK(s, h) ==
    /\ h \in Pairs /\ 1 =< h[1] /\ h[1] =< h[2] /\ h[2] =< Len(s)
    /\ h[1] - 1 \notin Changed(s)
    /\ h[1] > 1 => \A j \in h[1] .. h[1] + GitContext - 1 : j \notin Changed(s)
    /\ h[2] < Len(s) => \A j \in h[2] - GitContext + 1 .. h[2] : j \notin Changed(s)

LEMMA HunkShape ==
    ASSUME NEW s \in Seq(Letter), NEW k \in 1 .. Len(Hunks(s))
    PROVE  HunkOK(s, Hunks(s)[k])
<1> DEFINE h == Hunks(s)[k]
<1>1. /\ Hunks(s) \in Seq(Pairs) /\ 1 =< h[1] /\ h[1] =< h[2] /\ h[2] =< Len(s)
      /\ h[1] - 1 \notin Shown(s) /\ (h[2] = Len(s) \/ h[2] + 1 \notin Shown(s))
  BY HunksAreMaximal DEF RunsTo
<1>2. h \in Pairs
  BY <1>1
<1>3. h[1] \in Nat /\ h[2] \in Nat
  BY <1>2 DEF Pairs
<1> HIDE DEF h
<1>4. Len(s) \in Nat /\ GitContext \in Nat /\ Changed(s) \subseteq Shown(s)
  BY Script
<1>5. ASSUME h[1] > 1, NEW j \in h[1] .. h[1] + GitContext - 1, j \in Changed(s) PROVE FALSE
  <2>1. h[1] - 1 \in 1 .. Len(s) /\ (h[1] - 1) - j =< GitContext /\ j - (h[1] - 1) =< GitContext
    BY SMTT(20), <1>1, <1>3, <1>4, <1>5
  <2> QED BY <1>1, <1>5, <2>1, Script
<1>6. ASSUME h[2] < Len(s), NEW j \in h[2] - GitContext + 1 .. h[2], j \in Changed(s) PROVE FALSE
  <2>1. h[2] + 1 \in 1 .. Len(s) /\ (h[2] + 1) - j =< GitContext /\ j - (h[2] + 1) =< GitContext
    BY SMTT(20), <1>1, <1>3, <1>4, <1>6
  <2>2. h[2] # Len(s)
    BY <1>3, <1>4, <1>6
  <2> QED BY <1>1, <1>6, <2>1, <2>2, Script
<1> QED BY <1>1, <1>2, <1>4, <1>5, <1>6 DEF HunkOK, h

LEMMA HunkStartIs ==
    ASSUME NEW s \in Seq(Letter), NEW h, HunkOK(s, h)
    PROVE  /\ HunkStart(s, h) = TargetLine(s, h[1] - 1) + Base(s)
           /\ Base(s) = 1 => TargetLine(s, h[1] - 1) < TargetLine(s, h[2])
<1>1. /\ h[1] \in Nat /\ h[2] \in Nat /\ 1 =< h[1] /\ h[1] =< h[2] /\ h[2] =< Len(s)
      /\ Len(s) \in Nat /\ GitContext \in Nat /\ GitContext >= 1
  <2>1. Len(s) \in Nat /\ GitContext \in Nat /\ GitContext >= 1
    BY Script
  <2> QED BY <2>1 DEF HunkOK, Pairs
<1> DEFINE b == TargetLine(s, h[1] - 1)
           e == TargetLine(s, h[2])
<1>2. h[1] - 1 \in Nat /\ h[1] - 1 =< h[2] /\ h[1] - 1 + 1 = h[1]
  BY <1>1
<1>3. /\ b \in Nat /\ e \in Nat /\ b =< e /\ (b = e <=> \A k \in h[1] .. h[2] : s[k] = "-")
      /\ TargetLine(s, Len(s)) \in Nat /\ e =< TargetLine(s, Len(s))
  <2>1. b =< e /\ (b = e <=> \A k \in h[1] - 1 + 1 .. h[2] : s[k] = "-")
    BY <1>1, <1>2, LinesGoUp
  <2>2. b \in Nat /\ e \in Nat /\ TargetLine(s, Len(s)) \in Nat /\ e =< TargetLine(s, Len(s))
    BY <1>1, <1>2, Counts
  <2> QED BY <1>2, <2>1, <2>2
<1>4. HunkStart(s, h) = IF e = b THEN b ELSE b + 1
  BY DEF HunkStart
<1> HIDE DEF b, e
<1>5. CASE e = b
  <2>1. h[1] \in Changed(s) /\ h[2] \in Changed(s)
    <3>1. h[1] \in h[1] .. h[2] /\ h[2] \in h[1] .. h[2] /\ h[1] \in 1 .. Len(s) /\ h[2] \in 1 .. Len(s)
      BY <1>1
    <3> QED BY <1>3, <1>5, <3>1, Script
  <2>2. h[1] = 1
    <3>1. h[1] \in h[1] .. h[1] + GitContext - 1
      BY <1>1
    <3> QED BY <1>1, <2>1, <3>1 DEF HunkOK
  <2>3. h[2] = Len(s)
    <3>1. h[2] \in h[2] - GitContext + 1 .. h[2]
      BY <1>1
    <3> QED BY <1>1, <2>1, <3>1 DEF HunkOK
  <2>4. b = 0 /\ TargetLine(s, Len(s)) = 0
    <3>1. TargetLine(s, 0) = 0 /\ h[1] - 1 = 0
      BY <2>2, TargetLineStep
    <3> QED BY <1>5, <2>3, <3>1 DEF b, e
  <2> QED BY <1>3, <1>4, <1>5, <2>4 DEF Base, b
<1>6. CASE e # b
  <2>1. TargetLine(s, Len(s)) # 0 /\ b < e
    BY <1>3, <1>6
  <2> QED BY <1>4, <1>6, <2>1 DEF Base, b, e
<1> QED BY <1>5, <1>6

\* Runs that are over stay as they are, and no change leaves all as they are.
LEMMA RunsStay ==
    ASSUME NEW n \in Nat, NEW S, 0 \notin S, NEW U, RunsAt(U, S, n),
           NEW i \in 0 .. n, NEW j \in 0 .. n, i =< j, i \notin S
    PROVE  /\ Len(U[i]) \in Nat /\ Len(U[j]) \in Nat /\ Len(U[i]) =< Len(U[j])
           /\ \A k \in 1 .. Len(U[i]) : U[j][k] = U[i][k]
           /\ (\A k \in i + 1 .. j : k \notin S) => U[j] = U[i]
<1> DEFINE L == Len(U[i])
           T == {d \in Nat : i + d =< n =>
                    /\ L =< Len(U[i + d]) /\ (i + d \in S => L < Len(U[i + d]))
                    /\ \A k \in 1 .. L : U[i + d][k] = U[i][k]
                    /\ (\A k \in i + 1 .. i + d : k \notin S) => U[i + d] = U[i]}
<1>0. i \in Nat /\ j \in Nat
  OBVIOUS
<1>1. \A m \in 0 .. n : RunsTo(U[m], S, m) /\ Len(U[m]) \in Nat
  BY RunsAreMaximal DEF RunsTo
<1>2. 0 \in T
  <2>1. i + 0 = i /\ L \in Nat
    BY <1>0, <1>1
  <2> QED BY <2>1
<1>3. ASSUME NEW d \in Nat, d \in T PROVE d + 1 \in T
  <2>12. PICK m \in Nat : m = i + d
    BY <1>0
  <2>0. SUFFICES ASSUME m + 1 =< n
        PROVE  /\ L =< Len(U[m + 1]) /\ (m + 1 \in S => L < Len(U[m + 1]))
               /\ \A k \in 1 .. L : U[m + 1][k] = U[i][k]
               /\ (\A k \in i + 1 .. m + 1 : k \notin S) => U[m + 1] = U[i]
    <3>1. i + (d + 1) = m + 1
      BY <1>0, <2>12
    <3> QED BY <3>1
  <2>1. m \in Nat /\ m \in 0 .. n /\ m + 1 \in 1 .. n /\ m + 1 \in 0 .. n /\ m + 1 - 1 = m /\ m + 1 \in i + 1 .. m + 1
    BY <1>0, <2>0, <2>12
  <2>2. /\ L =< Len(U[m]) /\ (m \in S => L < Len(U[m]))
        /\ \A k \in 1 .. L : U[m][k] = U[i][k]
        /\ (\A k \in i + 1 .. m : k \notin S) => U[m] = U[i]
    BY <1>3, <2>1, <2>12
  <2>3. \A k \in i + 1 .. m : k \in i + 1 .. m + 1
    BY <2>1
  <2>5. PICK R : R = U[m]
    OBVIOUS
  <2>6. PICK V : V = ExtendRuns(R, m + 1, S)
    OBVIOUS
  <2>4. RunsTo(R, S, m) /\ V = U[m + 1]
    BY <1>1, <2>1, <2>5, <2>6 DEF RunsAt
  <2>10. /\ Len(R) \in Nat
         /\ m + 1 \notin S => V = R
         /\ m + 1 \in S /\ m \in S => Len(V) = Len(R) /\ \A k \in 1 .. Len(R) - 1 : V[k] = R[k]
         /\ m + 1 \in S /\ m \notin S => Len(V) = Len(R) + 1 /\ \A k \in 1 .. Len(R) : V[k] = R[k]
    <3>1. Len(R) \in Nat
      BY <2>4, <2>6, RunsNext DEF Grown
    <3>2. m + 1 \notin S => V = R
      BY <2>4, <2>6, RunsNext DEF Grown
    <3>3. m + 1 \in S /\ m \in S => Len(V) = Len(R) /\ \A k \in 1 .. Len(R) - 1 : V[k] = R[k]
      BY <2>4, <2>6, RunsNext DEF Grown
    <3>4. m + 1 \in S /\ m \notin S => Len(V) = Len(R) + 1 /\ \A k \in 1 .. Len(R) : V[k] = R[k]
      BY <2>4, <2>6, RunsNext DEF Grown
    <3> QED BY <3>1, <3>2, <3>3, <3>4
  <2>11. L \in Nat
    BY <1>1
  <2>7. CASE m + 1 \notin S
    <3>1. U[m + 1] = U[m]
      BY <2>4, <2>5, <2>7, <2>10
    <3>2. L =< Len(U[m + 1]) /\ \A k \in 1 .. L : U[m + 1][k] = U[i][k]
      BY <2>2, <3>1
    <3>3. ASSUME \A k \in i + 1 .. m + 1 : k \notin S PROVE U[m + 1] = U[i]
      BY <2>2, <2>3, <3>1, <3>3
    <3> QED BY <2>7, <3>2, <3>3
  <2>8. CASE m + 1 \in S /\ m \in S
    <3>1. L < Len(V) /\ \A k \in 1 .. L : V[k] = R[k]
      <4>1. L < Len(R) /\ Len(R) \in Nat /\ Len(V) = Len(R) /\ \A k \in 1 .. Len(R) - 1 : V[k] = R[k]
        BY <2>2, <2>5, <2>8, <2>10
      <4>2. \A k \in 1 .. L : k \in 1 .. Len(R) - 1
        BY <2>11, <4>1
      <4> QED BY <4>1, <4>2
    <3>2. L =< Len(V)
      BY <2>8, <2>10, <2>11, <3>1
    <3>3. \A k \in 1 .. L : V[k] = U[i][k]
      BY <2>2, <2>5, <3>1
    <3>4. ~ (\A k \in i + 1 .. m + 1 : k \notin S)
      BY <2>1, <2>8
    <3> QED BY <2>4, <3>1, <3>2, <3>3, <3>4
  <2>9. CASE m + 1 \in S /\ m \notin S
    <3>1. L < Len(V) /\ L =< Len(V) /\ \A k \in 1 .. L : V[k] = R[k]
      <4>1. L =< Len(R) /\ Len(R) \in Nat /\ Len(V) = Len(R) + 1 /\ \A k \in 1 .. Len(R) : V[k] = R[k]
        BY <2>2, <2>5, <2>9, <2>10
      <4>2. \A k \in 1 .. L : k \in 1 .. Len(R)
        BY <2>11, <4>1
      <4> QED BY <2>11, <4>1, <4>2
    <3>3. \A k \in 1 .. L : V[k] = U[i][k]
      BY <2>2, <2>5, <3>1
    <3>4. ~ (\A k \in i + 1 .. m + 1 : k \notin S)
      BY <2>1, <2>9
    <3> QED BY <2>4, <3>1, <3>3, <3>4
  <2> QED BY <2>7, <2>8, <2>9
<1> HIDE DEF T
<1>4. Nat \subseteq T
  BY <1>2, <1>3, Induction
<1>5. j - i \in T /\ i + (j - i) = j
  BY <1>0, <1>4
<1> QED BY <1>1, <1>5 DEF T

LEMMA ScanType ==
    ASSUME NEW acc \in ScanState
    PROVE  Flush(acc) \in ScanState /\ \A k \in Letter : ScanLine(acc, k) \in ScanState
<1>1. Flush(acc) \in ScanState
  <2>1. CASE ~acc.open
    BY <2>1 DEF Flush
  <2>2. CASE acc.open
    <3> DEFINE RR == Seq(Int \X Int)
               SS == [at : Int, open : BOOLEAN, from : Int, first : Int, last : Int, ranges : RR]
               r == IF acc.first # NoPlus THEN <<acc.first, acc.last>> ELSE <<acc.from, acc.from>>
               new == Append(acc.ranges, r)
    <3>1. r \in Int \X Int /\ acc.ranges \in Seq(Int \X Int)
      BY DEF ScanState
    <3>2. Flush(acc) = [acc EXCEPT !.open = FALSE, !.first = NoPlus, !.ranges = new]
      BY <2>2 DEF Flush
    <3> HIDE DEF r
    <3>3. new \in RR
      BY <3>1
    <3>4. acc \in SS /\ NoPlus \in Int
      BY DEF ScanState, NoPlus
    <3> HIDE DEF new, RR
    <3>5. Flush(acc) \in SS
      BY <3>2, <3>3, <3>4
    <3> QED BY <3>5 DEF ScanState, RR
  <2> QED BY <2>1, <2>2
<1>2. \A k \in Letter : k \in {"+", "-", "=", "c"}
  BY DEF Letter
<1> QED BY <1>1, <1>2, ScanSets

\* The scan of a hunk, line by line.
ScanOf(W, s, h, m) ==
    /\ W \in [0 .. m -> ScanState]
    /\ W[0] = [at |-> HunkStart(s, h), open |-> FALSE, from |-> HunkStart(s, h),
               first |-> NoPlus, last |-> NoPlus, ranges |-> <<>>]
    /\ \A k \in 1 .. m : W[k] = ScanLine(W[k - 1], s[h[1] + k - 1])

LEMMA HunkIsScanned ==
    ASSUME NEW s \in Seq(Letter), NEW h, HunkOK(s, h)
    PROVE  \E W : /\ ScanOf(W, s, h, h[2] - h[1] + 1)
                  /\ HunkRanges(s, h) = Flush(W[h[2] - h[1] + 1]).ranges
<1> DEFINE n == h[2] - h[1] + 1
           start == HunkStart(s, h)
           a == [at |-> start, open |-> FALSE, from |-> start,
                 first |-> NoPlus, last |-> NoPlus, ranges |-> <<>>]
           Q == ScanState
           f == [e \in (1 .. n) \X Q |-> ScanLine(e[2], s[h[1] + e[1] - 1])]
           Is(V) == V = [k \in 0 .. n |-> IF k = 0 THEN a ELSE ScanLine(V[k - 1], s[h[1] + k - 1])]
<1>0. /\ h[1] \in Nat /\ h[2] \in Nat /\ 1 =< h[1] /\ h[1] =< h[2] /\ h[2] =< Len(s)
      /\ n \in Nat /\ Len(s) \in Nat
  BY DEF HunkOK, Pairs
<1>1. a \in Q
  <2>1. start \in Int
    <3>1. h[1] - 1 \in Nat
      BY <1>0
    <3>2. TargetLine(s, h[1] - 1) \in Nat /\ Base(s) \in {0, 1}
      BY <1>0, <3>1, Counts
    <3> QED BY <3>2, HunkStartIs
  <2> DEFINE RR == Seq(Int \X Int)
  <2>2. NoPlus \in Int /\ <<>> \in RR
    BY DEF NoPlus
  <2> HIDE DEF start, RR
  <2>3. a \in [at : Int, open : BOOLEAN, from : Int, first : Int, last : Int, ranges : RR]
    BY <2>1, <2>2
  <2> QED BY <2>3 DEF ScanState, RR
<1>2. \A k \in 1 .. n, x \in Q : f[<<k, x>>] = ScanLine(x, s[h[1] + k - 1])
  OBVIOUS
<1>3. \A k \in 1 .. n, x \in Q : ScanLine(x, s[h[1] + k - 1]) \in Q
  <2> SUFFICES ASSUME NEW k \in 1 .. n, NEW x \in Q PROVE ScanLine(x, s[h[1] + k - 1]) \in Q
    OBVIOUS
  <2>1. h[1] + k - 1 \in 1 .. Len(s)
    BY <1>0
  <2>2. s[h[1] + k - 1] \in Letter
    BY <2>1
  <2> QED BY <2>2, ScanType
<1>4. f \in [(1 .. n) \X Q -> Q]
  <2>1. \A e \in (1 .. n) \X Q : ScanLine(e[2], s[h[1] + e[1] - 1]) \in Q
    <3> HIDE DEF n, Q
    <3> QED BY <1>3
  <2> HIDE DEF Q, n
  <2> QED BY <2>1
<1> HIDE DEF f, Q, a, n
<1>5. PICK W : Iterates(W, Q, a, f, n)
  BY <1>0, <1>1, <1>4, Iteration
<1>6. W \in [0 .. n -> Q] /\ W[0] = a /\ \A k \in 1 .. n : W[k] = f[<<k, W[k - 1]>>]
  BY <1>5 DEF Iterates
<1>7. ASSUME NEW k \in 1 .. n PROVE W[k] = ScanLine(W[k - 1], s[h[1] + k - 1])
  <2>1. k - 1 \in 0 .. n
    BY <1>0
  <2>2. W[k - 1] \in Q
    BY <1>6, <2>1
  <2> QED BY <1>2, <1>6, <2>2
<1>8. Is(W)
  <2>1. \A k \in 0 .. n : W[k] = IF k = 0 THEN a ELSE ScanLine(W[k - 1], s[h[1] + k - 1])
    <3>1. \A k \in 0 .. n : k = 0 \/ k \in 1 .. n
      BY <1>0
    <3>2. \A k \in 1 .. n : k # 0
      BY <1>0
    <3> QED BY <1>6, <1>7, <3>1, <3>2
  <2> QED BY <1>6, <2>1
<1> DEFINE U == CHOOSE V : Is(V)
<1>9. HunkRanges(s, h) = Flush(U[n]).ranges
  BY DEF HunkRanges, n, a
<1> HIDE DEF Is
<1>10. Is(U)
  BY <1>8
<1> HIDE DEF U
<1>11. U = [k \in 0 .. n |-> IF k = 0 THEN a ELSE ScanLine(U[k - 1], s[h[1] + k - 1])]
  BY <1>10 DEF Is
<1>12. \A k \in 0 .. n : U[k] = IF k = 0 THEN a ELSE ScanLine(U[k - 1], s[h[1] + k - 1])
  BY <1>11
<1> DEFINE T == {k \in Nat : k =< n => U[k] \in Q}
<1>13. 0 \in T
  BY <1>0, <1>1, <1>12
<1>14. ASSUME NEW k \in Nat, k \in T PROVE k + 1 \in T
  <2> SUFFICES ASSUME k + 1 =< n PROVE U[k + 1] \in Q
    OBVIOUS
  <2>1. k + 1 \in 1 .. n /\ k + 1 \in 0 .. n /\ U[k] \in Q /\ k + 1 - 1 = k /\ k + 1 # 0
    BY <1>0, <1>14
  <2>2. U[k + 1] = ScanLine(U[k], s[h[1] + (k + 1) - 1])
    BY <1>12, <2>1
  <2> QED BY <1>3, <2>1, <2>2
<1> HIDE DEF T
<1>15. Nat \subseteq T
  BY <1>13, <1>14, Induction
<1>16. \A k \in 0 .. n : U[k] \in Q
  BY <1>0, <1>15 DEF T
<1>17. U \in [0 .. n -> Q]
  BY <1>11, <1>16
<1>18. U[0] = a /\ \A k \in 1 .. n : U[k] = ScanLine(U[k - 1], s[h[1] + k - 1])
  BY <1>0, <1>12
<1>19. ScanOf(U, s, h, n)
  BY <1>17, <1>18 DEF ScanOf, Q, a
<1> QED BY <1>9, <1>19 DEF n

\* The ranges of a hunk are those of its runs of changed lines.
LEMMA HunkFollowsRuns ==
    ASSUME NEW s \in Seq(Letter), NEW U, RunsAt(U, Changed(s), Len(s)), NEW h, HunkOK(s, h)
    PROVE  PartOK(s, HunkRanges(s, h), U[h[2]], Len(U[h[1] - 1]), Len(U[h[2]]))
<1> DEFINE C == Changed(s)
<1>1. /\ h[1] \in Nat /\ h[2] \in Nat /\ 1 =< h[1] /\ h[1] =< h[2] /\ h[2] =< Len(s)
      /\ h[1] - 1 \notin C /\ Len(s) \in Nat /\ 0 \notin C
  BY Script DEF HunkOK, Pairs
<1>2. PICK a \in Nat : a = h[1] - 1
  BY <1>1
<1>3. PICK m \in Nat : m = h[2] - h[1] + 1
  BY <1>1
<1>4. a + m = h[2] /\ a \in 0 .. Len(s) /\ a \notin C
  BY <1>1, <1>2, <1>3
<1>5. PICK W : ScanOf(W, s, h, m) /\ HunkRanges(s, h) = Flush(W[m]).ranges
  BY <1>3, HunkIsScanned
<1>6. /\ W \in [0 .. m -> ScanState]
      /\ W[0] = [at |-> HunkStart(s, h), open |-> FALSE, from |-> HunkStart(s, h),
                 first |-> NoPlus, last |-> NoPlus, ranges |-> <<>>]
      /\ \A k \in 1 .. m : W[k] = ScanLine(W[k - 1], s[h[1] + k - 1])
  BY <1>5 DEF ScanOf
<1>7. \A i \in 0 .. Len(s) : RunsTo(U[i], C, i) /\ Len(U[i]) \in Nat
  <2>1. \A i \in 0 .. Len(s) : RunsTo(U[i], C, i)
    BY <1>1, RunsAreMaximal
  <2> HIDE DEF C
  <2> QED BY <2>1 DEF RunsTo
<1>8. PICK base \in Nat : base = Len(U[a])
  BY <1>4, <1>7
<1> DEFINE T == {k \in Nat : k =< m => ScanOK(s, W[k], U[a + k], base, a + k)}
<1>9. 0 \in T
  <2>1. a + 0 = a
    OBVIOUS
  <2>2. TargetLine(s, a) \in Nat /\ ReturnsTo(s, a) \in Nat /\ Base(s) \in {0, 1}
    BY <1>1, Counts
  <2>3. HunkStart(s, h) = TargetLine(s, a) + Base(s)
    BY <1>2, HunkStartIs
  <2>4. W[0] \in ScanState
    <3>1. W \in [0 .. m -> ScanState] /\ 0 \in 0 .. m
      BY <1>6
    <3> QED BY <3>1
  <2>5. /\ W[0].at = TargetLine(s, a) + Base(s) /\ W[0].open = FALSE
        /\ W[0].first = NoPlus /\ W[0].ranges = <<>>
    BY <1>6, <2>3
  <2>6. AtOK(s, W[0].at, a)
    BY <2>2, <2>5 DEF AtOK
  <2>7. PartOK(s, <<>>, U[a], base, Len(U[a]))
    <3>1. <<>> \in Seq(Int \X Int) /\ Len(<<>>) = 0 /\ 1 .. 0 = {} /\ base + 0 = Len(U[a])
      BY <1>8
    <3> QED BY <3>1 DEF PartOK
  <2>8. ScanOK(s, W[0], U[a], base, a)
    BY <1>4, <2>4, <2>5, <2>6, <2>7 DEF ScanOK
  <2> QED BY <2>1, <2>8
<1>10. ASSUME NEW k \in Nat, k \in T PROVE k + 1 \in T
  <2> SUFFICES ASSUME k + 1 =< m PROVE ScanOK(s, W[k + 1], U[a + (k + 1)], base, a + (k + 1))
    OBVIOUS
  <2>1. PICK i \in Nat : i = a + k
    OBVIOUS
  <2>2. /\ i + 1 =< Len(s) /\ i \in 0 .. Len(s) /\ i + 1 \in 1 .. Len(s) /\ a + (k + 1) = i + 1
        /\ h[1] + (k + 1) - 1 = i + 1 /\ k + 1 \in 1 .. m /\ k + 1 - 1 = k /\ i + 1 - 1 = i
    <3>1. h[1] = a + 1 /\ k + 1 =< m /\ i + 1 =< h[2]
      <4>1. h[1] = a + 1
        BY <1>1, <1>2
      <4>2. i + 1 =< a + m
        BY <2>1
      <4> QED BY <1>4, <4>1, <4>2
    <3>2. i + 1 =< Len(s)
      BY <1>1, <3>1
    <3>3. h[1] + (k + 1) - 1 = i + 1 /\ a + (k + 1) = i + 1
      BY <2>1, <3>1
    <3>4. k + 1 \in 1 .. m /\ k + 1 - 1 = k /\ i + 1 - 1 = i
      BY <3>1
    <3> QED BY <1>1, <3>2, <3>3, <3>4
  <2>3. ScanOK(s, W[k], U[i], base, i)
    BY <1>10, <2>1, <2>2
  <2>4. W[k + 1] = ScanLine(W[k], s[i + 1])
    BY <1>6, <2>2
  <2>5. U[i + 1] = ExtendRuns(U[i], i + 1, Changed(s))
    BY <2>2 DEF RunsAt
  <2>6. RunsTo(U[i], Changed(s), i)
    BY <1>7, <2>2
  <2>7. ScanOK(s, ScanLine(W[k], s[i + 1]), ExtendRuns(U[i], i + 1, Changed(s)), base, i + 1)
    BY <2>2, <2>3, <2>6, ScanStep
  <2> QED BY <2>2, <2>4, <2>5, <2>7
<1> HIDE DEF T
<1>11. Nat \subseteq T
  BY <1>9, <1>10, Induction
<1>12. ScanOK(s, W[m], U[h[2]], base, h[2])
  BY <1>4, <1>11 DEF T
<1>13. RunsTo(U[h[2]], Changed(s), h[2])
  BY <1>1, <1>7
<1>14. PartOK(s, Flush(W[m]).ranges, U[h[2]], base, Len(U[h[2]]))
  BY <1>1, <1>12, <1>13, FlushCloses
<1> QED BY <1>2, <1>5, <1>8, <1>14

\* Ranges of runs up to a place, and then those of the next ones.
LEMMA PartsJoin ==
    ASSUME NEW s, NEW R, NEW l \in Nat, NEW m \in Nat, NEW x, NEW y,
           PartOK(s, x, R, 0, l), PartOK(s, y, R, l, m)
    PROVE  PartOK(s, x \o y, R, 0, m)
<1>1. /\ x \in Seq(Int \X Int) /\ 0 + Len(x) = l /\ \A k \in 1 .. Len(x) : RangeOK(s, x[k], R[0 + k])
      /\ y \in Seq(Int \X Int) /\ l + Len(y) = m /\ \A k \in 1 .. Len(y) : RangeOK(s, y[k], R[l + k])
  BY DEF PartOK
<1> DEFINE RR == Seq(Int \X Int)
<1>2. Len(x) = l /\ Len(y) \in Nat
  BY <1>1
<1>3. /\ x \o y \in RR /\ Len(x \o y) = l + Len(y)
      /\ \A k \in 1 .. l : (x \o y)[k] = x[k]
      /\ \A k \in 1 .. Len(y) : (x \o y)[l + k] = y[k]
  <2>1. x \o y \in RR
    BY <1>1
  <2> DEFINE Q == Int \X Int
  <2>2. x \in Seq(Q) /\ y \in Seq(Q)
    BY <1>1
  <2> HIDE DEF Q, RR
  <2>3. Len(x \o y) = l + Len(y)
    BY <1>2, <2>2
  <2>4. \A k \in 1 .. l : (x \o y)[k] = x[k]
    BY <1>2, <2>2
  <2>5. \A k \in 1 .. Len(y) : (x \o y)[l + k] = y[k]
    <3> SUFFICES ASSUME NEW k \in 1 .. Len(y) PROVE (x \o y)[l + k] = y[k]
      OBVIOUS
    <3>1. l + k \in 1 .. Len(x) + Len(y) /\ ~(l + k =< Len(x)) /\ l + k - Len(x) = k
      BY <1>2
    <3> QED BY <2>2, <3>1
  <2> QED BY <2>1, <2>3, <2>4, <2>5
<1> HIDE DEF RR
<1>4. ASSUME NEW k \in 1 .. Len(x \o y) PROVE RangeOK(s, (x \o y)[k], R[0 + k])
  <2>1. 0 + k = k
    OBVIOUS
  <2>2. CASE k \in 1 .. l
    BY <1>1, <1>2, <1>3, <2>1, <2>2
  <2>3. CASE k \notin 1 .. l
    <3>1. PICK j \in 1 .. Len(y) : k = l + j
      <4>1. k - l \in 1 .. Len(y) /\ k = l + (k - l)
        BY <1>2, <1>3, <2>3
      <4> QED BY <4>1
    <3> QED BY <1>1, <1>3, <2>1, <3>1
  <2> QED BY <2>2, <2>3
<1>5. 0 + Len(x \o y) = m
  BY <1>1, <1>2, <1>3
<1> QED BY <1>3, <1>4, <1>5 DEF PartOK, RR

\* The ranges of a file, hunk by hunk.
Joined(s, x, k) == x \o HunkRanges(s, Hunks(s)[k])
RangesUpTo(V, s, n) ==
    /\ V \in [0 .. n -> Seq(Int \X Int)] /\ V[0] = <<>>
    /\ \A k \in 1 .. n : V[k] = Joined(s, V[k - 1], k)

LEMMA FileIsScanned ==
    ASSUME NEW s \in Seq(Letter)
    PROVE  \E V : RangesUpTo(V, s, Len(Hunks(s))) /\ ChangedRanges(s) = V[Len(Hunks(s))]
<1> DEFINE n == Len(Hunks(s))
           Q == Seq(Int \X Int)
           f == [e \in (1 .. n) \X Q |-> Joined(s, e[2], e[1])]
           Is(V) == V = [k \in 0 .. n |-> IF k = 0 THEN <<>> ELSE Joined(s, V[k - 1], k)]
<1>0. n \in Nat
  BY HunksAreMaximal DEF RunsTo
<1>1. <<>> \in Q
  OBVIOUS
<1>2. \A k \in 1 .. n, x \in Q : f[<<k, x>>] = Joined(s, x, k)
  OBVIOUS
<1>3. \A k \in 1 .. n, x \in Q : Joined(s, x, k) \in Q
  <2> SUFFICES ASSUME NEW k \in 1 .. n, NEW x \in Q PROVE Joined(s, x, k) \in Q
    OBVIOUS
  <2>1. HunkOK(s, Hunks(s)[k])
    BY HunkShape
  <2>2. Len(s) \in Nat
    OBVIOUS
  <2>3. PICK U : RunsAt(U, Changed(s), Len(s))
    BY <2>2, RunsOfScan
  <2>4. HunkRanges(s, Hunks(s)[k]) \in Q
    BY <2>1, <2>3, HunkFollowsRuns DEF PartOK
  <2> QED BY <2>4 DEF Joined
<1>4. f \in [(1 .. n) \X Q -> Q]
  <2>1. \A e \in (1 .. n) \X Q : Joined(s, e[2], e[1]) \in Q
    <3> HIDE DEF n, Q
    <3> QED BY <1>3
  <2> HIDE DEF Q, n
  <2> QED BY <2>1
<1> HIDE DEF f, Q, n
<1>5. PICK W : Iterates(W, Q, <<>>, f, n)
  BY <1>0, <1>1, <1>4, Iteration
<1>6. W \in [0 .. n -> Q] /\ W[0] = <<>> /\ \A k \in 1 .. n : W[k] = f[<<k, W[k - 1]>>]
  BY <1>5 DEF Iterates
<1>7. ASSUME NEW k \in 1 .. n PROVE W[k] = Joined(s, W[k - 1], k)
  <2>1. k - 1 \in 0 .. n
    BY <1>0
  <2>2. W[k - 1] \in Q
    BY <1>6, <2>1
  <2> QED BY <1>2, <1>6, <2>2
<1>8. Is(W)
  <2>1. \A k \in 0 .. n : W[k] = IF k = 0 THEN <<>> ELSE Joined(s, W[k - 1], k)
    <3>1. \A k \in 0 .. n : k = 0 \/ k \in 1 .. n
      BY <1>0
    <3>2. \A k \in 1 .. n : k # 0
      BY <1>0
    <3> QED BY <1>6, <1>7, <3>1, <3>2
  <2> QED BY <1>6, <2>1
<1> DEFINE U == CHOOSE V : Is(V)
<1>9. ChangedRanges(s) = U[n]
  BY DEF ChangedRanges, Joined, n
<1> HIDE DEF Is
<1>10. Is(U)
  BY <1>8
<1> HIDE DEF U
<1>11. U = [k \in 0 .. n |-> IF k = 0 THEN <<>> ELSE Joined(s, U[k - 1], k)]
  BY <1>10 DEF Is
<1>12. \A k \in 0 .. n : U[k] = IF k = 0 THEN <<>> ELSE Joined(s, U[k - 1], k)
  BY <1>11
<1> DEFINE T == {k \in Nat : k =< n => U[k] \in Q}
<1>13. 0 \in T
  <2>1. U[0] = <<>>
    <3>1. 0 \in 0 .. n
      BY <1>0
    <3> QED BY <1>12, <3>1
  <2> QED BY <1>1, <2>1
<1>14. ASSUME NEW k \in Nat, k \in T PROVE k + 1 \in T
  <2> SUFFICES ASSUME k + 1 =< n PROVE U[k + 1] \in Q
    OBVIOUS
  <2>1. k + 1 \in 1 .. n /\ k + 1 \in 0 .. n /\ U[k] \in Q /\ k + 1 - 1 = k /\ k + 1 # 0
    BY <1>0, <1>14
  <2>2. U[k + 1] = Joined(s, U[k], k + 1)
    <3>1. U[k + 1] = Joined(s, U[k + 1 - 1], k + 1)
      BY <1>12, <2>1
    <3> QED BY <2>1, <3>1
  <2> QED BY <1>3, <2>1, <2>2
<1> HIDE DEF T
<1>15. Nat \subseteq T
  BY <1>13, <1>14, Induction
<1>16. \A k \in 0 .. n : U[k] \in Q
  BY <1>0, <1>15 DEF T
<1>17. U \in [0 .. n -> Q]
  BY <1>11, <1>16
<1>18. U[0] = <<>> /\ \A k \in 1 .. n : U[k] = Joined(s, U[k - 1], k)
  <2>1. 0 \in 0 .. n /\ \A k \in 1 .. n : k \in 0 .. n /\ k # 0
    BY <1>0
  <2> QED BY <1>12, <2>1
<1>19. RangesUpTo(U, s, n)
  BY <1>17, <1>18 DEF RangesUpTo, Q
<1> QED BY <1>9, <1>19 DEF n

\* The ranges of a file are those of its runs of changed lines.
LEMMA RangesFollowRuns ==
    ASSUME NEW s \in Seq(Letter)
    PROVE  PartOK(s, ChangedRanges(s), Runs(s), 0, Len(Runs(s)))
<1> DEFINE H == Hunks(s)
           n == Len(H)
           C == Changed(s)
           End(m) == IF m = 0 THEN 0 ELSE H[m][2]
<1>1. PICK V : RangesUpTo(V, s, n) /\ ChangedRanges(s) = V[n]
  BY FileIsScanned
<1>2. Len(s) \in Nat /\ 0 \notin C /\ C \subseteq Shown(s) /\ C \subseteq 1 .. Len(s)
  BY Script
<1>3. PICK U : RunsAt(U, C, Len(s)) /\ Runs(s) = U[Len(s)]
  BY <1>2, RunsOfScan DEF Runs
<1>4. \A i \in 0 .. Len(s) : RunsTo(U[i], C, i) /\ Len(U[i]) \in Nat
  BY <1>2, <1>3, RunsAreMaximal DEF RunsTo
<1>5. /\ n \in Nat
      /\ \A k \in 1 .. n : HunkOK(s, H[k])
      /\ \A j \in 1 .. Len(s) : j \in Shown(s) => \E k \in 1 .. n : j \in H[k][1] .. H[k][2]
      /\ \A k, l \in 1 .. n : k < l => H[k][2] < H[l][1]
  BY HunksAreMaximal, HunkShape DEF RunsTo
<1>6. \A k \in 1 .. n : /\ H[k][1] \in Nat /\ H[k][2] \in Nat /\ 1 =< H[k][1] /\ H[k][1] =< H[k][2]
                        /\ H[k][2] =< Len(s) /\ H[k][1] - 1 \notin C
  BY <1>5 DEF HunkOK, Pairs
<1> HIDE DEF n, H
<1>7. ASSUME NEW m \in 0 .. n, NEW b \in 0 .. Len(s), m < n => b < H[m + 1][1]
      PROVE  /\ End(m) \in 0 .. Len(s)
             /\ \A j \in End(m) + 1 .. b : j \notin C
  <2>1. End(m) \in 0 .. Len(s)
    BY <1>2, <1>5, <1>6
  <2>2. ASSUME NEW j \in End(m) + 1 .. b, j \in C PROVE FALSE
    <3>1. PICK k \in 1 .. n : j \in H[k][1] .. H[k][2]
      BY <1>2, <1>5, <2>2
    <3>2. k \in Nat /\ j \in Nat /\ H[k][1] =< j /\ j =< H[k][2] /\ j =< b /\ End(m) < j /\ m \in Nat
      BY <1>2, <1>6, <2>1, <2>2, <3>1
    <3>3. CASE k =< m
      <4>1. m # 0 /\ m \in 1 .. n /\ End(m) = H[m][2]
        BY <1>5, <3>2, <3>3
      <4>2. H[k][2] =< H[m][2]
        <5>1. CASE k = m
          BY <1>6, <4>1, <5>1
        <5>2. CASE k < m
          <6>1. H[k][2] < H[m][1]
            BY <1>5, <4>1, <5>2
          <6> QED BY <1>6, <4>1, <6>1
        <5> QED BY <3>2, <3>3, <5>1, <5>2
      <4> QED BY <1>6, <3>2, <4>1, <4>2
    <3>4. CASE m < k
      <4>1. m < n /\ m + 1 \in 1 .. n
        BY <1>5, <3>2, <3>4
      <4>2. H[m + 1][1] =< H[k][1]
        <5>1. CASE k = m + 1
          BY <1>6, <4>1, <5>1
        <5>2. CASE m + 1 < k
          <6>1. H[m + 1][2] < H[k][1]
            BY <1>5, <4>1, <5>2
          <6> QED BY <1>6, <4>1, <6>1
        <5> QED BY <3>2, <3>4, <5>1, <5>2
      <4> QED BY <1>6, <1>7, <3>2, <4>1, <4>2
    <3> QED BY <3>2, <3>3, <3>4
  <2> QED BY <2>1, <2>2
<1> DEFINE T == {m \in Nat : m =< n => PartOK(s, V[m], U[End(m)], 0, Len(U[End(m)]))}
<1>8. 0 \in T
  <2>1. V[0] = <<>> /\ U[0] = <<>> /\ End(0) = 0
    BY <1>1, <1>3 DEF RangesUpTo, RunsAt
  <2>2. PartOK(s, <<>>, <<>>, 0, 0)
    <3>1. <<>> \in Seq(Int \X Int) /\ Len(<<>>) = 0 /\ 1 .. 0 = {} /\ 0 + 0 = 0
      OBVIOUS
    <3> QED BY <3>1 DEF PartOK
  <2> HIDE DEF End
  <2>3. Len(<<>>) = 0
    OBVIOUS
  <2> QED BY <2>1, <2>2, <2>3
<1> HIDE DEF End, C
<1>9. ASSUME NEW m \in Nat, m \in T PROVE m + 1 \in T
  <2> SUFFICES ASSUME m + 1 =< n PROVE PartOK(s, V[m + 1], U[End(m + 1)], 0, Len(U[End(m + 1)]))
    OBVIOUS
  <2>1. m \in 0 .. n /\ m + 1 \in 1 .. n /\ m + 1 - 1 = m /\ m < n /\ m + 1 # 0
    BY <1>5
  <2>2. PICK h : h = H[m + 1]
    OBVIOUS
  <2>3. /\ h[1] \in Nat /\ h[2] \in Nat /\ 1 =< h[1] /\ h[1] =< h[2] /\ h[2] =< Len(s)
        /\ h[1] - 1 \notin C /\ HunkOK(s, h)
    BY <1>5, <1>6, <2>1, <2>2
  <2>4. PICK a \in Nat : a = h[1] - 1
    BY <2>3
  <2>5. PICK b \in Nat : b = h[2]
    BY <2>3
  <2>6. a \in 0 .. Len(s) /\ b \in 0 .. Len(s) /\ a =< b /\ a < h[1] /\ a \notin C
    BY <1>2, <2>3, <2>4, <2>5
  <2>7. PICK e : e = End(m)
    OBVIOUS
  <2>8. e \in 0 .. Len(s) /\ \A j \in e + 1 .. a : j \notin C
    BY <1>7, <2>1, <2>2, <2>6, <2>7
  <2>9. e =< a /\ e \notin C
    <3>1. CASE m = 0
      BY <1>2, <2>4, <2>7, <3>1 DEF End, C
    <3>2. CASE m # 0
      <4>1. m \in 1 .. n /\ e = H[m][2] /\ m < m + 1
        BY <2>1, <2>7, <3>2 DEF End
      <4>2. e < h[1] /\ e \in Nat /\ e =< Len(s)
        BY <1>5, <1>6, <2>1, <2>2, <4>1
      <4>3. e =< a
        BY <2>3, <2>4, <4>2
      <4>4. e + 1 \in 1 .. Len(s) /\ e \in 1 .. Len(s)
        <5>1. e >= 1
          BY <1>6, <4>1, <4>2
        <5>2. Len(s) \in Nat
          BY <1>2
        <5> QED BY <2>3, <4>2, <5>1, <5>2
      <4>5. e \notin C
        <5> SUFFICES ASSUME e \in C PROVE FALSE
          OBVIOUS
        <5>1. e \in H[m][2] - GitContext + 1 .. H[m][2]
          BY <4>1, <4>2, Script
        <5>2. H[m][2] < Len(s) /\ HunkOK(s, H[m])
          BY <1>2, <1>5, <2>3, <4>1, <4>2
        <5> QED BY <5>1, <5>2 DEF HunkOK, C
      <4> QED BY <4>3, <4>5
    <3> QED BY <3>1, <3>2
  <2>10. U[a] = U[e]
    BY <1>2, <1>3, <2>6, <2>8, <2>9, RunsStay
  <2>11. Len(U[a]) \in Nat /\ Len(U[b]) \in Nat /\ Len(U[a]) =< Len(U[b]) /\ \A k \in 1 .. Len(U[a]) : U[b][k] = U[a][k]
    BY <1>2, <1>3, <2>6, RunsStay
  <2>12. PartOK(s, V[m], U[a], 0, Len(U[a]))
    BY <1>9, <2>1, <2>7, <2>10
  <2>13. PartOK(s, V[m], U[b], 0, Len(U[a]))
    BY <2>11, <2>12, PartKept
  <2>14. PartOK(s, HunkRanges(s, h), U[b], Len(U[a]), Len(U[b]))
    <3>1. RunsAt(U, Changed(s), Len(s))
      BY <1>3 DEF C
    <3>2. PartOK(s, HunkRanges(s, h), U[h[2]], Len(U[h[1] - 1]), Len(U[h[2]]))
      BY <2>3, <3>1, HunkFollowsRuns
    <3> QED BY <2>4, <2>5, <3>2
  <2>15. V[m + 1] = V[m] \o HunkRanges(s, h)
    <3>1. V[m + 1] = Joined(s, V[m], m + 1)
      BY <1>1, <2>1 DEF RangesUpTo
    <3> QED BY <2>2, <3>1 DEF Joined, H
  <2>16. PartOK(s, V[m] \o HunkRanges(s, h), U[b], 0, Len(U[b]))
    BY <2>11, <2>13, <2>14, PartsJoin
  <2>17. End(m + 1) = b
    BY <2>1, <2>2, <2>5 DEF End
  <2> QED BY <2>15, <2>16, <2>17
<1> HIDE DEF T
<1>10. Nat \subseteq T
  BY <1>8, <1>9, Induction
<1>11. PartOK(s, V[n], U[End(n)], 0, Len(U[End(n)]))
  BY <1>5, <1>10 DEF T
<1>12. U[Len(s)] = U[End(n)]
  <2>1. n \in 0 .. n /\ Len(s) \in 0 .. Len(s) /\ ~(n < n)
    BY <1>2, <1>5
  <2>2. End(n) \in 0 .. Len(s) /\ \A j \in End(n) + 1 .. Len(s) : j \notin C
    BY <1>7, <2>1
  <2>3. CASE End(n) = Len(s)
    BY <2>3
  <2>4. CASE End(n) # Len(s)
    <3>1. End(n) \notin C
      <4>1. CASE n = 0
        BY <1>2, <4>1 DEF End
      <4>2. CASE n # 0
        <5>1. n \in 1 .. n /\ End(n) = H[n][2]
          BY <1>5, <4>2 DEF End
        <5>2. H[n][2] \in Nat /\ H[n][2] < Len(s) /\ HunkOK(s, H[n])
          BY <1>2, <1>5, <1>6, <2>2, <2>4, <5>1
        <5>3. H[n][2] \in H[n][2] - GitContext + 1 .. H[n][2]
          BY <5>2, Script
        <5> QED BY <5>1, <5>2, <5>3 DEF HunkOK, C
      <4> QED BY <4>1, <4>2
    <3>2. End(n) =< Len(s)
      BY <1>2, <2>2
    <3> QED BY <1>2, <1>3, <2>1, <2>2, <3>1, <3>2, RunsStay
  <2> QED BY <2>3, <2>4
<1> QED BY <1>1, <1>3, <1>11, <1>12

\* What a run of changed lines holds, and the range it is reported as.
LEMMA ScriptRunShape ==
    ASSUME NEW s \in Seq(Letter), NEW k \in 1 .. Len(Runs(s))
    PROVE  LET r == Runs(s)[k]
           IN  /\ r[1] \in Nat /\ r[2] \in Nat /\ 1 =< r[1] /\ r[1] =< r[2] /\ r[2] =< Len(s)
               /\ \A j \in r[1] .. r[2] : j \in Changed(s)
               /\ r[1] - 1 \in Nat
<1> DEFINE r == Runs(s)[k]
<1>1. /\ Runs(s) \in Seq(Pairs) /\ 1 =< r[1] /\ r[1] =< r[2] /\ r[2] =< Len(s)
      /\ \A j \in r[1] .. r[2] : j \in Changed(s)
  BY HunksAreMaximal DEF RunsTo
<1>2. r \in Pairs
  BY <1>1
<1>3. r[1] \in Nat /\ r[2] \in Nat
  BY <1>2 DEF Pairs
<1>4. r[1] - 1 \in Nat
  BY <1>1, <1>3
<1> QED BY <1>1, <1>3, <1>4

Added(s, r) == {TargetLine(s, j) : j \in {i \in r[1] .. r[2] : s[i] = "+"}}
Place(s, r) == IF TargetLine(s, Len(s)) = 0 THEN 0 ELSE TargetLine(s, r[1]) + 1

LEMMA RangeIsAdded ==
    ASSUME NEW s \in Seq(Letter), NEW k \in 1 .. Len(Runs(s))
    PROVE  LET r == Runs(s)[k]  range == RangeOf(s, r)
           IN  range[1] .. range[2] = IF Added(s, r) # {} THEN Added(s, r) ELSE {Place(s, r)}
<1> DEFINE r == Runs(s)[k]
<1>1. PICK p \in Nat : p = r[1]
  BY ScriptRunShape
<1>2. PICK q \in Nat : q = r[2]
  BY ScriptRunShape
<1>3. /\ p - 1 \in Nat /\ 1 =< p /\ p =< q /\ q =< Len(s) /\ Len(s) \in Nat
      /\ \A j \in p .. q : j \in Nat /\ j - 1 \in Nat /\ s[j] \in {"+", "-"}
  <2>1. 1 =< p /\ p =< q /\ q =< Len(s) /\ \A j \in p .. q : j \in Changed(s)
    BY <1>1, <1>2, ScriptRunShape
  <2>2. \A j \in p .. q : s[j] \in {"+", "-"}
    BY <2>1, Script
  <2> QED BY <2>1, <2>2
<1>4. PICK b \in Nat : b = TargetLine(s, p - 1)
  BY <1>3, Counts
<1>5. PICK e \in Nat : e = TargetLine(s, q)
  BY Counts
<1>6. /\ p - 1 =< q /\ p - 1 + 1 = p
      /\ b =< e /\ (b = e <=> \A j \in p .. q : s[j] = "-")
      /\ TargetLine(s, Len(s)) \in Nat /\ e =< TargetLine(s, Len(s))
  <2>1. p - 1 =< q /\ p - 1 + 1 = p
    BY <1>3
  <2>2. b =< e /\ (b = e <=> \A j \in p - 1 + 1 .. q : s[j] = "-")
    BY <1>3, <1>4, <1>5, <2>1, LinesGoUp
  <2>3. TargetLine(s, Len(s)) \in Nat /\ e =< TargetLine(s, Len(s))
    BY <1>3, <1>5, Counts
  <2> QED BY <2>1, <2>2, <2>3
<1>7. RangeOf(s, r) = <<b + Base(s), Most(b + Base(s), e)>>
  BY <1>1, <1>2, <1>4, <1>5 DEF RangeOf
<1>8. Added(s, r) = {TargetLine(s, j) : j \in {i \in p .. q : s[i] = "+"}}
  BY <1>1, <1>2 DEF Added
<1>9. Place(s, r) = IF TargetLine(s, Len(s)) = 0 THEN 0 ELSE TargetLine(s, p) + 1
  BY <1>1 DEF Place
<1> HIDE DEF r
<1>10. CASE b = e
  <2>1. Added(s, r) = {}
    BY <1>6, <1>8, <1>10
  <2>2. TargetLine(s, p) = b
    <3>1. s[p] = "-" /\ p - 1 + 1 = p /\ TargetLine(s, p - 1 + 1) = b + (IF s[p - 1 + 1] = "-" THEN 0 ELSE 1)
      <4>1. p \in p .. q
        BY <1>3
      <4> QED BY <1>3, <1>4, <1>6, <1>10, <4>1, TargetLineStep
    <3> QED BY <3>1
  <2>3. Base(s) \in {0, 1} /\ (Base(s) = 0 <=> TargetLine(s, Len(s)) = 0)
    BY DEF Base
  <2>4. Place(s, r) = b + Base(s)
    BY <1>6, <1>9, <1>10, <2>2, <2>3 DEF Base
  <2>5. Most(b + Base(s), e) = b + Base(s)
    BY <1>10, <2>3 DEF Most
  <2>6. PICK v \in Nat : v = b + Base(s)
    BY <2>3
  <2>7. v .. v = {v}
    BY <2>6
  <2>8. RangeOf(s, r)[1] = v /\ RangeOf(s, r)[2] = v
    BY <1>7, <2>5, <2>6
  <2>9. RangeOf(s, r)[1] .. RangeOf(s, r)[2] = {Place(s, r)}
    BY <2>4, <2>6, <2>7, <2>8
  <2> QED BY <2>1, <2>9 DEF r
<1>11. CASE b # e
  <2>1. Base(s) = 1 /\ Most(b + Base(s), e) = e
    BY <1>6, <1>11 DEF Base, Most
  <2>2. ASSUME NEW x \in b + 1 .. e PROVE x \in Added(s, r)
    <3>1. PICK j \in p - 1 + 1 .. q : s[j] # "-" /\ TargetLine(s, j) = x
      BY <1>3, <1>4, <1>5, <1>6, LineIsSomewhere
    <3>2. j \in p .. q /\ s[j] = "+"
      BY <1>3, <1>6, <3>1
    <3> QED BY <1>8, <3>1, <3>2
  <2>3. ASSUME NEW j \in p .. q, s[j] = "+" PROVE TargetLine(s, j) \in b + 1 .. e
    <3>1. j \in Nat /\ j - 1 \in Nat /\ p - 1 =< j - 1 /\ j =< q /\ j - 1 + 1 = j
      BY <1>3
    <3>2. b =< TargetLine(s, j - 1) /\ TargetLine(s, j - 1) \in Nat
      BY <1>3, <1>4, <3>1, LinesGoUp, Counts
    <3>3. TargetLine(s, j) = TargetLine(s, j - 1) + 1
      <4>1. TargetLine(s, j - 1 + 1) = TargetLine(s, j - 1) + (IF s[j - 1 + 1] = "-" THEN 0 ELSE 1)
        BY <3>1, TargetLineStep
      <4> QED BY <2>3, <3>1, <4>1
    <3>4. TargetLine(s, j) =< e
      BY <1>5, <3>1, LinesGoUp
    <3> QED BY <3>2, <3>3, <3>4
  <2>4. Added(s, r) = b + 1 .. e
    BY <1>8, <2>2, <2>3
  <2>5. b + 1 .. e # {}
    <3>1. e \in b + 1 .. e
      BY <1>6, <1>11
    <3> QED BY <3>1
  <2> QED BY <1>7, <2>1, <2>4, <2>5 DEF r
<1> QED BY <1>10, <1>11

\* What the ranges of a file are.
LEMMA RangesAreRight ==
    ASSUME NEW s \in Seq(Letter)
    PROVE  /\ ChangedRanges(s) \in Seq(Int \X Int) /\ Len(ChangedRanges(s)) = Len(Runs(s))
           /\ Runs(s) \in Seq(Pairs)
           /\ \A k \in 1 .. Len(Runs(s)) :
                 LET r == ChangedRanges(s)[k]
                 IN  /\ r[1] \in Int /\ r[2] \in Int
                     /\ Base(s) =< r[1] /\ r[1] =< r[2] /\ r[2] =< Top(s)
                     /\ Tidy(s) => r = RangeOf(s, Runs(s)[k])
<1>1. PartOK(s, ChangedRanges(s), Runs(s), 0, Len(Runs(s)))
  BY RangesFollowRuns
<1>2. Runs(s) \in Seq(Pairs)
  BY HunksAreMaximal DEF RunsTo
<1>3. ChangedRanges(s) \in Seq(Int \X Int) /\ 0 + Len(ChangedRanges(s)) = Len(Runs(s))
  BY <1>1 DEF PartOK
<1>4. Len(ChangedRanges(s)) = Len(Runs(s))
  <2>1. Len(ChangedRanges(s)) \in Nat
    BY <1>3
  <2> QED BY <1>3, <2>1
<1>5. ASSUME NEW k \in 1 .. Len(Runs(s)) PROVE RangeOK(s, ChangedRanges(s)[k], Runs(s)[k])
  <2>1. 0 + k = k
    OBVIOUS
  <2>2. RangeOK(s, ChangedRanges(s)[k], Runs(s)[0 + k])
    BY <1>1, <1>4 DEF PartOK
  <2> QED BY <2>1, <2>2
<1> QED BY <1>2, <1>3, <1>4, <1>5 DEF RangeOK

-----------------------------------------------------------------------------
(* Anchors and evidence.                                                   *)

\* Lines that are there count.
LEMMA LinesCount ==
    ASSUME NEW s, NEW i \in Nat, NEW d \in Nat, \A k \in i + 1 .. i + d : s[k] # "-"
    PROVE  TargetLine(s, i + d) = TargetLine(s, i) + d
<1> DEFINE T == {n \in Nat : n =< d => TargetLine(s, i + n) = TargetLine(s, i) + n}
<1>1. 0 \in T
  <2>1. TargetLine(s, i) \in Nat /\ i + 0 = i
    BY TargetLineStep
  <2> QED BY <2>1
<1>2. ASSUME NEW n \in Nat, n \in T PROVE n + 1 \in T
  <2> SUFFICES ASSUME n + 1 =< d PROVE TargetLine(s, i + (n + 1)) = TargetLine(s, i) + (n + 1)
    OBVIOUS
  <2>1. PICK m \in Nat : m = i + n
    OBVIOUS
  <2>2. TargetLine(s, m + 1) = TargetLine(s, m) + (IF s[m + 1] = "-" THEN 0 ELSE 1)
    BY TargetLineStep
  <2>3. m + 1 \in i + 1 .. i + d /\ i + (n + 1) = m + 1
    BY <2>1
  <2>4. TargetLine(s, m) = TargetLine(s, i) + n /\ TargetLine(s, i) \in Nat
    BY <1>2, <2>1, TargetLineStep
  <2> QED BY <2>2, <2>3, <2>4
<1> HIDE DEF T
<1>3. Nat \subseteq T
  BY <1>1, <1>2, Induction
<1> QED BY <1>3 DEF T

\* The lines that a hunk shows of the target file.
Shows(s, h, line) == TargetLine(s, h[1] - 1) < line /\ line =< TargetLine(s, h[2])

\* A run is in a hunk, with the lines around it or all that there are.
LEMMA RunInHunk ==
    ASSUME NEW s \in Seq(Letter), NEW k \in 1 .. Len(Runs(s))
    PROVE  \E l \in 1 .. Len(Hunks(s)) :
              LET h == Hunks(s)[l]  r == Runs(s)[k]
              IN  /\ h[1] =< r[1] /\ r[2] =< h[2]
                  /\ h[1] > 1 => h[1] + GitContext =< r[1]
                  /\ h[2] < Len(s) => r[2] + GitContext =< h[2]
<1>1. PICK p \in Nat : p = Runs(s)[k][1]
  BY ScriptRunShape
<1>2. PICK q \in Nat : q = Runs(s)[k][2]
  BY ScriptRunShape
<1>3. 1 =< p /\ p =< q /\ q =< Len(s) /\ (\A j \in p .. q : j \in Changed(s)) /\ Len(s) \in Nat
  BY <1>1, <1>2, ScriptRunShape
<1>4. p \in 1 .. Len(s) /\ p \in Shown(s)
  <2>1. p \in 1 .. Len(s) /\ p \in p .. q
    BY <1>3
  <2> QED BY <1>3, <2>1, Script
<1>5. PICK l \in 1 .. Len(Hunks(s)) : p \in Hunks(s)[l][1] .. Hunks(s)[l][2]
  BY <1>4, HunksAreMaximal DEF RunsTo
<1>6. PICK h : h = Hunks(s)[l]
  OBVIOUS
<1>7. HunkOK(s, h) /\ (h[2] = Len(s) \/ h[2] + 1 \notin Shown(s))
  BY <1>6, HunksAreMaximal, HunkShape DEF RunsTo
<1>8. PICK a \in Nat : a = h[1]
  BY <1>7 DEF HunkOK, Pairs
<1>9. PICK b \in Nat : b = h[2]
  BY <1>7 DEF HunkOK, Pairs
<1>10. a =< p /\ p =< b /\ b =< Len(s) /\ GitContext \in Nat /\ GitContext >= 1
  <2>1. GitContext \in Nat /\ GitContext >= 1
    BY Script
  <2> QED BY <1>5, <1>6, <1>7, <1>8, <1>9, <2>1 DEF HunkOK
<1>11. q =< b
  <2> SUFFICES ASSUME b < q PROVE FALSE
    BY <1>10
  <2>1. b + 1 \in p .. q /\ b # Len(s)
    BY <1>3, <1>10
  <2>2. b + 1 \in Shown(s)
    BY <1>3, <2>1, Script
  <2> QED BY <1>7, <1>9, <2>1, <2>2
<1>12. ASSUME a > 1 PROVE a + GitContext =< p
  <2> SUFFICES ASSUME ~(a + GitContext =< p) PROVE FALSE
    OBVIOUS
  <2>1. p \in a .. a + GitContext - 1 /\ p \in p .. q
    BY <1>3, <1>10
  <2> QED BY <1>3, <1>7, <1>8, <1>12, <2>1 DEF HunkOK
<1>13. ASSUME b < Len(s) PROVE q + GitContext =< b
  <2> SUFFICES ASSUME ~(q + GitContext =< b) PROVE FALSE
    OBVIOUS
  <2>1. q \in b - GitContext + 1 .. b /\ q \in p .. q
    BY <1>3, <1>10, <1>11
  <2> QED BY <1>3, <1>7, <1>9, <1>13, <2>1 DEF HunkOK
<1>14. /\ h[1] =< Runs(s)[k][1] /\ Runs(s)[k][2] =< h[2]
       /\ h[1] > 1 => h[1] + GitContext =< Runs(s)[k][1]
       /\ h[2] < Len(s) => Runs(s)[k][2] + GitContext =< h[2]
  BY <1>1, <1>2, <1>8, <1>9, <1>10, <1>11, <1>12, <1>13
<1> QED BY <1>6, <1>14

\* An anchored line is shown by a hunk.
LEMMA AnchoredIsShown ==
    ASSUME NEW s \in Seq(Letter), Tidy(s), NEW line \in 1 .. TargetLine(s, Len(s)),
           Anchors(line, ChangedRanges(s))
    PROVE  \E l \in 1 .. Len(Hunks(s)) : Shows(s, Hunks(s)[l], line)
<1>1. PICK k \in 1 .. Len(Runs(s)) : ChangedRanges(s)[k][1] - Tolerance =< line /\ line =< ChangedRanges(s)[k][2] + Tolerance
  BY RangesAreRight DEF Anchors
<1>2. PICK p \in Nat : p = Runs(s)[k][1]
  BY ScriptRunShape
<1>3. PICK q \in Nat : q = Runs(s)[k][2]
  BY ScriptRunShape
<1>4. /\ 1 =< p /\ p =< q /\ q =< Len(s) /\ Len(s) \in Nat /\ p - 1 \in Nat
      /\ GitContext \in Nat /\ Tolerance \in Nat /\ Tolerance < GitContext
  BY <1>2, <1>3, ScriptRunShape, Script
<1>5. PICK l \in 1 .. Len(Hunks(s)) :
          /\ Hunks(s)[l][1] =< p /\ q =< Hunks(s)[l][2]
          /\ Hunks(s)[l][1] > 1 => Hunks(s)[l][1] + GitContext =< p
          /\ Hunks(s)[l][2] < Len(s) => q + GitContext =< Hunks(s)[l][2]
  BY <1>2, <1>3, RunInHunk
<1>6. HunkOK(s, Hunks(s)[l])
  BY HunkShape
<1>7. PICK a \in Nat : a = Hunks(s)[l][1]
  BY <1>6 DEF HunkOK, Pairs
<1>8. PICK b \in Nat : b = Hunks(s)[l][2]
  BY <1>6 DEF HunkOK, Pairs
<1>9. 1 =< a /\ a =< p /\ q =< b /\ b =< Len(s) /\ a - 1 \in Nat
  BY SMTT(20), <1>5, <1>6, <1>7, <1>8 DEF HunkOK
<1>10. PICK x \in Nat : x = TargetLine(s, p - 1)
  BY <1>4, Counts
<1>11. PICK y \in Nat : y = TargetLine(s, q)
  BY <1>4, Counts
<1>12. /\ Base(s) = 1 /\ line \in Nat /\ line >= 1
       /\ TargetLine(s, a - 1) \in Nat /\ TargetLine(s, b) \in Nat /\ x =< y
       /\ TargetLine(s, Len(s)) \in Nat
  <2>1. TargetLine(s, Len(s)) \in Nat /\ TargetLine(s, a - 1) \in Nat /\ TargetLine(s, b) \in Nat
    BY <1>4, <1>9, Counts
  <2>2. x =< y
    <3>1. p - 1 =< q
      BY <1>4
    <3> QED BY <1>4, <1>10, <1>11, <3>1, LinesGoUp
  <2> QED BY <2>1, <2>2 DEF Base
<1>16. PICK z \in Nat : z = Most(x + 1, y)
  BY DEF Most
<1>13. x + 1 - Tolerance =< line /\ line =< z + Tolerance
  <2>1. ChangedRanges(s)[k] = RangeOf(s, Runs(s)[k])
    BY RangesAreRight
  <2>2. RangeOf(s, Runs(s)[k]) = <<x + 1, z>>
    BY <1>2, <1>3, <1>10, <1>11, <1>12, <1>16 DEF RangeOf
  <2>3. ChangedRanges(s)[k][1] = x + 1 /\ ChangedRanges(s)[k][2] = z
    BY <2>1, <2>2
  <2>4. PICK lo, hi : lo = ChangedRanges(s)[k][1] /\ hi = ChangedRanges(s)[k][2]
    OBVIOUS
  <2>5. lo - Tolerance =< line /\ line =< hi + Tolerance
    BY <1>1, <2>4
  <2>6. lo = x + 1 /\ hi = z
    BY <2>3, <2>4
  <2> QED BY <1>4, <2>5, <2>6
<1>14. TargetLine(s, a - 1) < line
  <2>1. CASE a = 1
    <3>1. a - 1 = 0 /\ TargetLine(s, 0) = 0
      BY <2>1, TargetLineStep
    <3> QED BY <1>12, <3>1
  <2>2. CASE a # 1
    <3>1. a > 1 /\ a + GitContext =< p
      BY SMTT(20), <1>5, <1>7, <1>9, <2>2
    <3>2. \A j \in a - 1 + 1 .. a - 1 + GitContext : s[j] # "-"
      <4> SUFFICES ASSUME NEW j \in a - 1 + 1 .. a - 1 + GitContext, s[j] = "-" PROVE FALSE
        OBVIOUS
      <4>1. j \in a .. a + GitContext - 1 /\ j \in 1 .. Len(s)
        BY <1>4, <1>9, <3>1
      <4>2. j \in Changed(s)
        BY <4>1, Script
      <4> QED BY <1>6, <1>7, <3>1, <4>1, <4>2 DEF HunkOK
    <3>3. TargetLine(s, a - 1 + GitContext) = TargetLine(s, a - 1) + GitContext
      BY <1>4, <1>9, <3>2, LinesCount
    <3>4. a - 1 + GitContext =< p - 1 /\ a - 1 + GitContext \in Nat
      BY <1>4, <1>9, <3>1
    <3>5. TargetLine(s, a - 1 + GitContext) =< x
      BY <1>4, <1>10, <3>4, LinesGoUp
    <3> QED BY SMTT(20), <1>4, <1>12, <1>13, <3>3, <3>5
  <2> QED BY <2>1, <2>2
<1>15. line =< TargetLine(s, b)
  <2>1. CASE b = Len(s)
    BY <1>12, <2>1
  <2>2. CASE b # Len(s)
    <3>1. b < Len(s) /\ q + GitContext =< b
      BY <1>4, <1>5, <1>8, <1>9, <2>2
    <3>2. PICK c \in Nat : c = b - GitContext
      BY <1>4, <3>1
    <3>3. q =< c /\ c + GitContext = b
      BY <1>4, <3>1, <3>2
    <3>4. \A j \in c + 1 .. c + GitContext : s[j] # "-"
      <4> SUFFICES ASSUME NEW j \in c + 1 .. c + GitContext, s[j] = "-" PROVE FALSE
        OBVIOUS
      <4>1. j \in b - GitContext + 1 .. b /\ j \in 1 .. Len(s)
        BY <1>4, <1>9, <3>2, <3>3
      <4>2. j \in Changed(s)
        BY <4>1, Script
      <4> QED BY <1>6, <1>8, <3>1, <4>1, <4>2 DEF HunkOK
    <3>5. TargetLine(s, b) = TargetLine(s, c) + GitContext
      <4>1. GitContext \in Nat
        BY <1>4
      <4>2. TargetLine(s, c + GitContext) = TargetLine(s, c) + GitContext
        BY <3>4, <4>1, LinesCount
      <4> QED BY <3>3, <4>2
    <3>6. y =< TargetLine(s, c) /\ TargetLine(s, c) \in Nat
      BY <1>11, <3>3, LinesGoUp, Counts
    <3>7. z =< y + 1
      BY <1>12, <1>16 DEF Most
    <3>8. line =< y + GitContext
      BY <1>4, <1>12, <1>13, <3>7
    <3> QED BY SMTT(20), <1>4, <1>12, <3>5, <3>6, <3>8
  <2> QED BY <2>1, <2>2
<1> QED BY <1>7, <1>8, <1>14, <1>15 DEF Shows

\* The hunk of an existing line, and how far the others are.
LEMMA DistanceIs ==
    ASSUME NEW s \in Seq(Letter), NEW h, HunkOK(s, h), NEW line \in 1 .. TargetLine(s, Len(s))
    PROVE  /\ Distance(s, h, line) \in Nat
           /\ Distance(s, h, line) = 0 <=> Shows(s, h, line)
<1>1. h[1] \in Nat /\ h[2] \in Nat /\ 1 =< h[1] /\ h[2] =< Len(s) /\ Len(s) \in Nat /\ h[1] - 1 \in Nat
  BY Script DEF HunkOK, Pairs
<1>2. PICK b \in Nat : b = TargetLine(s, h[1] - 1)
  BY <1>1, Counts
<1>3. PICK e \in Nat : e = TargetLine(s, h[2])
  BY <1>1, Counts
<1>4. TargetLine(s, Len(s)) \in Nat /\ Base(s) = 1 /\ line \in Nat
  <2>1. TargetLine(s, Len(s)) \in Nat
    BY <1>1, Counts
  <2> QED BY <2>1 DEF Base
<1>5. HunkStart(s, h) = b + 1 /\ b < e
  BY <1>2, <1>3, <1>4, HunkStartIs
<1>6. Distance(s, h, line) = IF line < b + 1 THEN b + 1 - line ELSE Most(0, line - (b + 1 + Most(e - b, 1) - 1))
  BY <1>2, <1>3, <1>5 DEF Distance
<1>7. b + 1 + Most(e - b, 1) - 1 = e
  BY <1>5 DEF Most
<1>8. Distance(s, h, line) = IF line < b + 1 THEN b + 1 - line ELSE Most(0, line - e)
  BY <1>6, <1>7
<1> QED BY <1>2, <1>3, <1>4, <1>5, <1>8 DEF Most, Shows

LEMMA EvidenceShowsLine ==
    ASSUME NEW s \in Seq(Letter), Tidy(s), NEW line \in 1 .. TargetLine(s, Len(s)),
           Anchors(line, ChangedRanges(s))
    PROVE  LET h == NearestHunk(s, line)
           IN  \E j \in h[1] .. h[2] : s[j] # "-" /\ TargetLine(s, j) = line
<1> DEFINE H == Hunks(s)
           far(i) == Distance(s, H[i], line)
           Best(i) == \A j \in DOMAIN H : far(i) < far(j) \/ (far(i) = far(j) /\ i =< j)
           D == DOMAIN H
<1>1. PICK l \in 1 .. Len(H) : Shows(s, H[l], line)
  BY AnchoredIsShown
<1>2. D = 1 .. Len(H) /\ Len(H) \in Nat
  BY HunksAreMaximal DEF RunsTo
<1>3. \A i \in D : far(i) \in Nat /\ (far(i) = 0 <=> Shows(s, H[i], line))
  BY <1>2, HunkShape, DistanceIs
<1> DEFINE Zero == {i \in D : far(i) = 0}
<1> HIDE DEF H, D
<1>4. PICK i \in Zero : \A j \in Zero : i =< j
  <2>1. Zero \in SUBSET Nat /\ Zero # {}
    <3>1. l \in Zero
      BY <1>1, <1>2, <1>3
    <3>2. Zero \in SUBSET Nat
      BY <1>2
    <3> QED BY <3>1, <3>2
  <2> HIDE DEF Zero
  <2> QED BY <2>1, LeastNatural
<1>5. i \in D /\ far(i) = 0 /\ \A j \in D : far(j) = 0 => i =< j
  BY <1>4
<1> HIDE DEF far
<1>6. \E m \in D : Best(m)
  <2>1. \A j \in D : far(i) < far(j) \/ (far(i) = far(j) /\ i =< j)
    BY <1>3, <1>5
  <2> QED BY <1>5, <2>1 DEF D
<1>7. PICK m \in D : NearestHunk(s, line) = H[m] /\ Best(m)
  <2>1. NearestHunk(s, line) = H[CHOOSE m \in D : Best(m)]
    BY DEF NearestHunk, H, D, far
  <2> HIDE DEF Best
  <2> QED BY <1>6, <2>1
<1>8. far(m) = 0
  <2>1. far(m) \in Nat /\ far(i) = 0 /\ (far(m) < far(i) \/ far(m) = far(i))
    BY <1>3, <1>5, <1>7 DEF D
  <2> QED BY <2>1
<1>9. PICK h : h = H[m]
  OBVIOUS
<1>10. Shows(s, h, line) /\ HunkOK(s, h)
  <2>1. HunkOK(s, H[m])
    BY <1>2, HunkShape DEF H
  <2>2. Shows(s, H[m], line)
    BY <1>3, <1>8
  <2> QED BY <1>9, <2>1, <2>2
<1>11. h[1] \in Nat /\ h[2] \in Nat /\ 1 =< h[1] /\ h[1] =< h[2] /\ h[1] - 1 \in Nat
  BY <1>10 DEF HunkOK, Pairs
<1>12. TargetLine(s, h[1] - 1) \in Nat /\ TargetLine(s, h[2]) \in Nat /\ line \in Nat
  <2>1. TargetLine(s, h[1] - 1) \in Nat
    BY <1>11, TargetLineStep
  <2>2. TargetLine(s, h[2]) \in Nat
    BY <1>11, TargetLineStep
  <2>3. TargetLine(s, Len(s)) \in Nat
    BY Script, TargetLineStep
  <2> QED BY <2>1, <2>2, <2>3
<1>13. PICK a \in Nat : a = h[1] - 1
  BY <1>11
<1>14. PICK b \in Nat : b = h[2]
  BY <1>11
<1>15. a =< b /\ a + 1 = h[1] /\ line \in TargetLine(s, a) + 1 .. TargetLine(s, b)
  <2>1. a =< b /\ a + 1 = h[1]
    BY <1>11, <1>13, <1>14
  <2>2. TargetLine(s, a) < line /\ line =< TargetLine(s, b)
    BY <1>10, <1>13, <1>14 DEF Shows
  <2>3. TargetLine(s, a) \in Nat /\ TargetLine(s, b) \in Nat
    BY <1>12, <1>13, <1>14
  <2> QED BY <1>12, <2>1, <2>2, <2>3
<1>16. PICK j \in a + 1 .. b : s[j] # "-" /\ TargetLine(s, j) = line
  BY <1>15, LineIsSomewhere
<1>17. j \in h[1] .. h[2]
  BY <1>14, <1>15, <1>16
<1> QED BY <1>7, <1>9, <1>16, <1>17

-----------------------------------------------------------------------------
(* Excerpts: ranges sorted, merged and cut.                                *)

LEMMA BeforeOrders ==
    ASSUME NEW S, S \subseteq Int \X Int
    PROVE  /\ \A x \in S : ~Before(x, x)
           /\ \A x, y \in S : x = y \/ Before(x, y) \/ Before(y, x)
           /\ \A x, y, z \in S : Before(x, y) /\ Before(y, z) => Before(x, z)
<1>1. \A x \in S : x = <<x[1], x[2]>> /\ x[1] \in Int /\ x[2] \in Int
  OBVIOUS
<1>2. \A x \in S : ~Before(x, x)
  BY <1>1 DEF Before
<1>3. ASSUME NEW x \in S, NEW y \in S, ~Before(x, y), ~Before(y, x) PROVE x = y
  <2>1. x[1] = y[1] /\ x[2] = y[2]
    BY <1>1, <1>3 DEF Before
  <2> QED BY <1>1, <2>1
<1>4. ASSUME NEW x \in S, NEW y \in S, NEW z \in S, Before(x, y), Before(y, z) PROVE Before(x, z)
  <2>1. /\ x[1] \in Int /\ x[2] \in Int /\ y[1] \in Int /\ y[2] \in Int /\ z[1] \in Int /\ z[2] \in Int
    BY <1>1
  <2> QED BY <1>4, <2>1 DEF Before
<1> QED BY <1>2, <1>3, <1>4

\* A finite set of pairs, every one once, and in order.
LEMMA SortedSorts ==
    ASSUME NEW S, IsFiniteSet(S), S \subseteq Int \X Int
    PROVE  LET o == Sorted(S)  n == Cardinality(S)
           IN  /\ n \in Nat /\ o \in [1 .. n -> S]
               /\ \A x \in S : \E k \in 1 .. n : o[k] = x
               /\ \A a, b \in 1 .. n : a < b => Before(o[a], o[b])
<1> DEFINE o == Sorted(S)
           n == Cardinality(S)
           Below(x) == {j \in S : Before(j, x)}
           rank == [x \in S |-> Cardinality(Below(x))]
<1>0. /\ \A x \in S : ~Before(x, x)
      /\ \A x, y \in S : x = y \/ Before(x, y) \/ Before(y, x)
      /\ \A x, y, z \in S : Before(x, y) /\ Before(y, z) => Before(x, z)
  BY BeforeOrders
<1>1. n \in Nat
  BY FS_CardinalityType
<1>2. ASSUME NEW x \in S PROVE IsFiniteSet(Below(x)) /\ Cardinality(Below(x)) \in 0 .. n - 1
  <2>1. Below(x) \in SUBSET S /\ x \notin Below(x)
    BY <1>0
  <2> HIDE DEF Below
  <2>2. IsFiniteSet(Below(x)) /\ Cardinality(Below(x)) =< n /\ (n = Cardinality(Below(x)) => S = Below(x))
    BY <2>1, FS_Subset
  <2>3. Cardinality(Below(x)) \in Nat /\ Cardinality(Below(x)) # n
    BY <2>1, <2>2, FS_CardinalityType
  <2> QED BY <1>1, <2>2, <2>3
<1>3. ASSUME NEW x \in S, NEW y \in S, Before(x, y) PROVE rank[x] < rank[y]
  <2>1. Below(x) \in SUBSET Below(y) /\ x \in Below(y) /\ x \notin Below(x)
    BY <1>0, <1>3
  <2> HIDE DEF Below
  <2>2. IsFiniteSet(Below(y)) /\ Cardinality(Below(x)) \in Nat /\ Cardinality(Below(y)) \in Nat
    BY <1>1, <1>2
  <2>3. Cardinality(Below(x)) =< Cardinality(Below(y)) /\ Cardinality(Below(x)) # Cardinality(Below(y))
    BY <2>1, <2>2, FS_Subset
  <2> QED BY <2>2, <2>3
<1>4. rank \in [S -> 0 .. n - 1]
  BY <1>2
<1>5. \A x \in S : rank[x] = Cardinality(Below(x))
  OBVIOUS
<1> HIDE DEF rank
<1>6. \A x, y \in S : rank[x] = rank[y] => x = y
  <2> SUFFICES ASSUME NEW x \in S, NEW y \in S, x # y PROVE rank[x] # rank[y]
    OBVIOUS
  <2>1. rank[x] \in Int /\ rank[y] \in Int
    BY <1>1, <1>4
  <2>2. rank[x] < rank[y] \/ rank[y] < rank[x]
    BY <1>0, <1>3
  <2> QED BY <2>1, <2>2
<1>7. \A r \in 0 .. n - 1 : \E x \in S : rank[x] = r
  <2> DEFINE Ranks == 0 .. n - 1
  <2>1. IsFiniteSet(Ranks) /\ Cardinality(Ranks) = n
    <3>1. 0 \in Int /\ n - 1 \in Int
      BY <1>1
    <3>2. IsFiniteSet(Ranks) /\ Cardinality(Ranks) = IF 0 > n - 1 THEN 0 ELSE n - 1 - 0 + 1
      BY <3>1, FS_Interval
    <3> HIDE DEF n, Ranks
    <3>3. (0 > n - 1 => n = 0) /\ n - 1 - 0 + 1 = n
      BY <1>1
    <3> QED BY <3>2, <3>3
  <2>2. rank \in Injection(S, Ranks)
    BY <1>4, <1>6 DEF Injection, IsInjective
  <2> HIDE DEF Ranks
  <2>3. rank \in Surjection(S, Ranks)
    BY <2>1, <2>2, FS_Injection
  <2>4. \A r \in Ranks : \E x \in S : rank[x] = r
    BY <2>3 DEF Surjection
  <2> QED BY <2>4 DEF Ranks
<1> DEFINE pick(k) == CHOOSE i \in S : Cardinality(Below(i)) = k - 1
<1>8. o = [k \in 1 .. n |-> pick(k)]
  BY DEF Sorted
<1>9. \A k \in 1 .. n : o[k] \in S /\ rank[o[k]] = k - 1
  <2> SUFFICES ASSUME NEW k \in 1 .. n PROVE o[k] \in S /\ rank[o[k]] = k - 1
    OBVIOUS
  <2> HIDE DEF o, Below
  <2>0. o[k] = pick(k)
    BY <1>8
  <2>1. k - 1 \in 0 .. n - 1
    BY <1>1
  <2>2. \E i \in S : Cardinality(Below(i)) = k - 1
    BY <1>5, <1>7, <2>1
  <2>3. o[k] \in S /\ Cardinality(Below(o[k])) = k - 1
    BY <2>0, <2>2
  <2> QED BY <1>5, <2>3
<1>10. o \in [1 .. n -> S]
  <2> HIDE DEF o, pick
  <2> QED BY <1>8, <1>9
<1> HIDE DEF o, Below, pick
<1>11. ASSUME NEW x \in S PROVE \E k \in 1 .. n : o[k] = x
  <2>1. rank[x] \in 0 .. n - 1 /\ rank[x] + 1 \in 1 .. n /\ rank[x] + 1 - 1 = rank[x]
    BY <1>1, <1>4
  <2> QED BY <1>6, <1>9, <2>1
<1>12. ASSUME NEW a \in 1 .. n, NEW b \in 1 .. n, a < b PROVE Before(o[a], o[b])
  <2>1. o[a] \in S /\ o[b] \in S /\ rank[o[a]] = a - 1 /\ rank[o[b]] = b - 1
    BY <1>9
  <2>2. ~(b - 1 < a - 1) /\ a - 1 # b - 1
    BY <1>1, <1>12
  <2>3. o[a] # o[b] /\ ~Before(o[b], o[a])
    BY <1>3, <2>1, <2>2
  <2> QED BY <1>0, <2>1, <2>3
<1> QED BY <1>1, <1>10, <1>11, <1>12 DEF o

\* What merging does to sorted ranges, range by range.
MergedUpTo(V, o, n) ==
    /\ V \in [0 .. n -> Seq(Int \X Int)] /\ V[0] = <<>>
    /\ \A k \in 1 .. n : V[k] = MergeOne(V[k - 1], o[k])

LEMMA MergeType ==
    ASSUME NEW x \in Seq(Int \X Int), NEW r \in Int \X Int
    PROVE  MergeOne(x, r) \in Seq(Int \X Int)
<1> DEFINE L == Len(x)
<1>0. r[1] \in Int /\ r[2] \in Int /\ r = <<r[1], r[2]>>
  OBVIOUS
<1>1. CASE x # <<>> /\ r[1] =< x[L][2] + 1
  <2>1. L \in 1 .. L /\ x[L] \in Int \X Int
    BY <1>1
  <2>2. x[L][1] \in Int /\ x[L][2] \in Int
    BY <2>1
  <2> DEFINE new == <<x[L][1], Most(x[L][2], r[2])>>
  <2>3. new \in Int \X Int
    BY <1>0, <2>2 DEF Most
  <2>4. MergeOne(x, r) = [x EXCEPT ![L] = new]
    BY <1>1 DEF MergeOne
  <2> HIDE DEF new
  <2> QED BY <2>1, <2>3, <2>4
<1>2. CASE ~(x # <<>> /\ r[1] =< x[L][2] + 1)
  BY <1>2 DEF MergeOne
<1> QED BY <1>1, <1>2

LEMMA MergeScan ==
    ASSUME NEW D, IsFiniteSet(D), D \subseteq Int \X Int
    PROVE  \E V : MergedUpTo(V, Sorted(D), Cardinality(D)) /\ MergeRanges(D) = V[Cardinality(D)]
<1> DEFINE o == Sorted(D)
           n == Cardinality(D)
           Q == Seq(Int \X Int)
           f == [e \in (1 .. n) \X Q |-> MergeOne(e[2], o[e[1]])]
           Is(V) == V = [k \in 0 .. n |-> IF k = 0 THEN <<>> ELSE MergeOne(V[k - 1], o[k])]
<1>0. n \in Nat /\ o \in [1 .. n -> D]
  BY SortedSorts
<1>1. <<>> \in Q /\ Len(o) = n
  BY <1>0
<1>2. \A k \in 1 .. n, x \in Q : f[<<k, x>>] = MergeOne(x, o[k])
  OBVIOUS
<1>3. \A k \in 1 .. n, x \in Q : MergeOne(x, o[k]) \in Q
  <2> SUFFICES ASSUME NEW k \in 1 .. n, NEW x \in Q PROVE MergeOne(x, o[k]) \in Q
    OBVIOUS
  <2>1. o[k] \in Int \X Int
    <3> HIDE DEF o, n
    <3> QED BY <1>0
  <2> QED BY <2>1, MergeType
<1>4. f \in [(1 .. n) \X Q -> Q]
  <2>1. \A e \in (1 .. n) \X Q : MergeOne(e[2], o[e[1]]) \in Q
    <3> HIDE DEF n, Q, o
    <3> QED BY <1>3
  <2> HIDE DEF Q, n, o
  <2> QED BY <2>1
<1> HIDE DEF f, Q, n, o
<1>5. PICK W : Iterates(W, Q, <<>>, f, n)
  BY <1>0, <1>1, <1>4, Iteration
<1>6. W \in [0 .. n -> Q] /\ W[0] = <<>> /\ \A k \in 1 .. n : W[k] = f[<<k, W[k - 1]>>]
  BY <1>5 DEF Iterates
<1>7. ASSUME NEW k \in 1 .. n PROVE W[k] = MergeOne(W[k - 1], o[k])
  <2>1. k - 1 \in 0 .. n
    BY <1>0
  <2>2. W[k - 1] \in Q
    BY <1>6, <2>1
  <2> QED BY <1>2, <1>6, <2>2
<1>8. Is(W)
  <2>1. \A k \in 0 .. n : W[k] = IF k = 0 THEN <<>> ELSE MergeOne(W[k - 1], o[k])
    <3>1. \A k \in 0 .. n : k = 0 \/ k \in 1 .. n
      BY <1>0
    <3>2. \A k \in 1 .. n : k # 0
      BY <1>0
    <3> QED BY <1>6, <1>7, <3>1, <3>2
  <2> QED BY <1>6, <2>1
<1> DEFINE U == CHOOSE V : Is(V)
<1>9. MergeRanges(D) = U[n]
  <2>1. MergeRanges(D) = (CHOOSE V : V = [k \in 0 .. Len(o) |-> IF k = 0 THEN <<>> ELSE MergeOne(V[k - 1], o[k])])[Len(o)]
    BY DEF MergeRanges, o
  <2> QED BY <1>1, <2>1
<1> HIDE DEF Is
<1>10. Is(U)
  BY <1>8
<1> HIDE DEF U
<1>11. U = [k \in 0 .. n |-> IF k = 0 THEN <<>> ELSE MergeOne(U[k - 1], o[k])]
  BY <1>10 DEF Is
<1>12. \A k \in 0 .. n : U[k] = IF k = 0 THEN <<>> ELSE MergeOne(U[k - 1], o[k])
  BY <1>11
<1> DEFINE T == {k \in Nat : k =< n => U[k] \in Q}
<1>13. 0 \in T
  <2>1. U[0] = <<>>
    <3>1. 0 \in 0 .. n
      BY <1>0
    <3> QED BY <1>12, <3>1
  <2> QED BY <1>1, <2>1
<1>14. ASSUME NEW k \in Nat, k \in T PROVE k + 1 \in T
  <2> SUFFICES ASSUME k + 1 =< n PROVE U[k + 1] \in Q
    OBVIOUS
  <2>1. k + 1 \in 1 .. n /\ k + 1 \in 0 .. n /\ U[k] \in Q /\ k + 1 - 1 = k /\ k + 1 # 0
    BY <1>0, <1>14
  <2>2. U[k + 1] = MergeOne(U[k], o[k + 1])
    <3>1. U[k + 1] = MergeOne(U[k + 1 - 1], o[k + 1])
      BY <1>12, <2>1
    <3> QED BY <2>1, <3>1
  <2> QED BY <1>3, <2>1, <2>2
<1> HIDE DEF T
<1>15. Nat \subseteq T
  BY <1>13, <1>14, Induction
<1>16. \A k \in 0 .. n : U[k] \in Q
  BY <1>0, <1>15 DEF T
<1>17. U \in [0 .. n -> Q]
  BY <1>11, <1>16
<1>18. U[0] = <<>> /\ \A k \in 1 .. n : U[k] = MergeOne(U[k - 1], o[k])
  <2>1. 0 \in 0 .. n /\ \A k \in 1 .. n : k \in 0 .. n /\ k # 0
    BY <1>0
  <2> QED BY <1>12, <2>1
<1>19. MergedUpTo(U, o, n)
  BY <1>17, <1>18 DEF MergedUpTo, Q
<1> QED BY <1>9, <1>19 DEF n, o

\* Merged ranges hold the ranges they are made of, and start and end as they do.
Holds(x, r) == \E l \in 1 .. Len(x) : x[l][1] =< r[1] /\ r[2] =< x[l][2]
MergedOK(x, D) ==
    /\ x \in Seq(Int \X Int)
    /\ \A l \in 1 .. Len(x) :
          /\ \E r \in D : x[l][1] = r[1]
          /\ \E r \in D : x[l][2] = r[2]
          /\ (\A r \in D : r[1] =< r[2]) => x[l][1] =< x[l][2]

LEMMA MergeStep ==
    ASSUME NEW D, D \subseteq Int \X Int, NEW x, MergedOK(x, D), NEW r \in D,
           x # <<>> => x[Len(x)][1] =< r[1]
    PROVE  LET y == MergeOne(x, r)
           IN  /\ MergedOK(y, D) /\ Holds(y, r) /\ y # <<>> /\ y[Len(y)][1] =< r[1]
               /\ \A p \in D : Holds(x, p) => Holds(y, p)
<1> DEFINE L == Len(x)
           y == MergeOne(x, r)
<1>0. r \in Int \X Int /\ r[1] \in Int /\ r[2] \in Int /\ \A p \in D : p[1] \in Int /\ p[2] \in Int
  OBVIOUS
<1>1. x \in Seq(Int \X Int) /\ L \in Nat
  BY DEF MergedOK
<1>2. y \in Seq(Int \X Int)
  BY <1>0, <1>1, MergeType
<1>3. \A l \in 1 .. L : x[l] \in Int \X Int
  BY <1>1
<1>4. \A l \in 1 .. L : x[l][1] \in Int /\ x[l][2] \in Int
  BY <1>3
<1>5. CASE x # <<>> /\ r[1] =< x[L][2] + 1
  <2>1. L \in 1 .. L
    BY <1>1, <1>5
  <2>2. PICK lo \in Int : lo = x[L][1]
    BY <1>4, <2>1
  <2>3. PICK hi \in Int : hi = x[L][2]
    BY <1>4, <2>1
  <2>4. PICK top \in Int : top = Most(hi, r[2])
    BY <1>0 DEF Most
  <2>5. y = [x EXCEPT ![L] = <<lo, top>>]
    BY <1>5, <2>2, <2>3, <2>4 DEF MergeOne
  <2>6. Len(y) = L /\ y[L] = <<lo, top>> /\ \A l \in 1 .. L : l # L => y[l] = x[l]
    BY <1>1, <2>1, <2>5
  <2> HIDE DEF y
  <2>7. y[L][1] = lo /\ y[L][2] = top
    BY <2>6
  <2>8. hi =< top /\ r[2] =< top /\ (top = hi \/ top = r[2]) /\ lo =< r[1]
    BY <1>0, <1>5, <2>2, <2>4 DEF Most
  <2>9. ASSUME NEW l \in 1 .. L
        PROVE  /\ \E p \in D : y[l][1] = p[1]
               /\ \E p \in D : y[l][2] = p[2]
               /\ (\A p \in D : p[1] =< p[2]) => y[l][1] =< y[l][2]
    <3>1. CASE l # L
      <4>1. y[l] = x[l]
        BY <2>6, <3>1
      <4>2. /\ \E p \in D : x[l][1] = p[1]
            /\ \E p \in D : x[l][2] = p[2]
            /\ (\A p \in D : p[1] =< p[2]) => x[l][1] =< x[l][2]
        BY DEF MergedOK
      <4> QED BY <4>1, <4>2
    <3>2. CASE l = L
      <4>1. \E p \in D : y[l][1] = p[1]
        BY <2>1, <2>2, <2>7, <3>2 DEF MergedOK
      <4>2. \E p \in D : y[l][2] = p[2]
        BY <2>1, <2>3, <2>7, <2>8, <3>2 DEF MergedOK
      <4>3. ASSUME \A p \in D : p[1] =< p[2] PROVE lo =< top
        <5>1. r[1] =< r[2]
          BY <4>3
        <5> QED BY <1>0, <2>8, <5>1
      <4> QED BY <2>7, <3>2, <4>1, <4>2, <4>3
    <3> QED BY <3>1, <3>2
  <2>10. Holds(y, r)
    BY <2>1, <2>6, <2>7, <2>8 DEF Holds
  <2>11. ASSUME NEW p \in D, Holds(x, p) PROVE Holds(y, p)
    <3>1. PICK l \in 1 .. L : x[l][1] =< p[1] /\ p[2] =< x[l][2]
      BY <2>11 DEF Holds
    <3>2. CASE l # L
      BY <2>6, <3>1, <3>2 DEF Holds
    <3>3. CASE l = L
      <4>1. lo =< p[1] /\ p[2] =< top
        BY <1>0, <2>2, <2>3, <2>8, <3>1, <3>3
      <4> QED BY <2>1, <2>6, <2>7, <4>1 DEF Holds
    <3> QED BY <3>2, <3>3
  <2>12. MergedOK(y, D)
    BY <1>2, <2>6, <2>9 DEF MergedOK, y
  <2>13. y # <<>>
    <3>1. Len(<<>>) = 0 /\ L # 0
      BY <2>1
    <3> QED BY <2>6, <3>1
  <2> QED BY <2>6, <2>7, <2>8, <2>10, <2>11, <2>12, <2>13 DEF y
<1>6. CASE ~(x # <<>> /\ r[1] =< x[L][2] + 1)
  <2>1. y = Append(x, r)
    BY <1>6 DEF MergeOne
  <2>2. Len(y) = L + 1 /\ y[L + 1] = r /\ (\A l \in 1 .. L : y[l] = x[l]) /\ y # <<>>
    BY <1>0, <1>1, <2>1
  <2>3. \A l \in 1 .. L + 1 : l \in 1 .. L \/ l = L + 1
    BY <1>1
  <2>4. L + 1 \in 1 .. L + 1 /\ \A l \in 1 .. L : l \in 1 .. L + 1
    BY <1>1
  <2> HIDE DEF y
  <2>5. ASSUME NEW l \in 1 .. L + 1
        PROVE  /\ \E p \in D : y[l][1] = p[1]
               /\ \E p \in D : y[l][2] = p[2]
               /\ (\A p \in D : p[1] =< p[2]) => y[l][1] =< y[l][2]
    <3>1. CASE l \in 1 .. L
      <4>1. y[l] = x[l]
        BY <2>2, <3>1
      <4>2. /\ \E p \in D : x[l][1] = p[1]
            /\ \E p \in D : x[l][2] = p[2]
            /\ (\A p \in D : p[1] =< p[2]) => x[l][1] =< x[l][2]
        BY <3>1 DEF MergedOK
      <4> QED BY <4>1, <4>2
    <3>2. CASE l = L + 1
      BY <2>2, <3>2
    <3> QED BY <2>3, <3>1, <3>2
  <2>6. Holds(y, r)
    BY <1>0, <2>2, <2>4 DEF Holds
  <2>7. ASSUME NEW p \in D, Holds(x, p) PROVE Holds(y, p)
    <3>1. PICK l \in 1 .. L : x[l][1] =< p[1] /\ p[2] =< x[l][2]
      BY <2>7 DEF Holds
    <3> QED BY <2>2, <2>4, <3>1 DEF Holds
  <2>8. MergedOK(y, D)
    BY <1>2, <2>2, <2>5 DEF MergedOK, y
  <2>9. y[Len(y)][1] =< r[1]
    BY <1>0, <2>2
  <2> QED BY <2>2, <2>6, <2>7, <2>8, <2>9 DEF y
<1> QED BY <1>5, <1>6

LEMMA MergingKeeps ==
    ASSUME NEW D, IsFiniteSet(D), D \subseteq Int \X Int
    PROVE  MergedOK(MergeRanges(D), D) /\ \A r \in D : Holds(MergeRanges(D), r)
<1> DEFINE n == Cardinality(D)
<1>1. PICK o : o = Sorted(D)
  OBVIOUS
<1>2. /\ n \in Nat /\ o \in [1 .. n -> D]
      /\ \A x \in D : \E k \in 1 .. n : o[k] = x
      /\ \A a, b \in 1 .. n : a < b => Before(o[a], o[b])
  BY <1>1, SortedSorts
<1>3. PICK V : MergedUpTo(V, o, n) /\ MergeRanges(D) = V[n]
  BY <1>1, MergeScan
<1> HIDE DEF n
<1>4. \A r \in D : r[1] \in Int /\ r[2] \in Int
  OBVIOUS
<1> DEFINE T == {k \in Nat : k =< n =>
                    /\ MergedOK(V[k], D)
                    /\ \A j \in 1 .. k : Holds(V[k], o[j])
                    /\ V[k] # <<>> => k # 0 /\ V[k][Len(V[k])][1] =< o[k][1]}
<1>5. 0 \in T
  <2>1. V[0] = <<>>
    BY <1>3 DEF MergedUpTo
  <2>2. MergedOK(<<>>, D)
    <3>1. <<>> \in Seq(Int \X Int) /\ Len(<<>>) = 0 /\ 1 .. 0 = {}
      OBVIOUS
    <3> QED BY <3>1 DEF MergedOK
  <2>3. 1 .. 0 = {}
    OBVIOUS
  <2> QED BY <2>1, <2>2, <2>3
<1>6. ASSUME NEW k \in Nat, k \in T PROVE k + 1 \in T
  <2> SUFFICES ASSUME k + 1 =< n
               PROVE  /\ MergedOK(V[k + 1], D)
                      /\ \A j \in 1 .. k + 1 : Holds(V[k + 1], o[j])
                      /\ V[k + 1] # <<>> => k + 1 # 0 /\ V[k + 1][Len(V[k + 1])][1] =< o[k + 1][1]
    OBVIOUS
  <2>1. k + 1 \in 1 .. n /\ k + 1 - 1 = k /\ k + 1 # 0 /\ k =< n
    BY <1>2
  <2>2. /\ MergedOK(V[k], D)
        /\ \A j \in 1 .. k : Holds(V[k], o[j])
        /\ V[k] # <<>> => k # 0 /\ V[k][Len(V[k])][1] =< o[k][1]
    BY <1>6, <2>1
  <2>3. V[k + 1] = MergeOne(V[k], o[k + 1])
    <3>1. V[k + 1] = MergeOne(V[k + 1 - 1], o[k + 1])
      BY <1>3, <2>1 DEF MergedUpTo
    <3> QED BY <2>1, <3>1
  <2>4. o[k + 1] \in D /\ \A j \in 1 .. k : o[j] \in D
    <3>1. \A j \in 1 .. k : j \in 1 .. n
      BY <1>2, <2>1
    <3> QED BY <1>2, <2>1, <3>1
  <2>5. V[k] # <<>> => V[k][Len(V[k])][1] =< o[k + 1][1]
    <3> SUFFICES ASSUME V[k] # <<>> PROVE V[k][Len(V[k])][1] =< o[k + 1][1]
      OBVIOUS
    <3>1. k \in 1 .. n /\ k < k + 1
      BY <1>2, <2>1, <2>2
    <3>2. Before(o[k], o[k + 1]) /\ o[k] \in D
      BY <1>2, <2>1, <3>1
    <3>3. o[k][1] \in Int /\ o[k + 1][1] \in Int
      BY <1>4, <2>4, <3>2
    <3>4. o[k][1] =< o[k + 1][1]
      BY <3>2, <3>3 DEF Before
    <3>5. V[k][Len(V[k])][1] \in Int
      <4>1. V[k] \in Seq(Int \X Int)
        BY <2>2 DEF MergedOK
      <4>2. Len(V[k]) \in 1 .. Len(V[k])
        BY <4>1
      <4>3. V[k][Len(V[k])] \in Int \X Int
        BY <4>1, <4>2
      <4> QED BY <4>3
    <3> QED BY <2>2, <3>3, <3>4, <3>5
  <2>6. PICK y : y = V[k + 1]
    OBVIOUS
  <2>7. /\ MergedOK(y, D) /\ Holds(y, o[k + 1]) /\ y # <<>> /\ y[Len(y)][1] =< o[k + 1][1]
        /\ \A p \in D : Holds(V[k], p) => Holds(y, p)
    <3>1. PICK x : x = V[k]
      OBVIOUS
    <3>2. PICK r \in D : r = o[k + 1]
      BY <2>4
    <3>3. MergedOK(x, D) /\ y = MergeOne(x, r) /\ (x # <<>> => x[Len(x)][1] =< r[1])
      BY <2>2, <2>3, <2>5, <2>6, <3>1, <3>2
    <3>4. /\ MergedOK(y, D) /\ Holds(y, r) /\ y # <<>> /\ y[Len(y)][1] =< r[1]
          /\ \A p \in D : Holds(x, p) => Holds(y, p)
      BY <3>3, MergeStep
    <3> QED BY <3>1, <3>2, <3>4
  <2>8. ASSUME NEW j \in 1 .. k + 1 PROVE Holds(y, o[j])
    <3>1. CASE j = k + 1
      BY <2>7, <3>1
    <3>2. CASE j # k + 1
      <4>1. j \in 1 .. k
        BY <3>2
      <4> QED BY <2>2, <2>4, <2>7, <4>1
    <3> QED BY <3>1, <3>2
  <2> QED BY <2>1, <2>6, <2>7, <2>8
<1> HIDE DEF T
<1>7. Nat \subseteq T
  BY <1>5, <1>6, Induction
<1>8. MergedOK(V[n], D) /\ \A j \in 1 .. n : Holds(V[n], o[j])
  BY <1>2, <1>7 DEF T
<1> QED BY <1>2, <1>3, <1>8

\* Shrinking in proportion stays inside.
LEMMA RoundedStays ==
    ASSUME NEW L \in Nat, L > 0, NEW part \in Nat, NEW all \in Nat, part < all
    PROVE  Rounded(L * part, all) \in Nat /\ Rounded(L * part, all) =< L
<1>1. PICK d \in Nat : all = part + 1 + d
  <2>1. all - part - 1 \in Nat /\ all = part + 1 + (all - part - 1)
    OBVIOUS
  <2> QED BY <2>1
<1>2. all * L = L * part + L + d * L
  BY <1>1
<1>3. d * L \in Nat /\ L * part \in Nat /\ all * L \in Nat
  OBVIOUS
<1>4. PICK q \in Nat : q = (L * part) \div all
  BY <1>3
<1>5. all * q =< L * part /\ all > 0
  BY <1>3, <1>4
<1>6. q < L
  <2> SUFFICES ASSUME L =< q PROVE FALSE
    OBVIOUS
  <2>1. PICK e \in Nat : q = L + e
    <3>1. q - L \in Nat /\ q = L + (q - L)
      OBVIOUS
    <3> QED BY <3>1
  <2>2. all * q = all * L + all * e
    BY <2>1
  <2>3. all * e \in Nat
    OBVIOUS
  <2>4. PICK x \in Nat : x = all * L
    BY <1>3
  <2>5. PICK y \in Nat : y = L * part
    BY <1>3
  <2>6. PICK z \in Nat : z = all * e
    BY <2>3
  <2>7. PICK w \in Nat : w = d * L
    BY <1>3
  <2>8. x + z =< y
    BY <1>5, <2>2, <2>4, <2>5, <2>6
  <2>9. x = y + L + w
    BY <1>2, <2>4, <2>5, <2>7
  <2> QED BY <2>8, <2>9
<1>7. Rounded(L * part, all) = q \/ Rounded(L * part, all) = q + 1
  BY <1>4 DEF Rounded
<1> QED BY <1>6, <1>7

LEMMA TrimmedInside ==
    ASSUME NEW r \in Int \X Int, r[1] =< r[2], NEW total \in Nat, ExcerptBudget < total
    PROVE  LET t == Trimmed(r, total)
           IN  t[1] \in Int /\ t[2] \in Int /\ r[1] =< t[1] /\ t[2] =< r[2]
<1>0. ExcerptBudget \in Nat
  BY DiffAssumption
<1>1. PICK lo \in Int : lo = r[1]
  OBVIOUS
<1>2. PICK hi \in Int : hi = r[2]
  OBVIOUS
<1>3. PICK L \in Nat : L = hi - lo + 1 /\ L > 0
  BY <1>1, <1>2
<1>4. Length(r) = L
  BY <1>1, <1>2, <1>3 DEF Length
<1>5. PICK x \in Nat : x = Rounded(L * ExcerptBudget, total) /\ x =< L
  BY <1>0, <1>3, RoundedStays
<1>6. PICK m \in Nat : m = Most(1, x) /\ m =< L
  BY <1>3, <1>5 DEF Most
<1>7. PICK h \in Nat : h = (L - m) \div 2 /\ h =< L - m
  <2>1. PICK d \in Nat : d = L - m
    BY <1>6
  <2>2. d \div 2 \in Nat /\ d \div 2 =< d
    OBVIOUS
  <2> QED BY <2>1, <2>2
<1>8. Trimmed(r, total) = <<lo + h, lo + h + m - 1>>
  BY <1>1, <1>4, <1>5, <1>6, <1>7 DEF Trimmed
<1>9. lo =< lo + h /\ lo + h + m - 1 =< hi /\ lo + h \in Int /\ lo + h + m - 1 \in Int
  BY <1>3, <1>6, <1>7
<1> QED BY <1>1, <1>2, <1>8, <1>9

\* Lines in all of some ranges.
LEMMA TotalIs ==
    ASSUME NEW x, Len(x) \in Nat, DOMAIN x = 1 .. Len(x), NEW n \in Nat,
           \A l \in 1 .. Len(x) : x[l][1] \in Int /\ x[l][2] \in Int /\ 1 =< x[l][1] /\ x[l][2] =< n
    PROVE  /\ Total(x) \in Nat
           /\ (\A l \in 1 .. Len(x) : x[l][2] < x[l][1]) => Total(x) = 0
<1> DEFINE S == UNION {{i} \X (x[i][1] .. x[i][2]) : i \in DOMAIN x}
<1>1. \A e \in S : \E l \in 1 .. Len(x) : e \in {l} \X (x[l][1] .. x[l][2])
  OBVIOUS
<1>2. S \in SUBSET ((1 .. Len(x)) \X (1 .. n))
  <2>1. \A l \in 1 .. Len(x) : {l} \X (x[l][1] .. x[l][2]) \subseteq (1 .. Len(x)) \X (1 .. n)
    <3> SUFFICES ASSUME NEW l \in 1 .. Len(x)
                 PROVE  {l} \X (x[l][1] .. x[l][2]) \subseteq (1 .. Len(x)) \X (1 .. n)
      OBVIOUS
    <3>1. \A j \in x[l][1] .. x[l][2] : j \in 1 .. n
      OBVIOUS
    <3> QED BY <3>1
  <2> HIDE DEF S
  <2> QED BY <1>1, <2>1
<1>3. Total(x) = Cardinality(S)
  BY DEF Total
<1>4. IsFiniteSet((1 .. Len(x)) \X (1 .. n))
  <2>1. IsFiniteSet(1 .. Len(x)) /\ IsFiniteSet(1 .. n)
    BY FS_Interval
  <2> QED BY <2>1, FS_Product
<1> HIDE DEF S
<1>5. Total(x) \in Nat
  BY <1>2, <1>3, <1>4, FS_Subset, FS_CardinalityType
<1>6. ASSUME \A l \in 1 .. Len(x) : x[l][2] < x[l][1] PROVE Total(x) = 0
  <2>1. S = {}
    <3> SUFFICES ASSUME NEW e \in S PROVE FALSE
      OBVIOUS
    <3>1. PICK l \in 1 .. Len(x) : e \in {l} \X (x[l][1] .. x[l][2])
      BY <1>1
    <3>2. e[2] \in x[l][1] .. x[l][2]
      BY <3>1
    <3> QED BY <1>6, <3>2
  <2> QED BY <1>3, <2>1, FS_EmptySet
<1> QED BY <1>5, <1>6

\* The content of a file has as many lines as its changes can name.
LEMMA ContentIs ==
    ASSUME NEW s \in Seq(Letter)
    PROVE  /\ ContentLines(s) \in Nat /\ ContentLines(s) >= 1 /\ Top(s) =< ContentLines(s)
           /\ Base(s) \in {0, 1} /\ Top(s) \in Nat
           /\ Base(s) = 0 => Top(s) = 0 /\ ContentLines(s) = 1
           /\ TargetLine(s, Len(s)) =< ContentLines(s) /\ TargetLine(s, Len(s)) \in Nat
<1> DEFINE n == Len(s)
<1>1. n \in Nat /\ DOMAIN s = 1 .. n
  OBVIOUS
<1>2. Cardinality(Returns(s)) = ReturnsTo(s, n)
  <2>1. Returns(s) = {j \in 1 .. n : s[j] \in {"c"}}
    BY <1>1 DEF Returns
  <2> QED BY <2>1 DEF ReturnsTo, CountTo
<1>3. TargetLine(s, n) \in Nat /\ ReturnsTo(s, n) \in Nat /\ Base(s) \in {0, 1} /\ Top(s) \in Nat
  BY <1>1, Counts
<1>4. ContentLines(s) = TargetLine(s, n) + ReturnsTo(s, n) + 1
  BY <1>2 DEF ContentLines
<1>5. Top(s) = TargetLine(s, n) + ReturnsTo(s, n) + Base(s)
  BY DEF Top
<1>6. ASSUME Base(s) = 0 PROVE TargetLine(s, n) = 0 /\ ReturnsTo(s, n) = 0
  <2>1. TargetLine(s, n) = 0 /\ TargetLine(s, 0) = 0 /\ ReturnsTo(s, 0) = 0 /\ 0 =< n
    BY <1>1, <1>6, TargetLineStep, ReturnsStep DEF Base
  <2>2. \A k \in 0 + 1 .. n : s[k] = "-"
    BY <1>1, <2>1, LinesGoUp
  <2>3. Returns(s) = {}
    BY <1>1, <2>2 DEF Returns
  <2>4. Cardinality({}) = 0
    BY FS_EmptySet
  <2>5. ReturnsTo(s, n) = 0
    BY <1>2, <2>3, <2>4
  <2> QED BY <2>1, <2>5
<1>7. /\ ContentLines(s) \in Nat /\ ContentLines(s) >= 1
      /\ TargetLine(s, n) =< ContentLines(s) /\ Top(s) =< ContentLines(s)
  BY <1>3, <1>4, <1>5
<1>8. Base(s) = 0 => Top(s) = 0 /\ ContentLines(s) = 1
  BY <1>4, <1>5, <1>6
<1> QED BY <1>3, <1>7, <1>8

\* The ranges of the change with the lines around them.
LEMMA PaddedIs ==
    ASSUME NEW s \in Seq(Letter)
    PROVE  LET n == ContentLines(s)
               D == Padded(ChangedRanges(s), n)
           IN  /\ IsFiniteSet(D) /\ D \subseteq Int \X Int
               /\ \A r \in D : 1 =< r[1] /\ r[2] =< n
               /\ (\A r \in D : r[1] =< r[2]) \/ (\A r \in D : r[1] = 1 /\ r[2] = 0)
               /\ \A i \in 1 .. Len(Runs(s)) : \E r \in D :
                     /\ r[1] = Most(1, ChangedRanges(s)[i][1] - PadLines)
                     /\ r[2] = Least(n, ChangedRanges(s)[i][2] + PadLines)
<1>1. PICK C : C = ChangedRanges(s)
  OBVIOUS
<1>2. PICK n \in Nat : n = ContentLines(s) /\ n >= 1
  BY ContentIs
<1>3. PICK P \in Nat : P = PadLines
  BY DiffAssumption
<1>4. PICK m \in Nat : m = Len(Runs(s)) /\ DOMAIN C = 1 .. m
  BY <1>1, RangesAreRight
<1> DEFINE D == Padded(C, n)
           lo(i) == Most(1, C[i][1] - P)
           hi(i) == Least(n, C[i][2] + P)
<1>5. D = {<<lo(i), hi(i)>> : i \in 1 .. m}
  BY <1>3, <1>4 DEF Padded
<1>6. ASSUME NEW i \in 1 .. m
      PROVE  /\ lo(i) \in 1 .. n /\ hi(i) \in 0 .. n
             /\ Base(s) = 1 \/ P >= 1 => lo(i) =< hi(i)
             /\ Base(s) = 0 /\ P = 0 => lo(i) = 1 /\ hi(i) = 0
  <2>1. /\ C[i][1] \in Int /\ C[i][2] \in Int
        /\ Base(s) =< C[i][1] /\ C[i][1] =< C[i][2] /\ C[i][2] =< Top(s)
    BY <1>1, <1>4, RangesAreRight
  <2>2. Base(s) \in {0, 1} /\ Top(s) \in Nat /\ Top(s) =< n /\ (Base(s) = 0 => Top(s) = 0)
    BY <1>2, ContentIs
  <2>3. PICK x \in Int : x = C[i][1]
    BY <2>1
  <2>4. PICK y \in Int : y = C[i][2]
    BY <2>1
  <2>5. x =< y /\ y =< n /\ 0 =< x /\ (Base(s) = 1 => 1 =< x) /\ (Base(s) = 0 => x = 0 /\ y = 0)
    BY <2>1, <2>2, <2>3, <2>4
  <2>6. lo(i) = Most(1, x - P) /\ hi(i) = Least(n, y + P)
    BY <2>3, <2>4
  <2> HIDE DEF lo, hi
  <2>7. lo(i) \in 1 .. n /\ hi(i) \in 0 .. n
    BY <1>2, <2>5, <2>6 DEF Most, Least
  <2>8. ASSUME Base(s) = 1 PROVE lo(i) =< hi(i)
    BY <1>2, <2>5, <2>6, <2>8 DEF Most, Least
  <2>9. ASSUME Base(s) = 0 PROVE IF P >= 1 THEN lo(i) =< hi(i) ELSE lo(i) = 1 /\ hi(i) = 0
    BY <1>2, <2>5, <2>6, <2>9 DEF Most, Least
  <2> QED BY <2>2, <2>7, <2>8, <2>9
<1> HIDE DEF lo, hi, D
<1>7. \A r \in D : \E i \in 1 .. m : r = <<lo(i), hi(i)>> /\ r[1] = lo(i) /\ r[2] = hi(i)
  BY <1>5
<1>8. \A i \in 1 .. m : <<lo(i), hi(i)>> \in D
  BY <1>5
<1>9. D \in SUBSET ((1 .. n) \X (0 .. n)) /\ D \subseteq Int \X Int
  BY <1>6, <1>7
<1>10. IsFiniteSet(D)
  <2>1. IsFiniteSet(1 .. n) /\ IsFiniteSet(0 .. n)
    BY FS_Interval
  <2>2. IsFiniteSet((1 .. n) \X (0 .. n))
    BY <2>1, FS_Product
  <2> QED BY <1>9, <2>2, FS_Subset
<1>11. \A r \in D : 1 =< r[1] /\ r[2] =< n
  BY <1>6, <1>7
<1>12. (\A r \in D : r[1] =< r[2]) \/ (\A r \in D : r[1] = 1 /\ r[2] = 0)
  <2>1. Base(s) \in {0, 1}
    BY ContentIs
  <2>2. CASE Base(s) = 1 \/ P >= 1
    BY <1>6, <1>7, <2>2
  <2>3. CASE Base(s) = 0 /\ P = 0
    BY <1>6, <1>7, <2>3
  <2> QED BY <2>1, <2>2, <2>3
<1>13. \A i \in 1 .. m : \E r \in D : r[1] = lo(i) /\ r[2] = hi(i)
  <2> SUFFICES ASSUME NEW i \in 1 .. m PROVE \E r \in D : r[1] = lo(i) /\ r[2] = hi(i)
    OBVIOUS
  <2>1. <<lo(i), hi(i)>> \in D /\ <<lo(i), hi(i)>>[1] = lo(i) /\ <<lo(i), hi(i)>>[2] = hi(i)
    BY <1>8
  <2> QED BY <2>1
<1> QED BY <1>1, <1>2, <1>3, <1>4, <1>9, <1>10, <1>11, <1>12, <1>13 DEF D, lo, hi

\* What is shown of a file are lines of it, all that were added unless cut.
LEMMA ExcerptsAreLines ==
    ASSUME NEW s \in Seq(Letter)
    PROVE  LET n == ContentLines(s)
               c == Excerpts(ChangedRanges(s), n)
           IN  /\ ~Raises(c.of, n)
               /\ \A l \in DOMAIN c.of : \A line \in c.of[l][1] .. c.of[l][2] : line \in 1 .. n
               /\ ~c.truncated /\ Tidy(s) =>
                     \A j \in DOMAIN s : s[j] = "+" =>
                        \E l \in DOMAIN c.of : TargetLine(s, j) \in c.of[l][1] .. c.of[l][2]
<1>1. PICK n \in Nat : n = ContentLines(s) /\ n >= 1
  BY ContentIs
<1>2. PICK P \in Nat : P = PadLines
  BY DiffAssumption
<1>3. PICK D : D = Padded(ChangedRanges(s), n)
  OBVIOUS
<1>4. /\ IsFiniteSet(D) /\ D \subseteq Int \X Int
      /\ \A r \in D : 1 =< r[1] /\ r[2] =< n
      /\ (\A r \in D : r[1] =< r[2]) \/ (\A r \in D : r[1] = 1 /\ r[2] = 0)
      /\ \A i \in 1 .. Len(Runs(s)) : \E r \in D :
            /\ r[1] = Most(1, ChangedRanges(s)[i][1] - P)
            /\ r[2] = Least(n, ChangedRanges(s)[i][2] + P)
  BY <1>1, <1>2, <1>3, PaddedIs
<1>5. PICK x : x = MergeRanges(D)
  OBVIOUS
<1>6. MergedOK(x, D) /\ \A r \in D : Holds(x, r)
  BY <1>4, <1>5, MergingKeeps
<1>7. x \in Seq(Int \X Int) /\ Len(x) \in Nat /\ DOMAIN x = 1 .. Len(x)
  BY <1>6 DEF MergedOK
<1>8. ASSUME NEW l \in 1 .. Len(x)
      PROVE  /\ x[l] \in Int \X Int /\ x[l][1] \in Int /\ x[l][2] \in Int
             /\ 1 =< x[l][1] /\ x[l][2] =< n
  <2>1. x[l] \in Int \X Int
    BY <1>7
  <2>2. PICK r \in D : x[l][1] = r[1]
    BY <1>6 DEF MergedOK
  <2>3. PICK p \in D : x[l][2] = p[2]
    BY <1>6 DEF MergedOK
  <2> QED BY <1>4, <2>1, <2>2, <2>3
<1>9. PICK total \in Nat : total = Total(x)
  BY <1>1, <1>7, <1>8, TotalIs
<1>10. PICK c : c = Excerpts(ChangedRanges(s), n)
  OBVIOUS
<1>11. c = IF Total(x) =< ExcerptBudget THEN [of |-> x, truncated |-> FALSE]
           ELSE [of |-> [i \in DOMAIN x |-> Trimmed(x[i], Total(x))], truncated |-> TRUE]
  BY <1>3, <1>5, <1>10 DEF Excerpts
<1>12. ExcerptBudget \in Nat
  BY DiffAssumption
<1>13. DOMAIN c.of = 1 .. Len(x) /\ (~c.truncated => c.of = x)
  BY <1>7, <1>11
<1>14. ASSUME NEW l \in 1 .. Len(x)
       PROVE  /\ c.of[l][1] \in Int /\ c.of[l][2] \in Int
              /\ 1 =< c.of[l][1] /\ c.of[l][2] =< n
  <2>1. CASE total =< ExcerptBudget
    <3>1. c.of = x
      BY <1>9, <1>11, <2>1
    <3> QED BY <1>8, <3>1
  <2>2. CASE ~(total =< ExcerptBudget)
    <3>1. c.of[l] = Trimmed(x[l], total)
      BY <1>7, <1>9, <1>11, <2>2
    <3>2. x[l][1] =< x[l][2]
      <4>1. CASE \A r \in D : r[1] =< r[2]
        BY <1>6, <4>1 DEF MergedOK
      <4>2. CASE \A r \in D : r[1] = 1 /\ r[2] = 0
        <5>1. \A i \in 1 .. Len(x) : x[i][1] = 1 /\ x[i][2] = 0
          BY <1>6, <4>2 DEF MergedOK
        <5>2. \A i \in 1 .. Len(x) : x[i][2] < x[i][1]
          BY <5>1
        <5>3. Total(x) = 0
          BY <1>1, <1>7, <1>8, <5>2, TotalIs
        <5> QED BY <1>9, <1>12, <2>2, <5>3
      <4> QED BY <1>4, <4>1, <4>2
    <3>3. ExcerptBudget < total
      BY <1>12, <2>2
    <3>4. PICK t : t = Trimmed(x[l], total)
      OBVIOUS
    <3>5. t[1] \in Int /\ t[2] \in Int /\ x[l][1] =< t[1] /\ t[2] =< x[l][2]
      BY <1>8, <3>2, <3>3, <3>4, TrimmedInside
    <3> QED BY <1>8, <3>1, <3>4, <3>5
  <2> QED BY <2>1, <2>2
<1>15. \A l \in 1 .. Len(x) : \A line \in c.of[l][1] .. c.of[l][2] : line \in 1 .. n
  <2> SUFFICES ASSUME NEW l \in 1 .. Len(x), NEW line \in c.of[l][1] .. c.of[l][2]
               PROVE  line \in 1 .. n
    OBVIOUS
  <2>1. PICK lo \in Int : lo = c.of[l][1] /\ 1 =< lo
    BY <1>14
  <2>2. PICK hi \in Int : hi = c.of[l][2] /\ hi =< n
    BY <1>14
  <2> QED BY <2>1, <2>2
<1>16. ~Raises(c.of, n)
  <2>1. \A line \in 1 .. n : ~(line > n \/ line - 1 < -n)
    BY <1>1
  <2> QED BY <1>13, <1>15, <2>1 DEF Raises
<1>17. ASSUME ~c.truncated, Tidy(s), NEW j \in DOMAIN s, s[j] = "+"
       PROVE  \E l \in DOMAIN c.of : TargetLine(s, j) \in c.of[l][1] .. c.of[l][2]
  <2>1. j \in 1 .. Len(s) /\ j \in Nat /\ Len(s) \in Nat /\ j \in Changed(s)
    BY <1>17, Script
  <2>2. PICK k \in 1 .. Len(Runs(s)) : j \in Runs(s)[k][1] .. Runs(s)[k][2]
    BY <2>1, HunksAreMaximal DEF RunsTo
  <2>3. PICK line \in Int : line = TargetLine(s, j) /\ 1 =< line /\ line =< n
    <3>1. j - 1 \in Nat /\ j - 1 + 1 = j
      BY <2>1
    <3>2. TargetLine(s, j) = TargetLine(s, j - 1) + 1 /\ TargetLine(s, j - 1) \in Nat
      <4>1. TargetLine(s, j - 1 + 1) = TargetLine(s, j - 1) + (IF s[j - 1 + 1] = "-" THEN 0 ELSE 1)
        BY <3>1, TargetLineStep
      <4>2. TargetLine(s, j - 1) \in Nat
        BY <3>1, TargetLineStep
      <4> QED BY <1>17, <3>1, <4>1, <4>2
    <3>3. TargetLine(s, j) =< TargetLine(s, Len(s))
      BY <2>1, LinesGoUp
    <3>4. TargetLine(s, Len(s)) =< n /\ TargetLine(s, Len(s)) \in Nat
      BY <1>1, ContentIs
    <3> QED BY <1>1, <3>2, <3>3, <3>4
  <2>4. PICK lo \in Int : lo = ChangedRanges(s)[k][1]
    BY RangesAreRight
  <2>5. PICK hi \in Int : hi = ChangedRanges(s)[k][2]
    BY RangesAreRight
  <2>6. line \in lo .. hi
    <3>1. line \in Added(s, Runs(s)[k])
      BY <1>17, <2>2, <2>3 DEF Added
    <3>2. ChangedRanges(s)[k] = RangeOf(s, Runs(s)[k])
      BY <1>17, RangesAreRight
    <3> QED BY <2>4, <2>5, <3>1, <3>2, RangeIsAdded
  <2>7. PICK r \in D : r[1] = Most(1, lo - P) /\ r[2] = Least(n, hi + P)
    <3>1. PICK p \in D : /\ p[1] = Most(1, ChangedRanges(s)[k][1] - P)
                         /\ p[2] = Least(n, ChangedRanges(s)[k][2] + P)
      BY <1>4
    <3>2. p[1] = Most(1, lo - P) /\ p[2] = Least(n, hi + P)
      BY <2>4, <2>5, <3>1
    <3> QED BY <3>2
  <2>8. r[1] =< line /\ line =< r[2] /\ r[1] \in Int /\ r[2] \in Int
    BY <1>1, <1>2, <2>3, <2>6, <2>7 DEF Most, Least
  <2>9. PICK l \in 1 .. Len(x) : x[l][1] =< r[1] /\ r[2] =< x[l][2]
    BY <1>6 DEF Holds
  <2>10. x[l][1] \in Int /\ x[l][2] \in Int
    BY <1>8
  <2>11. line \in x[l][1] .. x[l][2]
    BY <2>8, <2>9, <2>10
  <2> QED BY <1>13, <1>17, <2>3, <2>9, <2>11
<1> QED BY <1>1, <1>10, <1>13, <1>15, <1>16, <1>17

-----------------------------------------------------------------------------
(* The review: what its record says of the diff that it read.              *)

ReadAt == IF run.seen THEN target[2] ELSE target[1]
Reviewed(d) ==
    {e \in Entry : e.kind = "text" /\ Changed(e.script) # {} /\ \E k \in DOMAIN d : d[k] = e}

DiffRead ==
    /\ IsDiff(target[1]) /\ IsDiff(target[2]) /\ moved \in BOOLEAN
    /\ run.seen \in BOOLEAN /\ (run.seen => moved)
    /\ run.files \in Seq(Reviewed(ReadAt))

\* What a file's context may be, and what it is when nothing moved.
CutFor(a, b) == Excerpts(ChangedRanges(a), ContentLines(b))
ContextFrom(cut, read) == [excerpts |-> cut.of, truncated |-> cut.truncated, read |-> read]
Context ==
    {NoContext} \cup {ContextFrom(CutFor(a, b), read) : a \in Seq(Letter), b \in Seq(Letter), read \in BOOLEAN}

Early == {"resolve", "diff"}
Reading == {"resolve", "diff", "graph", "context"}
FilesRead ==
    /\ run.next \in Nat \ {0}
    /\ run.contexts \in Seq(Context) /\ Len(run.contexts) =< Len(run.files)
    /\ \A i \in 1 .. Len(run.contexts) :
          run.contexts[i].read =>
             LET s == run.files[i].script IN run.contexts[i] = ContextFrom(CutFor(s, s), TRUE)
    /\ run.stage \in Reading => run.next = Len(run.contexts) + 1
    /\ run.stage \in Early => run.contexts = <<>> /\ run.findings = <<>>
    /\ run.cause = "excerpt" => run.stage = "failed" /\ run.seen # moved

Report(files, i, line) ==
    [file |-> i, line |-> line, hunk |-> NearestHunk(files[i].script, line),
     anchored |-> line # NoLine /\ Anchors(line, ChangedRanges(files[i].script))]
Reported(files) == {Report(files, i, line) : i \in 1 .. Len(files), line \in Int}
FindingsMade == run.findings \in Seq(Reported(run.files))

ReviewInv == run.kind = "review" => DiffRead /\ FilesRead /\ FindingsMade

LEMMA InitReview == Init => ReviewInv
<1> SUFFICES ASSUME Init, run.kind = "review" PROVE ReviewInv
  BY DEF ReviewInv
<1>1. PICK launch \in Launches :
         /\ run = IF launch.kind = "review" THEN NewReview(launch.names) ELSE NewHunt(launch.names)
         /\ target = launch.target /\ moved = FALSE
  BY DEF Init
<1>2. run = NewReview(launch.names)
  <2>1. CASE launch.kind # "review"
    BY <1>1, <2>1 DEF NewHunt
  <2> QED BY <1>1, <2>1
<1>3. /\ run.stage = "resolve" /\ run.cause = "none" /\ run.findings = <<>> /\ run.files = <<>>
      /\ run.seen = FALSE /\ run.next = 1 /\ run.contexts = <<>>
  BY <1>2 DEF NewReview
<1>4. IsDiff(target[1]) /\ IsDiff(target[2])
  BY <1>1, LaunchesAssumption
<1>5. DiffRead
  <2>1. <<>> \in Seq(Reviewed(ReadAt))
    OBVIOUS
  <2> QED BY <1>1, <1>3, <1>4, <2>1 DEF DiffRead
<1>6. FilesRead
  <2>1. <<>> \in Seq(Context) /\ Len(<<>>) = 0 /\ 1 .. 0 = {} /\ 1 \in Nat \ {0} /\ 1 = 0 + 1
    OBVIOUS
  <2> QED BY <1>3, <2>1 DEF FilesRead
<1>7. FindingsMade
  <2>1. <<>> \in Seq(Reported(run.files))
    OBVIOUS
  <2> QED BY <1>3, <2>1 DEF FindingsMade
<1> QED BY <1>5, <1>6, <1>7 DEF ReviewInv

\* A stage that leaves the diff's fields alone.
LEMMA DiffKept ==
    ASSUME RunShape, ReviewInv, run.kind = "review", run.stage # "failed", NEW fields, Sets(fields),
           fields \cap {"kind", "cause", "files", "seen", "next", "contexts", "findings"} = {},
           run'.stage \in Early => run.stage \in Early,
           run'.stage \in Reading => run.stage \in Reading,
           UNCHANGED <<target, moved>>
    PROVE  ReviewInv'
<1>1. DiffRead /\ FilesRead /\ FindingsMade
  BY DEF ReviewInv
<1>2. /\ run'.kind = run.kind /\ run'.cause = run.cause /\ run'.files = run.files
      /\ run'.seen = run.seen /\ run'.next = run.next /\ run'.contexts = run.contexts
      /\ run'.findings = run.findings
  BY Fields DEF Sets, ReviewFields
<1>3. DiffRead'
  BY <1>1, <1>2 DEF DiffRead, ReadAt
<1>4. FilesRead'
  BY <1>1, <1>2 DEF FilesRead
<1>5. FindingsMade'
  BY <1>1, <1>2 DEF FindingsMade
<1> QED BY <1>3, <1>4, <1>5 DEF ReviewInv

LEMMA DiffKeptFailing ==
    ASSUME RunShape, ReviewInv, run.kind = "review", NEW cause, Fails(cause),
           cause = "excerpt" => run.seen # moved,
           UNCHANGED <<target, moved>>
    PROVE  ReviewInv'
<1>1. DiffRead /\ FilesRead /\ FindingsMade
  BY DEF ReviewInv
<1>2. Sets({"stage", "cause"}) /\ run'.stage = "failed" /\ run'.cause = cause
  BY Fields, FailsSets DEF Fails
<1>3. /\ run'.kind = run.kind /\ run'.files = run.files
      /\ run'.seen = run.seen /\ run'.next = run.next /\ run'.contexts = run.contexts
      /\ run'.findings = run.findings
  BY <1>2, Fields DEF Sets, ReviewFields
<1>4. DiffRead'
  BY <1>1, <1>3 DEF DiffRead, ReadAt
<1>5. FilesRead'
  BY <1>1, <1>2, <1>3 DEF FilesRead, Early, Reading
<1>6. FindingsMade'
  BY <1>1, <1>3 DEF FindingsMade
<1> QED BY <1>4, <1>5, <1>6 DEF ReviewInv

LEMMA HuntKeepsKind ==
    ASSUME RunShape, HuntStep
    PROVE  run'.kind = run.kind
<1>1. CASE run.kind = "bughunt" /\ (ResolveLlm("playbooks") \/ LoadPlaybooks("client") \/ Summarize)
  BY <1>1, Fields DEF ResolveLlm, LoadPlaybooks, Summarize, Goes, Fails
<1>2. CASE OpenClient
  BY <1>2, Fields DEF OpenClient, Fails
<1>3. CASE ChatRaises
  BY <1>3, Fields DEF ChatRaises, Fails
<1>4. CASE LoopReturns
  BY <1>4, Fields DEF LoopReturns
<1>5. CASE RetryParse
  BY <1>5, Fields DEF RetryParse, Fails
<1>6. CASE PushBack
  BY <1>6, Fields DEF PushBack
<1>7. CASE HuntEnds
  BY <1>7, Fields DEF HuntEnds
<1>8. CASE ValidateFindings
  BY <1>8, Fields DEF ValidateFindings, Fails
<1> QED BY <1>1, <1>2, <1>3, <1>4, <1>5, <1>6, <1>7, <1>8 DEF HuntStep

\* What show_file returns is a script, that of the diff when nothing moved.
LEMMA ScriptIsOneOfTip ==
    ASSUME DiffRead, NEW path
    PROVE  ScriptNow(path) \in Seq(Letter)
<1>1. IsDiff(Tip)
  BY DEF DiffRead, Tip
<1>2. Tip \in Seq(Entry)
  BY <1>1 DEF IsDiff
<1> DEFINE at == {k \in DOMAIN Tip : Tip[k].path = path /\ Tip[k].kind = "text"}
<1>3. CASE at = {}
  <2>1. ScriptNow(path) = <<>>
    BY <1>3 DEF ScriptNow, NoScript
  <2> QED BY <2>1
<1>4. CASE at # {}
  <2>1. PICK k : k = CHOOSE i \in at : TRUE
    OBVIOUS
  <2>2. k \in at /\ ScriptNow(path) = Tip[k].script
    BY <1>4, <2>1 DEF ScriptNow
  <2>3. k \in 1 .. Len(Tip)
    BY <1>2, <2>2
  <2>4. Tip[k] \in Entry
    BY <1>2, <2>3
  <2>5. Tip[k].script \in Seq(Letter)
    BY <2>4 DEF Entry
  <2> QED BY <2>2, <2>5
<1> QED BY <1>3, <1>4

LEMMA FileIsText ==
    ASSUME DiffRead, NEW i \in 1 .. Len(run.files)
    PROVE  /\ run.files[i].script \in Seq(Letter) /\ Changed(run.files[i].script) # {}
           /\ run.files[i].kind = "text"
           /\ \E k \in DOMAIN ReadAt : ReadAt[k] = run.files[i]
<1>1. run.files[i] \in Reviewed(ReadAt)
  BY DEF DiffRead
<1>2. run.files[i] \in Entry
  BY <1>1 DEF Reviewed
<1>3. run.files[i].script \in Seq(Letter)
  BY <1>2 DEF Entry
<1> QED BY <1>1, <1>3 DEF Reviewed

LEMMA ScriptIsTheSame ==
    ASSUME DiffRead, run.seen = moved, NEW i \in 1 .. Len(run.files)
    PROVE  ScriptNow(run.files[i].path) = run.files[i].script
<1>1. Tip = ReadAt /\ IsDiff(Tip)
  BY DEF DiffRead, Tip, ReadAt
<1>2. PICK file : file = run.files[i]
  OBVIOUS
<1>3. PICK k \in DOMAIN Tip : Tip[k] = file /\ file.kind = "text"
  BY <1>1, <1>2, FileIsText
<1> DEFINE at == {j \in DOMAIN Tip : Tip[j].path = file.path /\ Tip[j].kind = "text"}
<1>4. at = {k}
  <2>1. k \in at
    BY <1>3
  <2>2. ASSUME NEW j \in at PROVE j = k
    BY <1>1, <1>3 DEF IsDiff
  <2> QED BY <2>1, <2>2
<1>5. (CHOOSE j \in at : TRUE) = k /\ at # {}
  BY <1>4
<1>6. ScriptNow(file.path) = IF at = {} THEN NoScript ELSE Tip[CHOOSE j \in at : TRUE].script
  BY DEF ScriptNow
<1> QED BY <1>2, <1>3, <1>5, <1>6

LEMMA NextFileKeeps ==
    ASSUME RunShape, ReviewInv, run.kind = "review", run.stage = "context",
           run.next =< Len(run.files), NEW context \in Context,
           LET s == run.files[run.next].script IN context.read => context = ContextFrom(CutFor(s, s), TRUE),
           run' = NextFile(context), UNCHANGED <<target, moved>>
    PROVE  ReviewInv'
<1>1. DiffRead /\ FilesRead /\ FindingsMade
  BY DEF ReviewInv
<1>2. PICK more : more = Append(run.contexts, context)
  OBVIOUS
<1>3. PICK n \in Nat : n = Len(run.contexts) /\ run.next = n + 1
  BY <1>1 DEF FilesRead, Reading
<1>4. run' = [run EXCEPT !.contexts = more, !.next = n + 2]
  <2>1. run.next + 1 = n + 2
    BY <1>3
  <2> QED BY <1>2, <2>1 DEF NextFile
<1>5. /\ run'.kind = run.kind /\ run'.cause = run.cause /\ run'.files = run.files
      /\ run'.stage = run.stage /\ run'.seen = run.seen /\ run'.findings = run.findings
      /\ run'.next = n + 2 /\ run'.contexts = more
  BY <1>4, Fields DEF ReviewFields
<1>6. DiffRead' /\ FindingsMade'
  BY <1>1, <1>5 DEF DiffRead, ReadAt, FindingsMade
<1>7. /\ more \in Seq(Context) /\ Len(more) = n + 1 /\ more[n + 1] = context
      /\ \A i \in 1 .. n : more[i] = run.contexts[i]
  BY <1>1, <1>2, <1>3 DEF FilesRead
<1>8. ASSUME NEW i \in 1 .. n + 1, more[i].read
      PROVE  LET s == run.files[i].script IN more[i] = ContextFrom(CutFor(s, s), TRUE)
  <2>1. CASE i = n + 1
    BY <1>3, <1>7, <1>8, <2>1
  <2>2. CASE i # n + 1
    <3>1. i \in 1 .. n
      BY <2>2
    <3> QED BY <1>1, <1>3, <1>7, <1>8, <3>1 DEF FilesRead
  <2> QED BY <2>1, <2>2
<1>9. FilesRead'
  <2>1. n + 2 \in Nat \ {0} /\ n + 1 =< Len(run.files) /\ n + 2 = n + 1 + 1
    BY <1>3
  <2>2. "context" \notin Early
    BY DEF Early
  <2>3. run.cause # "excerpt"
    BY <1>1 DEF FilesRead
  <2>4. run'.next \in Nat \ {0} /\ (run'.stage \in Reading => run'.next = Len(run'.contexts) + 1)
    BY <1>5, <1>7, <2>1
  <2>5. run'.contexts \in Seq(Context) /\ Len(run'.contexts) =< Len(run'.files)
    BY <1>5, <1>7, <2>1
  <2>6. \A i \in 1 .. Len(run'.contexts) :
           run'.contexts[i].read =>
              LET s == run'.files[i].script IN run'.contexts[i] = ContextFrom(CutFor(s, s), TRUE)
    <3>1. run'.contexts = more /\ run'.files = run.files /\ Len(run'.contexts) = n + 1
      BY <1>5, <1>7
    <3>2. \A i \in 1 .. n + 1 :
             more[i].read => LET s == run.files[i].script IN more[i] = ContextFrom(CutFor(s, s), TRUE)
      BY ONLY <1>8
    <3> QED BY Zenon, <3>1, <3>2
  <2>7. run'.stage \notin Early /\ run'.cause # "excerpt"
    BY <1>5, <2>2, <2>3
  <2> QED BY <2>4, <2>5, <2>6, <2>7 DEF FilesRead
<1> QED BY <1>6, <1>9 DEF ReviewInv

LEMMA ReadFileKeeps ==
    ASSUME RunShape, ReviewInv, ReadFile
    PROVE  ReviewInv'
<1> DEFINE file == run.files[run.next]
           n == ContentLines(ScriptNow(file.path))
           cut == Excerpts(ChangedRanges(file.script), n)
<1>1. /\ run.kind = "review" /\ run.stage = "context" /\ run.next =< Len(run.files)
      /\ UNCHANGED <<target, moved>>
  BY DEF ReadFile, Reviewing
<1>2. DiffRead /\ FilesRead
  BY <1>1 DEF ReviewInv
<1>3. run.next \in 1 .. Len(run.files)
  <2>1. run.next \in Nat \ {0}
    BY <1>2 DEF FilesRead
  <2>2. Len(run.files) \in Nat
    BY <1>2 DEF DiffRead
  <2> QED BY <1>1, <2>1, <2>2
<1>4. PICK s : s = file.script /\ s \in Seq(Letter)
  BY <1>2, <1>3, FileIsText
<1>5. PICK t : t = ScriptNow(file.path) /\ t \in Seq(Letter)
  BY <1>2, ScriptIsOneOfTip
<1>6. run.seen = moved => t = s
  BY <1>2, <1>3, <1>4, <1>5, ScriptIsTheSame
<1>7. cut = CutFor(s, t)
  BY <1>4, <1>5 DEF CutFor
<1>8. \/ run' = NextFile(NoContext)
      \/ Fails("undecodable")
      \/ Raises(cut.of, n) /\ Fails("excerpt")
      \/ run' = NextFile(ContextFrom(cut, run.seen = moved))
  BY DEF ReadFile, ContextFrom
<1> HIDE DEF file, cut
<1>9. CASE run' = NextFile(NoContext)
  <2>1. NoContext \in Context /\ NoContext.read = FALSE
    BY DEF Context, NoContext
  <2> QED BY <1>1, <1>9, <2>1, NextFileKeeps
<1>10. CASE Fails("undecodable")
  BY <1>1, <1>10, DiffKeptFailing
<1>11. CASE Raises(cut.of, n) /\ Fails("excerpt")
  <2>1. ASSUME run.seen = moved PROVE FALSE
    <3>1. n = ContentLines(s)
      BY <1>5, <1>6, <2>1
    <3>2. cut = Excerpts(ChangedRanges(s), ContentLines(s))
      BY <1>6, <1>7, <2>1 DEF CutFor
    <3>3. ~Raises(Excerpts(ChangedRanges(s), ContentLines(s)).of, ContentLines(s))
      BY <1>4, ExcerptsAreLines
    <3> HIDE DEF n
    <3> QED BY <1>11, <3>1, <3>2, <3>3
  <2> QED BY <1>1, <1>11, <2>1, DiffKeptFailing
<1>12. CASE run' = NextFile(ContextFrom(cut, run.seen = moved))
  <2>1. PICK context : context = ContextFrom(cut, run.seen = moved)
    OBVIOUS
  <2>2. context \in Context
    <3>1. PICK b \in BOOLEAN : b = (run.seen = moved)
      OBVIOUS
    <3>2. ContextFrom(CutFor(s, t), b) \in Context
      BY <1>4, <1>5 DEF Context
    <3> QED BY <1>7, <2>1, <3>1, <3>2
  <2>3. context.read = (run.seen = moved)
    BY <2>1 DEF ContextFrom
  <2>4. context.read => context = ContextFrom(CutFor(s, s), TRUE)
    BY <1>6, <1>7, <2>1, <2>3
  <2>5. s = run.files[run.next].script
    BY <1>4 DEF file
  <2> QED BY <1>1, <1>12, <2>1, <2>2, <2>4, <2>5, NextFileKeeps
<1> QED BY <1>8, <1>9, <1>10, <1>11, <1>12

LEMMA ReadDiffKeeps ==
    ASSUME RunShape, ReviewInv, ReadDiff
    PROVE  ReviewInv'
<1>1. run.kind = "review" /\ run.stage = "diff" /\ UNCHANGED <<target, moved>>
  BY DEF ReadDiff, Reviewing
<1>2. DiffRead /\ FilesRead /\ FindingsMade
  BY <1>1 DEF ReviewInv
<1>3. CASE \E cause \in {"git", "empty", "tooMany"} : Fails(cause)
  BY <1>1, <1>3, DiffKeptFailing
<1>4. CASE run' = [run EXCEPT !.stage = "graph", !.files = Reviewable(Tip), !.seen = moved]
  <2>1. PICK files : files = Reviewable(Tip)
    OBVIOUS
  <2>2. /\ run'.kind = run.kind /\ run'.cause = run.cause /\ run'.files = files
        /\ run'.stage = "graph" /\ run'.seen = moved /\ run'.findings = run.findings
        /\ run'.next = run.next /\ run'.contexts = run.contexts
    BY <1>4, <2>1, Fields, <1>1 DEF ReviewFields
  <2>3. run.contexts = <<>> /\ run.findings = <<>> /\ run.next = Len(run.contexts) + 1 /\ run.cause # "excerpt"
    BY <1>1, <1>2 DEF FilesRead, Early, Reading
  <2>4. ReadAt' = Tip
    BY <1>1, <1>2, <2>2 DEF ReadAt, Tip, DiffRead
  <2>5. files \in Seq(Reviewed(Tip))
    <3>1. Tip \in Seq(Entry)
      BY <1>2 DEF DiffRead, IsDiff, Tip
    <3>2. Len(Tip) \in Nat /\ DOMAIN Tip = 1 .. Len(Tip)
      BY <3>1
    <3> DEFINE at == {i \in DOMAIN Tip : Tip[i].kind = "text" /\ Changed(Tip[i].script) # {}}
    <3>3. \A i \in 1 .. Len(Tip) : i \in at => Tip[i] \in Reviewed(Tip)
      <4>1. \A i \in 1 .. Len(Tip) : Tip[i] \in Entry
        BY <3>1
      <4> QED BY <3>2, <4>1 DEF Reviewed
    <3>4. files = Sublist(Tip, at)
      BY <2>1 DEF Reviewable
    <3> HIDE DEF at
    <3> QED BY <3>2, <3>3, <3>4, SublistType
  <2>6. DiffRead'
    BY <1>1, <1>2, <2>2, <2>4, <2>5 DEF DiffRead
  <2>7. FilesRead'
    <3>1. <<>> \in Seq(Context) /\ Len(<<>>) = 0 /\ 1 .. 0 = {} /\ 1 \in Nat \ {0} /\ 0 + 1 = 1
      OBVIOUS
    <3>2. 0 =< Len(files)
      <4>1. Len(files) \in Nat
        BY <2>5
      <4> QED BY <4>1
    <3>3. "graph" \notin Early
      BY DEF Early
    <3> QED BY <2>2, <2>3, <3>1, <3>2, <3>3 DEF FilesRead
  <2>8. FindingsMade'
    <3>1. <<>> \in Seq(Reported(files))
      OBVIOUS
    <3> QED BY <2>2, <2>3, <3>1 DEF FindingsMade
  <2> QED BY <2>6, <2>7, <2>8 DEF ReviewInv
<1> QED BY <1>3, <1>4 DEF ReadDiff

\* One file more is analysed, with what its answer reports.
LEMMA AnalyzedKeeps ==
    ASSUME RunShape, ReviewInv, run.kind = "review", run.stage = "analyze",
           NEW all \in Seq(Reported(run.files)), Sets({"next", "findings"}),
           run'.next = run.next + 1, run'.findings = all, UNCHANGED <<target, moved>>
    PROVE  ReviewInv'
<1>1. DiffRead /\ FilesRead /\ FindingsMade
  BY DEF ReviewInv
<1>2. /\ run'.kind = run.kind /\ run'.cause = run.cause /\ run'.files = run.files
      /\ run'.stage = run.stage /\ run'.seen = run.seen /\ run'.contexts = run.contexts
  BY Fields DEF Sets, ReviewFields
<1>3. DiffRead'
  BY <1>1, <1>2 DEF DiffRead, ReadAt
<1>4. FilesRead'
  <2>1. run.next + 1 \in Nat \ {0}
    BY <1>1 DEF FilesRead
  <2>2. "analyze" \notin Early /\ "analyze" \notin Reading
    BY DEF Early, Reading
  <2>3. run.cause # "excerpt"
    BY <1>1 DEF FilesRead
  <2> QED BY <1>1, <1>2, <2>1, <2>2, <2>3 DEF FilesRead
<1>5. FindingsMade'
  BY <1>2 DEF FindingsMade
<1> QED BY <1>3, <1>4, <1>5 DEF ReviewInv

LEMMA AnalyzeFileKeeps ==
    ASSUME RunShape, ReviewInv, AnalyzeFile
    PROVE  ReviewInv'
<1>1. /\ run.kind = "review" /\ run.stage = "analyze" /\ run.next =< Len(run.files)
      /\ UNCHANGED <<target, moved>>
  BY DEF AnalyzeFile, Reviewing
<1>2. DiffRead /\ FilesRead /\ FindingsMade
  BY <1>1 DEF ReviewInv
<1>3. run.next \in 1 .. Len(run.files)
  <2>1. run.next \in Nat \ {0}
    BY <1>2 DEF FilesRead
  <2>2. Len(run.files) \in Nat
    BY <1>2 DEF DiffRead
  <2> QED BY <1>1, <2>1, <2>2
<1>4. CASE \E cause \in {"provider", "noise"} : Fails(cause)
  BY <1>1, <1>4, DiffKeptFailing
<1>5. CASE run' = [run EXCEPT !.next = @ + 1]
  <2>1. Sets({"next", "findings"}) /\ run'.next = run.next + 1 /\ run'.findings = run.findings
    BY <1>1, <1>5, Fields DEF Sets, ReviewFields
  <2> QED BY <1>1, <1>2, <2>1, AnalyzedKeeps DEF FindingsMade
<1>6. ASSUME NEW raw \in Findings,
             LET kept == Sublist(raw, {i \in DOMAIN raw : IsAbout(raw[i])})
             IN  run' = [run EXCEPT !.next = @ + 1,
                                    !.findings = @ \o [i \in DOMAIN kept |-> Validated(kept[i])]]
      PROVE  ReviewInv'
  <2>1. PICK kept : kept = Sublist(raw, {i \in DOMAIN raw : IsAbout(raw[i])})
    OBVIOUS
  <2>2. kept \in Seq(RawFinding)
    <3>1. raw \in Seq(RawFinding)
      BY ReviewAssumption
    <3>2. Len(raw) \in Nat /\ \A i \in 1 .. Len(raw) : raw[i] \in RawFinding
      BY <3>1
    <3> QED BY <2>1, <3>2, SublistType
  <2>3. Len(kept) \in Nat /\ DOMAIN kept = 1 .. Len(kept)
    BY <2>2
  <2>4. PICK new : new = [i \in 1 .. Len(kept) |-> Validated(kept[i])]
    OBVIOUS
  <2>5. \A i \in 1 .. Len(kept) : Validated(kept[i]) \in Reported(run.files)
    <3> SUFFICES ASSUME NEW i \in 1 .. Len(kept) PROVE Validated(kept[i]) \in Reported(run.files)
      OBVIOUS
    <3>1. kept[i] \in RawFinding
      BY <2>2
    <3>2. kept[i].line \in Int
      BY <3>1 DEF RawFinding
    <3>3. Validated(kept[i]) = Report(run.files, run.next, kept[i].line)
      BY DEF Validated, Report
    <3> QED BY <1>3, <3>2, <3>3 DEF Reported
  <2>6. new \in Seq(Reported(run.files))
    BY <2>3, <2>4, <2>5
  <2>7. PICK all : all = run.findings \o new
    OBVIOUS
  <2>8. all \in Seq(Reported(run.files))
    BY <1>2, <2>6, <2>7 DEF FindingsMade
  <2>9. run' = [run EXCEPT !.next = run.next + 1, !.findings = all]
    BY <1>6, <2>1, <2>3, <2>4, <2>7
  <2>10. PICK n : n = run.next + 1
    OBVIOUS
  <2>11. Sets({"next", "findings"}) /\ run'.next = n /\ run'.findings = all
    BY <1>1, <2>9, <2>10, Fields DEF Sets, ReviewFields
  <2> QED BY <1>1, <2>8, <2>10, <2>11, AnalyzedKeeps
<1>7. \/ \E cause \in {"provider", "noise"} : Fails(cause)
      \/ run' = [run EXCEPT !.next = @ + 1]
      \/ \E raw \in Findings :
            LET kept == Sublist(raw, {i \in DOMAIN raw : IsAbout(raw[i])})
            IN  run' = [run EXCEPT !.next = @ + 1,
                                   !.findings = @ \o [i \in DOMAIN kept |-> Validated(kept[i])]]
  BY DEF AnalyzeFile
<1> QED BY <1>4, <1>5, <1>6, <1>7

LEMMA StagesKeep ==
    ASSUME CoresInv, ReviewInv, ReviewStep
    PROVE  ReviewInv'
<1>0. RunShape
  BY DEF CoresInv
<1>1. ASSUME run.kind = "review", run.stage # "failed", NEW fields, Sets(fields),
             fields \cap {"kind", "cause", "files", "seen", "next", "contexts", "findings"} = {},
             run'.stage = run.stage \/ run'.stage \notin Reading, UNCHANGED <<target, moved>>
      PROVE  ReviewInv'
  <2>1. Early \subseteq Reading
    BY DEF Early, Reading
  <2> QED BY <1>0, <1>1, <2>1, DiffKept
<1>2. CASE run.kind = "review" /\ ResolveLlm("diff") /\ UNCHANGED <<target, moved>>
  <2>1. run.stage = "resolve" /\ (Goes("diff") \/ Fails("llm"))
    BY <1>2 DEF ResolveLlm
  <2>2. CASE Goes("diff")
    <3>1. Sets({"stage"}) /\ run'.stage = "diff"
      BY <1>0, <2>2, GoesSets
    <3> QED BY <1>0, <1>2, <2>1, <3>1, DiffKept DEF Early, Reading
  <2>3. CASE Fails("llm")
    BY <1>0, <1>2, <2>3, DiffKeptFailing
  <2> QED BY <2>1, <2>2, <2>3
<1>3. CASE run.kind = "review" /\ LoadPlaybooks("skills") /\ UNCHANGED <<target, moved>>
  <2>1. Sets({"stage", "sizes", "got"}) /\ run'.stage = "skills" /\ run.stage = "playbooks"
    BY <1>3, LoadPlaybooksCuts DEF LoadPlaybooks
  <2> QED BY <1>1, <1>3, <2>1 DEF Reading
<1>4. CASE run.kind = "review" /\ Summarize /\ UNCHANGED <<target, moved>>
  <2>1. run.stage = "summarize" /\ (Goes("done") \/ Fails("provider"))
    BY <1>4 DEF Summarize
  <2>2. CASE Goes("done")
    <3>1. Sets({"stage"}) /\ run'.stage = "done"
      BY <1>0, <2>2, GoesSets
    <3> QED BY <1>1, <1>4, <2>1, <3>1 DEF Reading
  <2>3. CASE Fails("provider")
    BY <1>0, <1>4, <2>3, DiffKeptFailing
  <2> QED BY <2>1, <2>2, <2>3
<1>5. CASE OpenGraph
  <2>1. run.kind = "review" /\ run.stage = "graph" /\ Goes("context") /\ UNCHANGED <<target, moved>>
    BY <1>5 DEF OpenGraph, Reviewing
  <2>2. Sets({"stage"}) /\ run'.stage = "context"
    BY <1>0, <2>1, GoesSets
  <2> QED BY <1>0, <2>1, <2>2, DiffKept DEF Early, Reading
<1>6. CASE ContextEnds
  <2>1. /\ run.kind = "review" /\ run.stage = "context" /\ UNCHANGED <<target, moved>>
        /\ run' = [run EXCEPT !.stage = "playbooks", !.next = 1]
    BY <1>6 DEF ContextEnds, Reviewing
  <2>2. DiffRead /\ FilesRead /\ FindingsMade
    BY <2>1 DEF ReviewInv
  <2>3. /\ run'.kind = run.kind /\ run'.cause = run.cause /\ run'.files = run.files
        /\ run'.stage = "playbooks" /\ run'.seen = run.seen /\ run'.findings = run.findings
        /\ run'.next = 1 /\ run'.contexts = run.contexts
    BY <1>0, <2>1, Fields DEF ReviewFields
  <2>4. DiffRead' /\ FindingsMade'
    BY <2>1, <2>2, <2>3 DEF DiffRead, ReadAt, FindingsMade
  <2>5. FilesRead'
    <3>1. 1 \in Nat \ {0} /\ "playbooks" \notin Early /\ "playbooks" \notin Reading
      BY DEF Early, Reading
    <3>2. run.cause # "excerpt"
      BY <2>1, <2>2 DEF FilesRead
    <3> QED BY <2>2, <2>3, <3>1, <3>2 DEF FilesRead
  <2> QED BY <2>4, <2>5 DEF ReviewInv
<1>7. CASE SelectSkills
  <2>1. run.kind = "review" /\ run.stage = "skills" /\ UNCHANGED <<target, moved>>
    BY <1>7 DEF SelectSkills, Reviewing
  <2>2. CASE Goes("prompt")
    <3>1. Sets({"stage"}) /\ run'.stage = "prompt"
      BY <1>0, <2>2, GoesSets
    <3> QED BY <1>1, <2>1, <3>1 DEF Reading
  <2>3. CASE Fails("provider")
    BY <1>0, <2>1, <2>3, DiffKeptFailing
  <2>4. ASSUME NEW picked, run' = [run EXCEPT !.stage = "fetch", !.picked = picked] PROVE ReviewInv'
    <3>1. Sets({"stage", "picked"}) /\ run'.stage = "fetch"
      BY <1>0, <2>4, Fields DEF Sets
    <3> QED BY <1>1, <2>1, <3>1 DEF Reading
  <2> QED BY <1>7, <2>2, <2>3, <2>4 DEF SelectSkills
<1>8. CASE FetchSkill
  <2>1. run.kind = "review" /\ run.stage = "fetch" /\ UNCHANGED <<target, moved>>
    BY <1>8 DEF FetchSkill, Reviewing
  <2>2. CASE Goes("prompt")
    <3>1. Sets({"stage"}) /\ run'.stage = "prompt"
      BY <1>0, <2>2, GoesSets
    <3> QED BY <1>1, <2>1, <3>1 DEF Reading
  <2>3. ASSUME NEW picked, NEW sizes, run' = [run EXCEPT !.picked = picked, !.skillSizes = sizes]
        PROVE  ReviewInv'
    <3>1. Sets({"picked", "skillSizes"}) /\ run'.stage = run.stage
      BY <1>0, <2>3, Fields DEF Sets
    <3> QED BY <1>1, <2>1, <3>1
  <2>4. \/ Goes("prompt")
        \/ \E picked, sizes : run' = [run EXCEPT !.picked = picked, !.skillSizes = sizes]
    BY <1>8 DEF FetchSkill
  <2> QED BY <2>2, <2>3, <2>4
<1>9. CASE BuildPrompt
  <2>1. /\ run.kind = "review" /\ run.stage = "prompt" /\ UNCHANGED <<target, moved>>
        /\ run' = [run EXCEPT !.stage = "analyze", !.skillGot = Included(run.skillSizes, SkillInjectionMax)]
    BY <1>9 DEF BuildPrompt, Reviewing
  <2>2. Sets({"stage", "skillGot"}) /\ run'.stage = "analyze"
    BY <1>0, <2>1, Fields DEF Sets
  <2> QED BY <1>1, <2>1, <2>2 DEF Reading
<1>10. CASE AnalysisEnds
  <2>1. run.kind = "review" /\ run.stage = "analyze" /\ Goes("summarize") /\ UNCHANGED <<target, moved>>
    BY <1>10 DEF AnalysisEnds, Reviewing
  <2>2. Sets({"stage"}) /\ run'.stage = "summarize"
    BY <1>0, <2>1, GoesSets
  <2> QED BY <1>1, <2>1, <2>2 DEF Reading
<1> QED BY <1>0, <1>2, <1>3, <1>4, <1>5, <1>6, <1>7, <1>8, <1>9, <1>10,
           ReadDiffKeeps, ReadFileKeeps, AnalyzeFileKeeps DEF ReviewStep

LEMMA ReviewInduction == CoresInv /\ ReviewInv /\ [Next]_coreVars => ReviewInv'
<1> SUFFICES ASSUME CoresInv, ReviewInv, [Next]_coreVars PROVE ReviewInv'
  OBVIOUS
<1>1. CASE HuntStep
  <2>1. run'.kind = run.kind
    BY <1>1, HuntKeepsKind DEF CoresInv
  <2>2. run.kind = "bughunt"
    BY <1>1 DEF HuntStep, OpenClient, ChatRaises, LoopReturns, RetryParse, PushBack, HuntEnds,
                ValidateFindings, At
  <2> QED BY <2>1, <2>2 DEF ReviewInv
<1>2. CASE ReviewStep
  BY <1>2, StagesKeep
<1>3. CASE UNCHANGED <<run, target, moved>>
  <2>1. UNCHANGED run /\ UNCHANGED target /\ UNCHANGED moved
    BY <1>3
  <2>2. ASSUME DiffRead PROVE DiffRead'
    BY <2>1, <2>2 DEF DiffRead, ReadAt
  <2>3. ASSUME FilesRead PROVE FilesRead'
    BY <2>1, <2>3 DEF FilesRead
  <2> QED BY <2>1, <2>2, <2>3 DEF ReviewInv, FindingsMade
<1>4. CASE TargetMoves
  <2>1. run.kind = "review" /\ run.stage # "failed" /\ moved' = TRUE /\ UNCHANGED <<run, target>>
    BY <1>4 DEF TargetMoves
  <2>2. DiffRead /\ FilesRead /\ FindingsMade
    BY <2>1 DEF ReviewInv
  <2>3. DiffRead'
    BY <2>1, <2>2 DEF DiffRead, ReadAt
  <2>4. FilesRead'
    BY <2>1, <2>2 DEF FilesRead
  <2>5. FindingsMade'
    BY <2>1, <2>2 DEF FindingsMade
  <2> QED BY <2>3, <2>4, <2>5 DEF ReviewInv
<1> QED BY <1>1, <1>2, <1>3, <1>4 DEF Next, Work, Editing, Moving, coreVars

LEMMA ReviewAlways == Spec => []ReviewInv
<1> QED BY InitCores, InitReview, CoresInduction, ReviewInduction, PTL DEF Spec

\* What RangesAreTheChange says of one script.
AreTheChange(ranges, s) ==
    LET runs == Runs(s)
        added(r) == {TargetLine(s, j) : j \in {k \in r[1]..r[2] : s[k] = "+"}}
        place(r) == IF TargetLine(s, Len(s)) = 0 THEN 0 ELSE TargetLine(s, r[1]) + 1
    IN  /\ Len(ranges) = Len(runs)
        /\ \A k \in DOMAIN runs :
              ranges[k][1]..ranges[k][2] = IF added(runs[k]) # {} THEN added(runs[k]) ELSE {place(runs[k])}

LEMMA RangesOfScript ==
    ASSUME NEW s \in Seq(Letter), Tidy(s)
    PROVE  AreTheChange(ChangedRanges(s), s)
<1>1. Len(ChangedRanges(s)) = Len(Runs(s)) /\ DOMAIN Runs(s) = 1 .. Len(Runs(s))
  BY RangesAreRight
<1>2. ASSUME NEW k \in 1 .. Len(Runs(s))
      PROVE  LET r == ChangedRanges(s)[k]
             IN  r[1] .. r[2] = IF Added(s, Runs(s)[k]) # {} THEN Added(s, Runs(s)[k])
                                ELSE {Place(s, Runs(s)[k])}
  <2>1. ChangedRanges(s)[k] = RangeOf(s, Runs(s)[k])
    BY RangesAreRight
  <2> QED BY <2>1, RangeIsAdded
<1>3. \A k \in DOMAIN Runs(s) :
         ChangedRanges(s)[k][1] .. ChangedRanges(s)[k][2] =
            IF Added(s, Runs(s)[k]) # {} THEN Added(s, Runs(s)[k]) ELSE {Place(s, Runs(s)[k])}
  BY <1>1, <1>2
<1> QED BY <1>1, <1>3, Zenon DEF AreTheChange, Added, Place

(* The ranges that anchor findings are the change, for any edit script:     *)
(* each run of changed lines is reported as the lines it added, as git      *)
(* numbers them, or as the place of what it deleted (parse_unified_diff and *)
(* _hunk_changed_ranges; files without a lone carriage return).             *)
THEOREM RangesAreTheChangeAlways == Spec => []RangesAreTheChange
<1>1. ReviewInv => RangesAreTheChange
  <2> SUFFICES ASSUME ReviewInv, run.kind = "review", NEW i \in DOMAIN run.files, ByNewlines(run.files[i])
               PROVE  AreTheChange(ChangedRanges(run.files[i].script), run.files[i].script)
    BY Zenon DEF RangesAreTheChange, AreTheChange
  <2>1. DiffRead /\ i \in 1 .. Len(run.files)
    BY DEF ReviewInv, DiffRead
  <2>2. run.files[i].script \in Seq(Letter)
    BY <2>1, FileIsText
  <2>3. Tidy(run.files[i].script)
    BY DEF ByNewlines, Tidy
  <2> QED BY <2>2, <2>3, RangesOfScript
<1> QED BY <1>1, ReviewAlways, PTL

(* What a review shows of a file that it read at the commit of the diff are *)
(* lines of that file, every added one unless the excerpt was cut, and      *)
(* reading past the end of a file means that the target has moved           *)
(* (_build_excerpts).                                                       *)
THEOREM ChangeIsShownAlways == Spec => []ChangeIsShown
<1>1. ReviewInv => ChangeIsShown
  <2> SUFFICES ASSUME ReviewInv, run.kind = "review" PROVE ChangeIsShown
    BY DEF ChangeIsShown
  <2>1. DiffRead /\ FilesRead
    BY DEF ReviewInv
  <2>2. run.cause = "excerpt" => run.seen # moved
    BY <2>1 DEF FilesRead
  <2>3. DOMAIN run.contexts = 1 .. Len(run.contexts)
    BY <2>1 DEF FilesRead
  <2>4. ASSUME NEW i \in 1 .. Len(run.contexts), run.contexts[i].read, ByNewlines(run.files[i])
        PROVE  LET file == run.files[i]  context == run.contexts[i]  s == file.script
                   shown == UNION {context.excerpts[k][1]..context.excerpts[k][2] : k \in DOMAIN context.excerpts}
               IN  /\ shown \subseteq 1..ContentLines(s)
                   /\ ~context.truncated =>
                         {TargetLine(s, j) : j \in {k \in DOMAIN s : s[k] = "+"}} \subseteq shown
    <3>1. i \in 1 .. Len(run.files)
      <4>1. Len(run.contexts) \in Nat /\ Len(run.files) \in Nat /\ Len(run.contexts) =< Len(run.files)
        BY <2>1 DEF DiffRead, FilesRead
      <4> QED BY <4>1
    <3>2. PICK s : s = run.files[i].script /\ s \in Seq(Letter)
      BY <2>1, <3>1, FileIsText
    <3>3. Tidy(s)
      BY <2>4, <3>2 DEF ByNewlines, Tidy
    <3>4. PICK c : c = Excerpts(ChangedRanges(s), ContentLines(s))
      OBVIOUS
    <3>5. run.contexts[i] = ContextFrom(c, TRUE)
      BY <2>1, <2>4, <3>2, <3>4 DEF FilesRead, CutFor
    <3>6. run.contexts[i].excerpts = c.of /\ run.contexts[i].truncated = c.truncated
      BY <3>5 DEF ContextFrom
    <3> DEFINE shown == UNION {c.of[k][1]..c.of[k][2] : k \in DOMAIN c.of}
    <3>7. shown \subseteq 1 .. ContentLines(s)
      BY <3>2, <3>4, ExcerptsAreLines
    <3>8. ASSUME ~c.truncated
          PROVE  {TargetLine(s, j) : j \in {k \in DOMAIN s : s[k] = "+"}} \subseteq shown
      <4>1. \A j \in DOMAIN s : s[j] = "+" =>
               \E l \in DOMAIN c.of : TargetLine(s, j) \in c.of[l][1] .. c.of[l][2]
        BY <3>2, <3>3, <3>4, <3>8, ExcerptsAreLines
      <4> QED BY <4>1
    <3> QED BY <3>2, <3>6, <3>7, <3>8
  <2> QED BY <2>2, <2>3, <2>4 DEF ChangeIsShown
<1> QED BY <1>1, ReviewAlways, PTL

(* A finding that is called anchored, at a line that the target file has,   *)
(* is about a line that the hunk it quotes shows (_is_anchored and          *)
(* _nearest_hunk, for a tolerance below git's context).                     *)
THEOREM AnchoredInHunkAlways == Spec => []AnchoredInHunk
<1>1. ReviewInv => AnchoredInHunk
  <2> SUFFICES ASSUME ReviewInv, run.kind = "review", NEW i \in DOMAIN run.findings
               PROVE  LET f == run.findings[i]  file == run.files[f.file]  s == file.script
                      IN  f.anchored /\ ByNewlines(file) /\ f.line \in 1..TargetLine(s, Len(s))
                            => \E j \in f.hunk[1]..f.hunk[2] : s[j] # "-" /\ TargetLine(s, j) = f.line
    BY DEF AnchoredInHunk
  <2>1. DiffRead /\ FindingsMade
    BY DEF ReviewInv
  <2>2. run.findings[i] \in Reported(run.files)
    BY <2>1 DEF FindingsMade
  <2>3. PICK at \in 1 .. Len(run.files), line \in Int : run.findings[i] = Report(run.files, at, line)
    BY <2>2 DEF Reported
  <2>4. PICK f : f = run.findings[i]
    OBVIOUS
  <2>5. PICK s : s = run.files[at].script /\ s \in Seq(Letter)
    BY <2>1, FileIsText
  <2>6. /\ f.file = at /\ f.line = line /\ f.hunk = NearestHunk(s, line)
        /\ f.anchored => Anchors(line, ChangedRanges(s))
    <3>1. f.file = at /\ f.line = line /\ f.hunk = NearestHunk(run.files[at].script, line)
      BY <2>3, <2>4 DEF Report
    <3>2. f.anchored = (line # NoLine /\ Anchors(line, ChangedRanges(run.files[at].script)))
      BY <2>3, <2>4 DEF Report
    <3> QED BY <2>5, <3>1, <3>2
  <2>7. ASSUME f.anchored, Tidy(s), line \in 1 .. TargetLine(s, Len(s))
        PROVE  \E j \in f.hunk[1] .. f.hunk[2] : s[j] # "-" /\ TargetLine(s, j) = line
    BY <2>5, <2>6, <2>7, EvidenceShowsLine
  <2> QED BY <2>4, <2>5, <2>6, <2>7 DEF ByNewlines, Tidy
<1> QED BY <1>1, ReviewAlways, PTL
=============================================================================
