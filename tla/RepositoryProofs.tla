-------------------------- MODULE RepositoryProofs --------------------------
(***************************************************************************)
(* Proofs about the two algorithms that read a repository.                 *)
(*                                                                         *)
(* IndexProjection: for every README, whatever its lines and wherever the  *)
(* budget cuts it, the projection depends on nothing that was not read,    *)
(* its marker is outside of every fence CommonMark sees as long as the code*)
(* and CommonMark see the same fences, and it fits the budget.             *)
(*                                                                         *)
(* HistoryShadow (the second half): for every history and every policy, a  *)
(* reported candidate adds up, no path is in two of them, a qualified pair *)
(* gives way to better ones only, and a diff that is left out changes      *)
(* nothing.                                                                *)
(*                                                                         *)
(* The invariants are only that the README is made of lines and the history*)
(* of diffs; the work is in the operators.  What a recursive definition    *)
(* computes is shown by one lemma (RunsExist: a function that makes all the*)
(* steps exists) and by the least step at which something is wrong.        *)
(***************************************************************************)
EXTENDS IndexProjection, HistoryShadow, SequenceTheorems, FiniteSetTheorems, WellFoundedInduction, TLAPS

\* A set of numbers that is not empty has a least one.
LEMMA LeastNumber ==
    ASSUME NEW T, T \subseteq Nat, T # {}
    PROVE  \E x \in T : \A y \in T : x <= y
<1>1. PICK x \in T : \A y \in T : <<y, x>> \notin OpToRel(<, Nat)
  BY NatLessThanWellFounded, WFMin
<1>2. \A y \in T : ~(y < x)
  BY <1>1 DEF OpToRel
<1> QED BY <1>2

\* A set of numbers with a bound has a greatest one, which Max is.
LEMMA MaxIs ==
    ASSUME NEW S, S \subseteq Nat, S # {}, NEW b \in Nat, \A y \in S : y <= b
    PROVE  Max(S) \in S /\ \A y \in S : y <= Max(S)
<1> DEFINE T == {n \in Nat : \A y \in S : y <= n}
<1>1. PICK x \in T : \A n \in T : x <= n
  <2>1. b \in T
    OBVIOUS
  <2> HIDE DEF T
  <2>2. T \subseteq Nat
    BY DEF T
  <2> QED BY <2>1, <2>2, LeastNumber
<1>2. x \in S
  <2> SUFFICES ASSUME x \notin S PROVE FALSE
    OBVIOUS
  <2>1. \A y \in S : y < x
    OBVIOUS
  <2>2. x # 0
    <3>1. PICK y \in S : TRUE
      OBVIOUS
    <3> QED BY <2>1, <3>1
  <2>3. x - 1 \in T
    BY <2>1, <2>2
  <2> QED BY <1>1, <2>3
<1>3. \A y \in S : x >= y
  OBVIOUS
<1>4. \E m \in S : \A y \in S : m >= y
  BY <1>2, <1>3
<1>5. Max(S) \in S /\ \A y \in S : Max(S) >= y
  BY <1>4 DEF Max
<1> HIDE DEF T
<1> QED BY <1>5

LEMMA MinOfTwo ==
    ASSUME NEW a \in Nat, NEW b \in Nat
    PROVE  Min({a, b}) = IF a <= b THEN a ELSE b
<1> DEFINE m == IF a <= b THEN a ELSE b
<1>1. m \in {a, b} /\ \A y \in {a, b} : m <= y
  OBVIOUS
<1>2. \A x \in {a, b} : (\A y \in {a, b} : x <= y) => x = m
  OBVIOUS
<1> QED BY <1>1, <1>2 DEF Min

----------------------------------------------------------------------------
(* Documents.                                                              *)

\* A run of at least three characters, where it starts and what is behind it.
Shaped(l) ==
    /\ l.len \in Nat /\ l.indent \in Nat
    /\ l.kind \in {"fence", "item"} => l.size \in Nat /\ l.size >= 3 /\ l.indent + l.size <= l.len
Markdown(doc) == doc \in Seq(ToSet(doc)) /\ \A i \in DOMAIN doc : Shaped(doc[i])

LEMMA MarkdownIs ==
    ASSUME NEW doc, Markdown(doc)
    PROVE  /\ Len(doc) \in Nat /\ DOMAIN doc = 1..Len(doc) /\ doc = [i \in 1..Len(doc) |-> doc[i]]
           /\ \A i \in 1..Len(doc) : doc[i].len \in Nat
<1>1. Len(doc) \in Nat /\ DOMAIN doc = 1..Len(doc) /\ doc \in [1..Len(doc) -> ToSet(doc)]
  BY LenProperties DEF Markdown
<1> QED BY <1>1 DEF Markdown, Shaped

LEMMA LinesAreMarkdown ==
    ASSUME NEW n \in Nat, NEW f, f = [i \in 1..n |-> f[i]], \A i \in 1..n : Shaped(f[i])
    PROVE  Markdown(f) /\ Len(f) = n /\ DOMAIN f = 1..n
<1>1. DOMAIN f = 1..n /\ \A i \in 1..n : f[i] \in ToSet(f)
  BY DEF ToSet
<1>2. f \in Seq(ToSet(f))
  <2> DEFINE T == ToSet(f)
  <2>1. f \in [1..n -> T]
    BY <1>1
  <2> HIDE DEF T
  <2>2. f \in Seq(T)
    BY <2>1
  <2> QED BY <2>2 DEF T
<1>3. Len(f) \in Nat /\ DOMAIN f = 1..Len(f)
  BY <1>2, LenProperties
<1>4. Len(f) = n
  BY <1>1, <1>3
<1> QED BY <1>1, <1>2, <1>4 DEF Markdown

\* Two documents with the same lines.
LEMMA SameLines ==
    ASSUME NEW doc, Markdown(doc), NEW u, Markdown(u), Len(doc) = Len(u),
           \A i \in 1..Len(doc) : doc[i] = u[i]
    PROVE  doc = u
<1>1. doc = [i \in 1..Len(doc) |-> doc[i]] /\ u = [i \in 1..Len(u) |-> u[i]]
  BY MarkdownIs
<1> QED BY <1>1

\* u is the first n lines of doc.
Begins(u, doc, n) ==
    /\ Markdown(u) /\ Len(u) = n /\ \A i \in 1..n : u[i] = doc[i]

LEMMA FirstLines ==
    ASSUME NEW doc, Markdown(doc), NEW n \in 0..Len(doc)
    PROVE  Begins(SubSeq(doc, 1, n), doc, n)
<1> DEFINE T == ToSet(doc)
           u == SubSeq(doc, 1, n)
           m == Len(doc)
<1>1. m \in Nat /\ doc \in Seq(T) /\ \A i \in 1..m : doc[i] \in T /\ Shaped(doc[i])
  <2>1. m \in Nat /\ DOMAIN doc = 1..m
    BY MarkdownIs
  <2> QED BY <2>1 DEF Markdown, ToSet
<1> HIDE DEF T
<1>2. n \in Nat /\ \A i \in 1..n : i \in 1..m
  BY <1>1
<1> HIDE DEF m
<1>3. \A i \in 1..n : doc[i] \in T /\ Shaped(doc[i])
  BY <1>1, <1>2
<1>4. u \in Seq(T) /\ Len(u) = (IF 1 <= n THEN n - 1 + 1 ELSE 0) /\ \A i \in 1..n - 1 + 1 : u[i] = doc[1 + i - 1]
  BY <1>2, <1>3, SubSeqProperties
<1> HIDE DEF u
<1>5. Len(u) = n
  BY <1>2, <1>4
<1>6. \A i \in 1..n : u[i] = doc[i]
  <2> TAKE i \in 1..n
  <2>1. i \in 1..n - 1 + 1 /\ 1 + i - 1 = i
    BY <1>2
  <2> QED BY <1>4, <2>1
<1>7. u = [i \in 1..n |-> u[i]]
  <2>1. u \in [1..Len(u) -> T]
    BY <1>4, LenProperties
  <2> QED BY <1>5, <2>1
<1>8. Markdown(u)
  <2>1. \A i \in 1..n : Shaped(u[i])
    BY <1>3, <1>6
  <2> QED BY <1>2, <1>7, <2>1, LinesAreMarkdown
<1> QED BY <1>5, <1>6, <1>8 DEF Begins, u

LEMMA FirstLinesAnd ==
    ASSUME NEW doc, Markdown(doc), NEW n \in 0..Len(doc), NEW x, Shaped(x)
    PROVE  LET u == Append(SubSeq(doc, 1, n), x)
           IN Markdown(u) /\ Len(u) = n + 1 /\ u[n + 1] = x /\ \A i \in 1..n : u[i] = doc[i]
<1> DEFINE s == SubSeq(doc, 1, n)
           S == ToSet(s) \cup {x}
           u == Append(s, x)
<1>1. Markdown(s) /\ Len(s) = n /\ \A i \in 1..n : s[i] = doc[i]
  BY FirstLines DEF Begins
<1> HIDE DEF s
<1>2. s \in Seq(S) /\ x \in S /\ n \in Nat /\ DOMAIN s = 1..n
  <2>1. s \in Seq(ToSet(s)) /\ ToSet(s) \subseteq S
    BY <1>1 DEF Markdown
  <2>2. n \in Nat /\ DOMAIN s = 1..n
    BY <1>1, MarkdownIs
  <2> QED BY <2>1, <2>2, SeqMonotonic
<1> HIDE DEF S
<1>3. u \in Seq(S) /\ Len(u) = n + 1 /\ (\A i \in 1..n : u[i] = s[i]) /\ u[n + 1] = x
  BY <1>1, <1>2, AppendProperties
<1> HIDE DEF u
<1>4. u = [i \in 1..n + 1 |-> u[i]] /\ n + 1 \in Nat
  BY <1>2, <1>3, LenProperties
<1>5. \A i \in 1..n + 1 : Shaped(u[i])
  <2> TAKE i \in 1..n + 1
  <2>1. CASE i \in 1..n
    <3>1. Shaped(s[i])
      BY <1>1, <1>2, <2>1 DEF Markdown
    <3> QED BY <1>3, <2>1, <3>1
  <2>2. CASE i = n + 1
    BY <1>3, <2>2
  <2> QED BY <1>2, <2>1, <2>2
<1>6. Markdown(u)
  BY <1>4, <1>5, LinesAreMarkdown
<1> QED BY <1>1, <1>3, <1>6 DEF u, s

----------------------------------------------------------------------------
(* Loops over the lines of a document.                                     *)

\* f is what the steps g make of z.
Runs(f, n, z, g) == f[1] = z /\ \A i \in 1..n : f[i + 1] = g[<<i, f[i]>>]

\* One step more.
LEMMA RunsOn ==
    ASSUME NEW n \in Nat, NEW S, NEW z \in S, NEW N \in Nat, n < N, NEW g \in [(1..N) \X S -> S],
           NEW f \in [1..n + 1 -> S], Runs(f, n, z, g)
    PROVE  \E h \in [1..n + 2 -> S] : Runs(h, n + 1, z, g)
<1> DEFINE v == g[<<n + 1, f[n + 1]>>]
           h == [i \in 1..n + 2 |-> IF i = n + 2 THEN v ELSE f[i]]
<1>1. f[n + 1] \in S /\ n + 1 \in 1..N
  OBVIOUS
<1>2. v \in S
  BY <1>1
<1>a. f[1] = z /\ \A i \in 1..n : f[i + 1] = g[<<i, f[i]>>]
  BY DEF Runs
<1>3. g[<<n + 1, f[n + 1]>>] = v
  OBVIOUS
<1> HIDE DEF v
<1>4. \A i \in 1..n + 1 : h[i] = f[i] /\ i \in 1..n + 2 /\ i # n + 2
  OBVIOUS
<1>5. h[n + 2] = v /\ h \in [1..n + 2 -> S]
  <2>1. n + 2 \in 1..n + 2
    OBVIOUS
  <2>2. \A i \in 1..n + 2 : i # n + 2 => i \in 1..n + 1
    OBVIOUS
  <2> QED BY <1>2, <2>1, <2>2
<1> HIDE DEF h
<1>6. h[1] = z
  BY <1>4, <1>a
<1>7. \A i \in 1..n : h[i + 1] = g[<<i, h[i]>>]
  <2> TAKE i \in 1..n
  <2>1. i \in 1..n + 1 /\ i + 1 \in 1..n + 1
    OBVIOUS
  <2> QED BY <1>4, <1>a, <2>1
<1>8. h[(n + 1) + 1] = g[<<n + 1, h[n + 1]>>]
  <2>1. (n + 1) + 1 = n + 2 /\ n + 1 \in 1..n + 1
    OBVIOUS
  <2> QED BY <1>3, <1>4, <1>5, <2>1
<1>9. \A i \in 1..n + 1 : i \in 1..n \/ i = n + 1
  OBVIOUS
<1>10. Runs(h, n + 1, z, g)
  BY <1>6, <1>7, <1>8, <1>9 DEF Runs
<1> QED BY <1>5, <1>10

\* What a recursive function over lines means: there is one that does all the steps.
LEMMA RunsExist ==
    ASSUME NEW N \in Nat, NEW S, NEW z \in S, NEW g \in [(1..N) \X S -> S]
    PROVE  \E f \in [1..N + 1 -> S] : Runs(f, N, z, g)
<1> DEFINE T == {n \in 0..N : ~ \E f \in [1..n + 1 -> S] : Runs(f, n, z, g)}
<1> SUFFICES ASSUME T # {} PROVE FALSE
  <2>1. N \in 0..N
    OBVIOUS
  <2> QED BY <2>1
<1>1. T \subseteq Nat /\ \A n \in T : n \in 0..N /\ ~ \E f \in [1..n + 1 -> S] : Runs(f, n, z, g)
  OBVIOUS
<1>2. \A n \in 0..N : n \notin T => \E f \in [1..n + 1 -> S] : Runs(f, n, z, g)
  OBVIOUS
<1> HIDE DEF T
<1>3. PICK n \in T : \A m \in T : n <= m
  BY <1>1, LeastNumber
<1>4. n \in 0..N
  BY <1>1
<1>5. CASE n = 0
  <2> DEFINE f == [i \in 1..0 + 1 |-> z]
  <2>1. f \in [1..0 + 1 -> S] /\ f[1] = z /\ \A i \in 1..0 : FALSE
    OBVIOUS
  <2> HIDE DEF f
  <2>2. Runs(f, 0, z, g)
    BY <2>1 DEF Runs
  <2> QED BY <1>1, <1>5, <2>1, <2>2
<1>6. CASE n # 0
  <2>1. n - 1 \in 0..N /\ n - 1 < N /\ n - 1 \in Nat /\ ~ n <= n - 1
    BY <1>4, <1>6
  <2>2. n - 1 \notin T
    BY <1>3, <2>1
  <2>3. PICK f \in [1..(n - 1) + 1 -> S] : Runs(f, n - 1, z, g)
    BY <1>2, <2>1, <2>2
  <2>4. \E h \in [1..(n - 1) + 2 -> S] : Runs(h, (n - 1) + 1, z, g)
    BY <2>1, <2>3, RunsOn
  <2>5. (n - 1) + 2 = n + 1 /\ (n - 1) + 1 = n
    BY <1>4
  <2> QED BY <1>1, <2>4, <2>5
<1> QED BY <1>5, <1>6

----------------------------------------------------------------------------
(* Where lines start.                                                      *)

Counts(f, doc) ==
    f = [i \in 1..Len(doc) + 1 |-> IF i = 1 THEN 0 ELSE f[i - 1] + doc[i - 1].len + 1]

LEMMA StartsAre ==
    ASSUME NEW doc, Markdown(doc)
    PROVE  /\ Start(doc, 1) = 0
           /\ \A i \in 1..Len(doc) + 1 : Start(doc, i) \in Nat
           /\ \A i \in 1..Len(doc) : Start(doc, i + 1) = Start(doc, i) + doc[i].len + 1
<1> DEFINE n == Len(doc)
           F == Starts(doc)
<1>1. n \in Nat /\ \A i \in 1..n : doc[i].len \in Nat
  BY MarkdownIs
<1>2. \E f : Counts(f, doc)
  <2> DEFINE g == [p \in (1..n) \X Nat |-> p[2] + doc[p[1]].len + 1]
  <2> HIDE DEF n
  <2>1. \A i \in 1..n : \A k \in Nat : g[<<i, k>>] = k + doc[i].len + 1 /\ g[<<i, k>>] \in Nat
    BY <1>1
  <2>2. g = [p \in (1..n) \X Nat |-> g[p]]
    OBVIOUS
  <2> HIDE DEF g
  <2>3. g \in [(1..n) \X Nat -> Nat]
    <3>1. \A p \in (1..n) \X Nat : p = <<p[1], p[2]>> /\ p[1] \in 1..n /\ p[2] \in Nat
      OBVIOUS
    <3>2. \A p \in (1..n) \X Nat : g[p] \in Nat
      BY <2>1, <3>1
    <3> QED BY <2>2, <3>2
  <2>4. PICK f \in [1..n + 1 -> Nat] : Runs(f, n, 0, g)
    <3>1. 0 \in Nat
      OBVIOUS
    <3> QED BY <1>1, <2>3, <3>1, RunsExist
  <2>5. f[1] = 0 /\ \A i \in 1..n : f[i + 1] = f[i] + doc[i].len + 1
    <3>1. \A i \in 1..n : i \in 1..n + 1
      BY <1>1
    <3>2. \A i \in 1..n : f[i] \in Nat
      BY <2>4, <3>1
    <3> QED BY <2>1, <2>4, <3>2 DEF Runs
  <2>6. \A i \in 1..n + 1 : f[i] = IF i = 1 THEN 0 ELSE f[i - 1] + doc[i - 1].len + 1
    <3> TAKE i \in 1..n + 1
    <3>1. CASE i = 1
      BY <2>5, <3>1
    <3>2. CASE i # 1
      <4>1. i - 1 \in 1..n /\ (i - 1) + 1 = i
        BY <1>1, <3>2
      <4>2. f[(i - 1) + 1] = f[i - 1] + doc[i - 1].len + 1
        BY <2>5, <4>1
      <4> QED BY <3>2, <4>1, <4>2
    <3> QED BY <3>1, <3>2
  <2>7. f = [i \in 1..n + 1 |-> f[i]]
    BY <2>4
  <2>8. f = [i \in 1..n + 1 |-> IF i = 1 THEN 0 ELSE f[i - 1] + doc[i - 1].len + 1]
    BY <2>6, <2>7
  <2> QED BY <2>8 DEF Counts, n
<1>3. F = CHOOSE f : Counts(f, doc)
  BY DEF Starts, Counts
<1>4. Counts(F, doc)
  BY <1>2, <1>3
<1> HIDE DEF F
<1>5. F[1] = 0 /\ \A i \in 1..n : F[i + 1] = F[i] + doc[i].len + 1
  <2>1. F = [i \in 1..n + 1 |-> IF i = 1 THEN 0 ELSE F[i - 1] + doc[i - 1].len + 1]
    BY <1>4 DEF Counts
  <2> HIDE DEF n
  <2>2. \A i \in 1..n + 1 : F[i] = IF i = 1 THEN 0 ELSE F[i - 1] + doc[i - 1].len + 1
    BY <2>1
  <2>3. F[1] = 0
    BY <1>1, <2>2
  <2>4. \A i \in 1..n : F[i + 1] = F[i] + doc[i].len + 1
    <3> TAKE i \in 1..n
    <3>1. i + 1 \in 1..n + 1 /\ i + 1 # 1 /\ (i + 1) - 1 = i
      BY <1>1
    <3>2. F[i + 1] = F[(i + 1) - 1] + doc[(i + 1) - 1].len + 1
      BY <2>2, <3>1
    <3> QED BY <3>1, <3>2
  <2> QED BY <2>3, <2>4
<1>6. \A i \in 1..n + 1 : F[i] \in Nat
  <2> DEFINE T == {i \in 1..n + 1 : F[i] \notin Nat}
  <2> HIDE DEF n
  <2> SUFFICES ASSUME T # {} PROVE FALSE
    OBVIOUS
  <2>1. PICK i \in T : \A j \in T : i <= j
    <3>1. T \subseteq Nat
      BY <1>1
    <3> HIDE DEF T
    <3> QED BY <3>1, LeastNumber
  <2>2. i \in 1..n + 1 /\ F[i] \notin Nat
    OBVIOUS
  <2>3. i # 1
    BY <1>5, <2>2
  <2>4. i - 1 \in 1..n /\ i - 1 \in 1..n + 1 /\ ~ i <= i - 1 /\ (i - 1) + 1 = i
    BY <1>1, <2>2, <2>3
  <2>5. i - 1 \notin T
    <3> HIDE DEF T
    <3> QED BY <2>1, <2>4
  <2>6. F[i - 1] \in Nat
    BY <2>4, <2>5
  <2>7. F[(i - 1) + 1] = F[i - 1] + doc[i - 1].len + 1 /\ doc[i - 1].len \in Nat
    BY <1>1, <1>5, <2>4
  <2>8. F[i] \in Nat
    BY <2>4, <2>6, <2>7
  <2> QED BY <2>2, <2>8
<1> QED BY <1>5, <1>6 DEF Start, F, n

\* A later line starts after an earlier one ends.
LEMMA StartsGrow ==
    ASSUME NEW doc, Markdown(doc), NEW i \in 1..Len(doc) + 1, NEW j \in 1..Len(doc) + 1, i < j
    PROVE  Start(doc, i) + doc[i].len + 1 <= Start(doc, j)
<1> DEFINE n == Len(doc)
           T == {k \in i + 1..n + 1 : ~ Start(doc, i) + doc[i].len + 1 <= Start(doc, k)}
<1>1. n \in Nat /\ \A k \in 1..n : doc[k].len \in Nat
  BY MarkdownIs
<1>2. /\ \A k \in 1..n + 1 : Start(doc, k) \in Nat
      /\ \A k \in 1..n : Start(doc, k + 1) = Start(doc, k) + doc[k].len + 1
  BY StartsAre
<1> HIDE DEF n
<1> SUFFICES ASSUME T # {} PROVE FALSE
  BY <1>1 DEF n
<1>3. T \subseteq Nat
  BY <1>1 DEF n
<1>4. \A k : k \in T <=> k \in i + 1..n + 1 /\ ~ Start(doc, i) + doc[i].len + 1 <= Start(doc, k)
  BY DEF n
<1> HIDE DEF T
<1>5. PICK k \in T : \A m \in T : k <= m
  BY <1>3, LeastNumber
<1>6. i \in 1..n /\ k \in i + 1..n + 1 /\ i \in Nat
  BY <1>1, <1>4 DEF n
<1>7. CASE k = i + 1
  <2>1. Start(doc, i + 1) = Start(doc, i) + doc[i].len + 1 /\ Start(doc, i + 1) \in Nat
    BY <1>2, <1>1, <1>6
  <2> QED BY <1>4, <1>7, <2>1
<1>8. CASE k # i + 1
  <2>1. k - 1 \in i + 1..n + 1 /\ ~ k <= k - 1 /\ k - 1 \in 1..n /\ (k - 1) + 1 = k
    BY <1>1, <1>6, <1>8
  <2>2. Start(doc, i) + doc[i].len + 1 <= Start(doc, k - 1)
    BY <1>4, <1>5, <2>1
  <2>3. Start(doc, (k - 1) + 1) = Start(doc, k - 1) + doc[k - 1].len + 1
    BY <1>2, <2>1
  <2>4. Start(doc, k) = Start(doc, k - 1) + doc[k - 1].len + 1
    BY <2>1, <2>3
  <2>5. doc[k - 1].len \in Nat /\ doc[i].len \in Nat /\ Start(doc, k - 1) \in Nat /\ Start(doc, i) \in Nat
    <3>1. k - 1 \in 1..n + 1 /\ i \in 1..n + 1
      BY <1>1, <1>6, <2>1
    <3> QED BY <1>1, <1>2, <1>6, <2>1, <3>1
  <2>6. Start(doc, i) + doc[i].len + 1 <= Start(doc, k)
    BY <2>2, <2>4, <2>5
  <2> QED BY <1>4, <2>6
<1> QED BY <1>7, <1>8

\* Documents that begin alike: their lines start alike.
LEMMA SameStarts ==
    ASSUME NEW doc, Markdown(doc), NEW u, Markdown(u), NEW n \in Nat, n <= Len(doc), n <= Len(u),
           \A i \in 1..n : u[i].len = doc[i].len
    PROVE  \A i \in 1..n + 1 : Start(u, i) = Start(doc, i)
<1> DEFINE T == {k \in 1..n + 1 : Start(u, k) # Start(doc, k)}
<1>1. Len(doc) \in Nat /\ Len(u) \in Nat
  BY MarkdownIs
<1>2. /\ Start(doc, 1) = 0
      /\ \A k \in 1..Len(doc) : Start(doc, k + 1) = Start(doc, k) + doc[k].len + 1
  BY StartsAre
<1>3. /\ Start(u, 1) = 0
      /\ \A k \in 1..Len(u) : Start(u, k + 1) = Start(u, k) + u[k].len + 1
  BY StartsAre
<1> SUFFICES ASSUME T # {} PROVE FALSE
  OBVIOUS
<1>4. T \subseteq Nat /\ \A k : k \in T <=> k \in 1..n + 1 /\ Start(u, k) # Start(doc, k)
  OBVIOUS
<1> HIDE DEF T
<1>5. PICK k \in T : \A m \in T : k <= m
  BY <1>4, LeastNumber
<1>6. k # 1 /\ k \in 1..n + 1
  BY <1>2, <1>3, <1>4
<1>7. k - 1 \in 1..n /\ k - 1 \in 1..n + 1 /\ ~ k <= k - 1 /\ (k - 1) + 1 = k
  BY <1>6
<1>8. Start(u, k - 1) = Start(doc, k - 1)
  BY <1>4, <1>5, <1>7
<1>9. k - 1 \in 1..Len(doc) /\ k - 1 \in 1..Len(u)
  BY <1>1, <1>7
<1>10. Start(u, (k - 1) + 1) = Start(u, k - 1) + u[k - 1].len + 1 /\ Start(doc, (k - 1) + 1) = Start(doc, k - 1) + doc[k - 1].len + 1
  BY <1>2, <1>3, <1>9
<1>11. Start(u, k) = Start(doc, k)
  BY <1>7, <1>8, <1>10
<1> QED BY <1>4, <1>11

----------------------------------------------------------------------------
(* Cuts.                                                                   *)

\* A cut line is a line, of the length it is cut to.
LEMMA CutIs ==
    ASSUME NEW l, Shaped(l), NEW n \in 0..l.len
    PROVE  /\ Shaped(Cut(l, n)) /\ Cut(l, n).len = n
           /\ Disputed(Cut(l, n)) => Disputed(l)
<1> DEFINE c == Cut(l, n)
           white == IF l.kind = "item" THEN 0 ELSE l.indent
           behind == n - l.indent
           run == Min({behind, l.size})
           kind == IF l.kind \in {"fence", "item"} THEN "text"
                   ELSE IF l.kind = "hashtag" /\ n = white + 1 THEN "heading" ELSE l.kind
<1>1. l.len \in Nat /\ n \in Nat /\ n <= l.len /\ l.indent \in Nat /\ white \in Nat
  BY DEF Shaped
<1>2. c = IF n >= l.len THEN l
          ELSE IF n <= white THEN Plain("blank", n)
          ELSE IF l.kind \in {"fence", "item"} /\ behind >= 3
          THEN Delimiter(l.kind, l.indent, l.char, run, behind - run, FALSE)
          ELSE Delimiter(kind, white, "none", 0, n - white, FALSE)
  BY DEF Cut
<1>3. kind \notin {"fence", "item"}
  OBVIOUS
<1> HIDE DEF c, white, kind
<1> SUFFICES Shaped(c) /\ c.len = n /\ (Disputed(c) => Disputed(l))
  BY DEF c
<1>4. CASE n >= l.len
  <2>1. c = l
    BY <1>2, <1>4
  <2>2. n = l.len
    BY <1>1, <1>4
  <2> QED BY <2>1, <2>2
<1>5. CASE ~ n >= l.len /\ n <= white
  <2>1. c = Plain("blank", n)
    BY <1>2, <1>5
  <2> QED BY <1>1, <2>1 DEF Plain, Shaped, Disputed
<1>6. CASE ~ n >= l.len /\ ~ n <= white /\ l.kind \in {"fence", "item"} /\ behind >= 3
  <2>1. l.size \in Nat /\ l.size >= 3
    BY <1>6 DEF Shaped
  <2>2. behind \in Nat
    BY <1>1, <1>6
  <2>3. run = IF behind <= l.size THEN behind ELSE l.size
    <3> HIDE DEF behind
    <3> QED BY <2>1, <2>2, MinOfTwo
  <2>4. run \in Nat /\ run <= behind /\ run >= 3
    BY <1>6, <2>1, <2>2, <2>3
  <2> HIDE DEF run
  <2>5. l.indent + run + (behind - run) = n /\ l.indent + run <= n
    BY <1>1, <2>4
  <2> HIDE DEF behind
  <2>6. c.kind = l.kind /\ c.size = run /\ c.indent = l.indent
        /\ c.len = l.indent + run + (behind - run) /\ c.ticks = FALSE
    BY <1>2, <1>6 DEF Delimiter
  <2> QED BY <1>1, <1>6, <2>4, <2>5, <2>6 DEF Shaped, Disputed
<1>7. CASE ~ n >= l.len /\ ~ n <= white /\ ~ (l.kind \in {"fence", "item"} /\ behind >= 3)
  <2>1. c = Delimiter(kind, white, "none", 0, n - white, FALSE)
    BY <1>2, <1>7
  <2>2. c.kind = kind /\ c.indent = white /\ c.len = white + 0 + (n - white) /\ c.ticks = FALSE
    BY <2>1 DEF Delimiter
  <2>3. c.len = n
    BY <1>1, <2>2
  <2> QED BY <1>1, <1>3, <2>2, <2>3 DEF Shaped, Disputed
<1> QED BY <1>4, <1>5, <1>6, <1>7

\* Cutting a line twice.
LEMMA CutTwice ==
    ASSUME NEW l, Shaped(l), NEW n \in 0..l.len, NEW m \in 0..n
    PROVE  Cut(Cut(l, n), m) = Cut(l, m)
<1> DEFINE c == Cut(l, n)
           White(x) == IF x.kind = "item" THEN 0 ELSE x.indent
           Run(x, k) == Min({k - x.indent, x.size})
           Kind(x, k) == IF x.kind \in {"fence", "item"} THEN "text"
                         ELSE IF x.kind = "hashtag" /\ k = White(x) + 1 THEN "heading" ELSE x.kind
           Fenced(x, k) == Delimiter(x.kind, x.indent, x.char, Run(x, k), (k - x.indent) - Run(x, k), FALSE)
           Text(x, k) == Delimiter(Kind(x, k), White(x), "none", 0, k - White(x), FALSE)
<1>1. l.len \in Nat /\ n \in Nat /\ m \in Nat /\ c.len = n /\ l.indent \in Nat /\ White(l) \in Nat
  BY CutIs DEF Shaped
<1>2. \A x, k : Cut(x, k) = IF k >= x.len THEN x
                           ELSE IF k <= White(x) THEN Plain("blank", k)
                           ELSE IF x.kind \in {"fence", "item"} /\ k - x.indent >= 3 THEN Fenced(x, k)
                           ELSE Text(x, k)
  BY DEF Cut
<1> HIDE DEF Fenced, Text
<1>3. CASE n >= l.len
  BY <1>2, <1>3
<1>4. CASE m = n
  <2>1. m >= c.len
    BY <1>1, <1>4
  <2> HIDE DEF c
  <2>2. Cut(c, m) = c
    BY <1>2, <2>1
  <2> QED BY <1>4, <2>2 DEF c
<1>5. CASE ~ n >= l.len /\ m # n
  <2>1. ~ m >= c.len /\ ~ m >= l.len /\ m < n
    BY <1>1, <1>5
  <2>2. c = IF n <= White(l) THEN Plain("blank", n)
            ELSE IF l.kind \in {"fence", "item"} /\ n - l.indent >= 3 THEN Fenced(l, n)
            ELSE Text(l, n)
    BY <1>2, <1>5
  <2>3. Cut(l, m) = IF m <= White(l) THEN Plain("blank", m)
                    ELSE IF l.kind \in {"fence", "item"} /\ m - l.indent >= 3 THEN Fenced(l, m)
                    ELSE Text(l, m)
    BY <1>2, <2>1
  <2> HIDE DEF c, White, Run, Kind
  <2>4. Cut(c, m) = IF m <= White(c) THEN Plain("blank", m)
                    ELSE IF c.kind \in {"fence", "item"} /\ m - c.indent >= 3 THEN Fenced(c, m)
                    ELSE Text(c, m)
    BY <1>2, <2>1
  <2> SUFFICES Cut(c, m) = Cut(l, m)
    BY DEF c
  <2>5. CASE n <= White(l)
    <3>1. m <= White(l) /\ c = Plain("blank", n)
      BY <1>1, <2>1, <2>2, <2>5
    <3>2. White(c) = 0 /\ c.kind = "blank" /\ Kind(c, m) = "blank"
      BY <3>1 DEF Plain, White, Kind
    <3>3. Text(c, m) = Plain("blank", m)
      <4>1. Text(c, m) = Delimiter("blank", 0, "none", 0, m - 0, FALSE)
        BY <3>2 DEF Text
      <4>2. 0 + 0 + (m - 0) = m
        BY <1>1
      <4> QED BY <4>1, <4>2 DEF Delimiter, Plain
    <3> QED BY <2>3, <2>4, <3>1, <3>2, <3>3
  <2>6. CASE ~ n <= White(l) /\ l.kind \in {"fence", "item"} /\ n - l.indent >= 3
    <3>1. c.kind = l.kind /\ c.char = l.char /\ c.size = Run(l, n) /\ c.indent = l.indent
      BY <2>2, <2>6 DEF Delimiter, Fenced
    <3>2. White(c) = White(l) /\ Kind(c, m) = Kind(l, m)
      BY <2>6, <3>1 DEF White, Kind
    <3>3. Text(c, m) = Text(l, m)
      BY <3>2 DEF Text
    <3>4. m - l.indent >= 3 => Run(c, m) = Run(l, m)
      <4> SUFFICES ASSUME m - l.indent >= 3 PROVE Run(c, m) = Run(l, m)
        OBVIOUS
      <4> DEFINE a == m - l.indent
                 b == n - l.indent
                 d == Min({b, l.size})
      <4>1. a \in Nat /\ b \in Nat /\ a < b /\ l.size \in Nat
        BY <1>1, <2>1, <2>6 DEF Shaped
      <4>2. Run(c, m) = Min({a, d}) /\ Run(l, m) = Min({a, l.size})
        BY <3>1 DEF Run
      <4> HIDE DEF a, b
      <4>3. Min({a, l.size}) = (IF a <= l.size THEN a ELSE l.size) /\ d = IF b <= l.size THEN b ELSE l.size
        BY <4>1, MinOfTwo
      <4>4. d \in Nat
        BY <4>1, <4>3
      <4> HIDE DEF d
      <4>5. Min({a, d}) = IF a <= d THEN a ELSE d
        BY <4>1, <4>4, MinOfTwo
      <4>6. Min({a, d}) = Min({a, l.size})
        BY <4>1, <4>3, <4>5
      <4> QED BY <4>2, <4>6
    <3>5. m - l.indent >= 3 => Fenced(c, m) = Fenced(l, m)
      BY <3>1, <3>4 DEF Fenced
    <3> QED BY <2>3, <2>4, <2>6, <3>1, <3>2, <3>3, <3>5
  <2>7. CASE ~ n <= White(l) /\ ~ (l.kind \in {"fence", "item"} /\ n - l.indent >= 3)
    <3>1. c.kind = Kind(l, n) /\ c.indent = White(l)
      BY <2>2, <2>7 DEF Delimiter, Text
    <3>2. Kind(l, n) \notin {"fence", "item"}
      BY DEF Kind
    <3>3. White(c) = White(l)
      BY <3>1, <3>2 DEF White
    <3>4. ~ (l.kind \in {"fence", "item"} /\ m - l.indent >= 3)
      BY <1>1, <2>1, <2>7
    <3>5. ~ m <= White(l) => Kind(c, m) = Kind(l, m)
      <4> SUFFICES ASSUME ~ m <= White(l) PROVE Kind(c, m) = Kind(l, m)
        OBVIOUS
      <4>1. n # White(l) + 1
        BY <1>1, <2>1
      <4> QED BY <3>1, <3>3, <4>1 DEF Kind
    <3>6. ~ m <= White(l) => Text(c, m) = Text(l, m)
      BY <3>3, <3>5 DEF Text
    <3> QED BY <2>3, <2>4, <3>1, <3>2, <3>3, <3>4, <3>6
  <2> QED BY <2>5, <2>6, <2>7
<1> QED BY <1>3, <1>4, <1>5

\* A line cut at its start is empty and begins no fence.
LEMMA CutAtStart ==
    ASSUME NEW l, Shaped(l)
    PROVE  Cut(l, 0).kind # "fence"
<1>1. CASE 0 >= l.len
  <2>1. Cut(l, 0) = l
    BY <1>1 DEF Cut
  <2>2. l.kind # "fence"
    <3> SUFFICES ASSUME l.kind = "fence" PROVE FALSE
      OBVIOUS
    <3>1. l.indent + l.size <= l.len /\ l.size >= 3 /\ l.size \in Nat /\ l.indent \in Nat /\ l.len \in Nat
      BY DEF Shaped
    <3> QED BY <1>1, <3>1
  <2> QED BY <2>1, <2>2
<1>2. CASE ~ 0 >= l.len
  <2>1. 0 <= IF l.kind = "item" THEN 0 ELSE l.indent
    BY DEF Shaped
  <2>2. Cut(l, 0) = Plain("blank", 0)
    BY <1>2, <2>1 DEF Cut
  <2> QED BY <2>2 DEF Plain
<1> QED BY <1>1, <1>2

\* A document's length.
LEMMA LengthIs ==
    ASSUME NEW doc, Markdown(doc)
    PROVE  /\ Length(doc) \in Nat
           /\ Len(doc) = 0 => Length(doc) = 0
           /\ Len(doc) # 0 => Length(doc) = Start(doc, Len(doc)) + doc[Len(doc)].len
<1>1. Len(doc) \in Nat /\ \A i \in 1..Len(doc) : doc[i].len \in Nat
  BY MarkdownIs
<1>2. doc = <<>> <=> Len(doc) = 0
  BY EmptySeq DEF Markdown
<1>3. CASE Len(doc) = 0
  BY <1>2, <1>3 DEF Length
<1>4. CASE Len(doc) # 0
  <2>1. Len(doc) \in 1..Len(doc) /\ Len(doc) \in 1..Len(doc) + 1
    BY <1>1, <1>4
  <2>2. Start(doc, Len(doc)) \in Nat /\ Start(doc, Len(doc) + 1) = Start(doc, Len(doc)) + doc[Len(doc)].len + 1
    BY <2>1, StartsAre
  <2>3. Length(doc) = Start(doc, Len(doc) + 1) - 1
    BY <1>2, <1>4 DEF Length
  <2>4. doc[Len(doc)].len \in Nat
    BY <1>1, <2>1
  <2> QED BY <1>4, <2>2, <2>3, <2>4
<1> QED BY <1>3, <1>4

\* Line i of doc is the one that a cut after n code points falls in.
Falls(doc, n, i) ==
    /\ i \in 1..Len(doc) /\ Start(doc, i) <= n /\ n - Start(doc, i) \in 0..doc[i].len
    /\ \A j \in 1..Len(doc) : Start(doc, j) <= n => j <= i

LEMMA FallsIn ==
    ASSUME NEW doc, Markdown(doc), NEW n \in Nat, n < Length(doc)
    PROVE  Falls(doc, n, Max({j \in DOMAIN doc : Start(doc, j) <= n}))
<1> DEFINE m == Len(doc)
           S == {j \in DOMAIN doc : Start(doc, j) <= n}
           i == Max(S)
<1>1. m \in Nat /\ DOMAIN doc = 1..m /\ \A k \in 1..m : doc[k].len \in Nat
  BY MarkdownIs
<1>2. Start(doc, 1) = 0 /\ (\A k \in 1..m + 1 : Start(doc, k) \in Nat)
      /\ \A k \in 1..m : Start(doc, k + 1) = Start(doc, k) + doc[k].len + 1
  BY StartsAre
<1>3. m # 0 /\ Length(doc) = Start(doc, m) + doc[m].len
  BY LengthIs
<1> HIDE DEF m
<1>4. 1 \in S /\ S \subseteq Nat /\ (\A k \in S : k <= m) /\ \A k : k \in S <=> k \in 1..m /\ Start(doc, k) <= n
  BY <1>1, <1>2, <1>3
<1> HIDE DEF S
<1>5. i \in S /\ \A k \in S : k <= i
  BY <1>1, <1>4, MaxIs
<1> HIDE DEF i
<1>6. i \in 1..m /\ Start(doc, i) <= n /\ i \in 1..m + 1
  BY <1>1, <1>4, <1>5
<1>7. n - Start(doc, i) <= doc[i].len
  <2>1. CASE i = m
    <3>1. Start(doc, i) \in Nat /\ doc[i].len \in Nat
      BY <1>1, <1>2, <1>6
    <3> QED BY <1>3, <2>1, <3>1
  <2>2. CASE i # m
    <3>1. i + 1 \in 1..m /\ ~ i + 1 <= i /\ i + 1 \in 1..m + 1
      BY <1>1, <1>6, <2>2
    <3>2. ~ Start(doc, i + 1) <= n
      BY <1>4, <1>5, <3>1
    <3>3. Start(doc, i + 1) = Start(doc, i) + doc[i].len + 1 /\ Start(doc, i) \in Nat /\ doc[i].len \in Nat
      BY <1>1, <1>2, <1>6
    <3> QED BY <3>2, <3>3
  <2> QED BY <2>1, <2>2
<1>8. n - Start(doc, i) \in 0..doc[i].len
  BY <1>1, <1>2, <1>6, <1>7
<1>9. \A j \in 1..m : Start(doc, j) <= n => j <= i
  BY <1>4, <1>5
<1> QED BY <1>6, <1>8, <1>9 DEF Falls, m, i, S

\* The cut falls in one line.
LEMMA FallsOnce ==
    ASSUME NEW doc, Markdown(doc), NEW n \in Nat, n < Length(doc), NEW i, Falls(doc, n, i)
    PROVE  i = Max({j \in DOMAIN doc : Start(doc, j) <= n})
<1>1. Falls(doc, n, Max({j \in DOMAIN doc : Start(doc, j) <= n}))
  BY FallsIn
<1> DEFINE k == Max({j \in DOMAIN doc : Start(doc, j) <= n})
<1>2. Falls(doc, n, k)
  BY <1>1
<1> HIDE DEF k
<1>3. i \in 1..Len(doc) /\ k \in 1..Len(doc) /\ i <= k /\ k <= i
  BY <1>2 DEF Falls
<1>4. i = k
  BY <1>3
<1> QED BY <1>4 DEF k

\* A prefix: the lines before the one the cut falls in, and what is left of that.
LEMMA PrefixOf ==
    ASSUME NEW doc, Markdown(doc), NEW n \in Nat, n < Length(doc), NEW i, Falls(doc, n, i)
    PROVE  LET u == UnicodePrefix(doc, n)
           IN /\ u = Append(SubSeq(doc, 1, i - 1), Cut(doc[i], n - Start(doc, i)))
              /\ Markdown(u) /\ Len(u) = i /\ Length(u) = n
              /\ u[i] = Cut(doc[i], n - Start(doc, i))
              /\ \A j \in 1..i - 1 : u[j] = doc[j]
              /\ \A j \in 1..i : Start(u, j) = Start(doc, j)
<1> DEFINE u == UnicodePrefix(doc, n)
           c == Cut(doc[i], n - Start(doc, i))
<1>1. Length(doc) \in Nat /\ Len(doc) \in Nat /\ DOMAIN doc = 1..Len(doc)
  BY LengthIs, MarkdownIs
<1>2. u = Append(SubSeq(doc, 1, i - 1), c)
  <2>1. i = Max({j \in DOMAIN doc : Start(doc, j) <= n})
    BY FallsOnce
  <2>2. ~ n >= Length(doc)
    BY <1>1
  <2> QED BY <2>1, <2>2 DEF UnicodePrefix
<1>3. i \in 1..Len(doc) /\ n - Start(doc, i) \in 0..doc[i].len /\ Shaped(doc[i])
  BY <1>1 DEF Falls, Markdown
<1>4. Shaped(c) /\ c.len = n - Start(doc, i)
  BY <1>3, CutIs
<1> HIDE DEF c
<1>5. Markdown(u) /\ Len(u) = i /\ u[i] = c /\ \A j \in 1..i - 1 : u[j] = doc[j]
  <2>1. i - 1 \in 0..Len(doc) /\ (i - 1) + 1 = i
    BY <1>1, <1>3
  <2> DEFINE k == i - 1
  <2> HIDE DEF k
  <2>2. k \in 0..Len(doc) /\ k + 1 = i
    BY <2>1 DEF k
  <2>3. LET v == Append(SubSeq(doc, 1, k), c)
        IN Markdown(v) /\ Len(v) = k + 1 /\ v[k + 1] = c /\ \A j \in 1..k : v[j] = doc[j]
    BY <1>4, <2>2, FirstLinesAnd
  <2>4. u = Append(SubSeq(doc, 1, k), c)
    BY <1>2 DEF k
  <2>5. Markdown(u) /\ Len(u) = k + 1 /\ u[k + 1] = c /\ \A j \in 1..k : u[j] = doc[j]
    BY <2>3, <2>4
  <2> QED BY <2>2, <2>5 DEF k
<1> HIDE DEF u
<1>6. \A j \in 1..i : Start(u, j) = Start(doc, j)
  <2> DEFINE k == i - 1
  <2>1. k \in Nat /\ k <= Len(doc) /\ k <= Len(u) /\ k + 1 = i
    BY <1>1, <1>3, <1>5
  <2>2. \A j \in 1..k : u[j].len = doc[j].len
    BY <1>5
  <2> HIDE DEF k
  <2>3. \A j \in 1..k + 1 : Start(u, j) = Start(doc, j)
    BY <1>5, <2>1, <2>2, SameStarts
  <2> QED BY <2>1, <2>3
<1>7. Length(u) = n
  <2>1. i \in 1..i /\ i # 0 /\ i \in 1..Len(doc) + 1
    BY <1>1, <1>3
  <2>2. Length(u) = Start(u, i) + u[i].len
    BY <1>5, <2>1, LengthIs
  <2>3. Start(u, i) = Start(doc, i) /\ Start(doc, i) \in Nat
    BY <1>6, <2>1, StartsAre
  <2> QED BY <1>4, <1>5, <2>2, <2>3
<1> QED BY <1>2, <1>5, <1>6, <1>7 DEF u, c

LEMMA PrefixIsMarkdown ==
    ASSUME NEW doc, Markdown(doc), NEW n \in Nat
    PROVE  Markdown(UnicodePrefix(doc, n)) /\ Length(UnicodePrefix(doc, n)) = IF n < Length(doc) THEN n ELSE Length(doc)
<1>1. Length(doc) \in Nat
  BY LengthIs
<1>2. CASE n >= Length(doc)
  BY <1>1, <1>2 DEF UnicodePrefix
<1>3. CASE n < Length(doc)
  <2>1. PICK i : Falls(doc, n, i)
    BY <1>3, FallsIn
  <2>2. Markdown(UnicodePrefix(doc, n)) /\ Length(UnicodePrefix(doc, n)) = n
    BY <1>3, <2>1, PrefixOf
  <2> QED BY <1>3, <2>2
<1> QED BY <1>1, <1>2, <1>3

\* A prefix of a prefix.
LEMMA PrefixTwice ==
    ASSUME NEW doc, Markdown(doc), NEW n \in Nat, NEW m \in Nat, m <= n
    PROVE  UnicodePrefix(UnicodePrefix(doc, n), m) = UnicodePrefix(doc, m)
<1> DEFINE u == UnicodePrefix(doc, n)
           v == UnicodePrefix(doc, m)
           w == UnicodePrefix(u, m)
<1>1. Length(doc) \in Nat
  BY LengthIs
<1>2. CASE n >= Length(doc)
  BY <1>2 DEF UnicodePrefix
<1>3. CASE n < Length(doc) /\ m = n
  <2>1. Length(u) = n
    BY <1>3, PrefixIsMarkdown
  <2> HIDE DEF u
  <2>2. w = u
    BY <1>3, <2>1 DEF UnicodePrefix
  <2> QED BY <1>3, <2>2 DEF u
<1>4. CASE n < Length(doc) /\ m < n
  <2>1. PICK k : Falls(doc, n, k)
    BY <1>4, FallsIn
  <2>2. PICK i : Falls(doc, m, i)
    <3>1. m < Length(doc)
      BY <1>1, <1>4
    <3> QED BY <3>1, FallsIn
  <2>3. /\ Markdown(u) /\ Len(u) = k /\ Length(u) = n
        /\ u[k] = Cut(doc[k], n - Start(doc, k))
        /\ \A j \in 1..k - 1 : u[j] = doc[j]
        /\ \A j \in 1..k : Start(u, j) = Start(doc, j)
    BY <1>4, <2>1, PrefixOf
  <2> HIDE DEF u
  <2>4. /\ Len(doc) \in Nat /\ k \in 1..Len(doc) /\ i \in 1..Len(doc)
        /\ Start(doc, k) \in Nat /\ Start(doc, i) \in Nat /\ doc[k].len \in Nat /\ Shaped(doc[k])
    <3>1. Len(doc) \in Nat /\ k \in 1..Len(doc) /\ i \in 1..Len(doc)
      BY <2>1, <2>2, MarkdownIs DEF Falls
    <3>2. k \in 1..Len(doc) + 1 /\ i \in 1..Len(doc) + 1
      BY <3>1
    <3>3. doc[k].len \in Nat /\ Shaped(doc[k])
      BY <3>1, MarkdownIs DEF Markdown
    <3> QED BY <3>1, <3>2, <3>3, StartsAre
  <2>5. i <= k /\ Start(doc, k) <= n /\ n - Start(doc, k) \in 0..doc[k].len
    <3>1. Start(doc, i) <= n
      BY <1>4, <2>2, <2>4 DEF Falls
    <3> QED BY <2>1, <2>4, <3>1 DEF Falls
  <2>6. Start(doc, i) <= m /\ m - Start(doc, i) \in 0..doc[i].len
    BY <2>2 DEF Falls
  <2>7. i \in 1..k /\ Start(u, i) = Start(doc, i)
    BY <2>3, <2>4, <2>5
  <2>8. m - Start(u, i) \in 0..u[i].len
    <3>1. CASE i = k
      <4>1. u[k].len = n - Start(doc, k)
        BY <2>3, <2>4, <2>5, CutIs
      <4> QED BY <1>4, <2>4, <2>6, <2>7, <3>1, <4>1
    <3>2. CASE i # k
      <4>1. i \in 1..k - 1
        BY <2>4, <2>7, <3>2
      <4> QED BY <2>3, <2>6, <2>7, <4>1
    <3> QED BY <3>1, <3>2
  <2>9. \A j \in 1..k : Start(u, j) <= m => j <= i
    <3> TAKE j \in 1..k
    <3>1. j \in 1..Len(doc) /\ Start(u, j) = Start(doc, j)
      BY <2>3, <2>4
    <3> QED BY <2>2, <3>1 DEF Falls
  <2>10. Falls(u, m, i)
    BY <2>3, <2>6, <2>7, <2>8, <2>9 DEF Falls
  <2>11. m < Length(u)
    BY <1>4, <2>3
  <2>12. Markdown(w) /\ Len(w) = i /\ w[i] = Cut(u[i], m - Start(u, i)) /\ \A j \in 1..i - 1 : w[j] = u[j]
    BY <2>3, <2>10, <2>11, PrefixOf
  <2>13. Markdown(v) /\ Len(v) = i /\ v[i] = Cut(doc[i], m - Start(doc, i)) /\ \A j \in 1..i - 1 : v[j] = doc[j]
    <3>1. m < Length(doc)
      BY <1>1, <1>4
    <3> QED BY <2>2, <3>1, PrefixOf
  <2>14. w[i] = v[i]
    <3>1. CASE i = k
      <4> DEFINE a == n - Start(doc, k)
                 b == m - Start(doc, k)
      <4>1. a \in 0..doc[k].len /\ b \in 0..a
        BY <1>4, <2>4, <2>5, <2>6, <3>1
      <4> HIDE DEF a, b
      <4>2. Cut(Cut(doc[k], a), b) = Cut(doc[k], b)
        BY <2>4, <4>1, CutTwice
      <4> QED BY <2>3, <2>7, <2>12, <2>13, <3>1, <4>2 DEF a, b
    <3>2. CASE i # k
      <4>1. i \in 1..k - 1
        BY <2>4, <2>7, <3>2
      <4> QED BY <2>3, <2>7, <2>12, <2>13, <4>1
    <3> QED BY <3>1, <3>2
  <2>15. \A j \in 1..i - 1 : w[j] = v[j]
    <3> TAKE j \in 1..i - 1
    <3>1. j \in 1..k - 1
      BY <2>4, <2>7
    <3> QED BY <2>3, <2>12, <2>13, <3>1
  <2> HIDE DEF v, w
  <2>16. \A j \in 1..i : w[j] = v[j]
    <3> TAKE j \in 1..i
    <3>1. j = i \/ j \in 1..i - 1
      BY <2>4
    <3> QED BY <2>14, <2>15, <3>1
  <2>17. w = v
    BY <2>12, <2>13, <2>16, SameLines
  <2> QED BY <2>17 DEF v, w, u
<1> QED BY <1>1, <1>2, <1>3, <1>4

----------------------------------------------------------------------------
(* A prefix is enough.                                                     *)

\* The README is made of lines.
Written == readme \in Seq(Line)

\* An author writes lines only: what the projection is given is Markdown.
THEOREM WrittenInvariant == ProjectionSpec => []Written
<1>1. ProjectionInit => Written
  <2>1. <<>> \in Seq(Line)
    OBVIOUS
  <2> QED BY <2>1 DEF ProjectionInit, Written
<1>2. Written /\ [Write]_readme => Written'
  <2> SUFFICES ASSUME Written, [Write]_readme PROVE Written'
    OBVIOUS
  <2>1. CASE Write
    BY <2>1, AppendProperties DEF Write, Written
  <2>2. CASE UNCHANGED readme
    BY <2>2 DEF Written
  <2> QED BY <2>1, <2>2
<1> QED BY <1>1, <1>2, PTL DEF ProjectionSpec

LEMMA WrittenIsMarkdown ==
    ASSUME Written
    PROVE  Markdown(readme)
<1>1. Len(readme) \in Nat /\ DOMAIN readme = 1..Len(readme) /\ \A i \in 1..Len(readme) : readme[i] \in Line
  BY LenProperties DEF Written
<1>2. readme = [i \in 1..Len(readme) |-> readme[i]]
  BY LenProperties DEF Written
<1>3. \A i \in 1..Len(readme) : Shaped(readme[i])
  BY <1>1, ProjectionAssumption DEF Shaped
<1> QED BY <1>1, <1>2, <1>3, LinesAreMarkdown

\* A prefix of one code point more than the budget is projected as the whole README would be.
THEOREM PrefixSuffices == ProjectionSpec => []PrefixIsEnough
<1>1. Written => PrefixIsEnough
  <2> SUFFICES ASSUME Written PROVE PrefixIsEnough
    OBVIOUS
  <2> DEFINE n == Maximum + 1
             m == Maximum - MarkerBudget
             u == UnicodePrefix(readme, n)
  <2>1. Markdown(readme) /\ Length(readme) \in Nat
    BY WrittenIsMarkdown, LengthIs
  <2>2. n \in Nat /\ m \in Nat /\ m <= n /\ Maximum \in Nat
    BY ProjectionAssumption DEF WrapperLength, Indent
  <2>3. CASE n >= Length(readme)
    BY <2>3 DEF PrefixIsEnough, LoadIndex, ReadUtf8Prefix, UnicodePrefix
  <2>4. CASE n < Length(readme)
    <3>1. ~ Length(readme) <= Maximum
      BY <2>1, <2>2, <2>4
    <3> HIDE DEF m, n
    <3>2. Length(u) = n
      BY <2>1, <2>2, <2>4, PrefixIsMarkdown
    <3>3. ~ Length(u) <= Maximum
      BY <2>2, <3>2 DEF n
    <3>4. UnicodePrefix(u, m) = UnicodePrefix(readme, m)
      BY <2>1, <2>2, PrefixTwice
    <3>5. Candidate(u) = Candidate(readme)
      BY <3>4 DEF Candidate, m
    <3>6. Body(u) = Body(readme)
      BY <3>5 DEF Body
    <3>7. ProjectIndex(u) = ProjectIndex(readme)
      BY <3>1, <3>3, <3>6 DEF ProjectIndex
    <3> QED BY <3>7 DEF PrefixIsEnough, LoadIndex, ReadUtf8Prefix, n
  <2> QED BY <2>1, <2>2, <2>3, <2>4
<1> QED BY <1>1, WrittenInvariant, PTL

----------------------------------------------------------------------------
(* Open fences.                                                            *)

\* The fence markdownBoundaries takes to be open behind a line.
AfterDelimiter(open, l) ==
    IF open = Blank THEN IF l.kind = "fence" THEN l ELSE Blank
    ELSE IF ClosesFence(l, open) THEN Blank ELSE open

\* f says which fence is open before each line.
Tracks(f, doc) ==
    f[1] = Blank /\ \A i \in 1..Len(doc) : f[i + 1] = AfterDelimiter(f[i], doc[i])

\* Documents that begin alike have the same fences open.
LEMMA TracksAlike ==
    ASSUME NEW doc, NEW u, NEW f, Tracks(f, doc), NEW g, Tracks(g, u),
           NEW n \in Nat, n <= Len(doc), n <= Len(u), Len(doc) \in Nat, Len(u) \in Nat,
           \A i \in 1..n : u[i] = doc[i]
    PROVE  \A i \in 1..n + 1 : g[i] = f[i]
<1> DEFINE T == {k \in 1..n + 1 : g[k] # f[k]}
<1> SUFFICES ASSUME T # {} PROVE FALSE
  OBVIOUS
<1>1. T \subseteq Nat /\ \A k : k \in T <=> k \in 1..n + 1 /\ g[k] # f[k]
  OBVIOUS
<1> HIDE DEF T
<1>2. PICK k \in T : \A m \in T : k <= m
  BY <1>1, LeastNumber
<1>3. k \in 1..n + 1 /\ k # 1
  BY <1>1 DEF Tracks
<1>4. k - 1 \in 1..n + 1 /\ ~ k <= k - 1 /\ k - 1 \in 1..n /\ (k - 1) + 1 = k /\ k - 1 \in 1..Len(doc) /\ k - 1 \in 1..Len(u)
  BY <1>3
<1>5. g[k - 1] = f[k - 1] /\ u[k - 1] = doc[k - 1]
  BY <1>1, <1>2, <1>4
<1>6. g[(k - 1) + 1] = AfterDelimiter(g[k - 1], u[k - 1]) /\ f[(k - 1) + 1] = AfterDelimiter(f[k - 1], doc[k - 1])
  BY <1>4 DEF Tracks
<1>7. g[k] = f[k]
  BY <1>4, <1>5, <1>6
<1> QED BY <1>1, <1>7

\* Lines that are no fences open and close none.
LEMMA TracksOver ==
    ASSUME NEW doc, NEW f, Tracks(f, doc), Len(doc) \in Nat, NEW a \in 1..Len(doc) + 1, NEW b \in a..Len(doc) + 1,
           \A i \in a..b - 1 : doc[i].kind # "fence"
    PROVE  f[b] = f[a]
<1> DEFINE T == {k \in a..b : f[k] # f[a]}
<1> SUFFICES ASSUME T # {} PROVE FALSE
  OBVIOUS
<1>1. T \subseteq Nat /\ \A k : k \in T <=> k \in a..b /\ f[k] # f[a]
  OBVIOUS
<1> HIDE DEF T
<1>2. PICK k \in T : \A m \in T : k <= m
  BY <1>1, LeastNumber
<1>3. k \in a..b /\ k # a
  BY <1>1
<1>4. k - 1 \in a..b /\ ~ k <= k - 1 /\ k - 1 \in a..b - 1 /\ (k - 1) + 1 = k /\ k - 1 \in 1..Len(doc)
  BY <1>3
<1>5. f[k - 1] = f[a] /\ doc[k - 1].kind # "fence"
  BY <1>1, <1>2, <1>4
<1>6. f[(k - 1) + 1] = AfterDelimiter(f[k - 1], doc[k - 1])
  BY <1>4 DEF Tracks
<1>7. f[k] = f[k - 1]
  BY <1>4, <1>5, <1>6 DEF AfterDelimiter, ClosesFence
<1> QED BY <1>1, <1>5, <1>7

LEMMA TracksExist ==
    ASSUME NEW doc, Markdown(doc)
    PROVE  \E f : f = [i \in 1..Len(doc) + 1 |-> f[i]] /\ Tracks(f, doc)
<1> DEFINE n == Len(doc)
           S == ToSet(doc) \cup {Blank}
           g == [p \in (1..n) \X S |-> AfterDelimiter(p[2], doc[p[1]])]
<1>1. n \in Nat /\ \A i \in 1..n : doc[i] \in S
  BY MarkdownIs DEF ToSet
<1>2. Blank \in S
  OBVIOUS
<1> HIDE DEF n, S
<1>3. \A i \in 1..n : \A x \in S : g[<<i, x>>] = AfterDelimiter(x, doc[i]) /\ g[<<i, x>>] \in S
  <2> TAKE i \in 1..n
  <2> TAKE x \in S
  <2>1. g[<<i, x>>] = AfterDelimiter(x, doc[i])
    OBVIOUS
  <2>2. AfterDelimiter(x, doc[i]) \in S
    BY <1>1, <1>2 DEF AfterDelimiter
  <2> QED BY <2>1, <2>2
<1>4. g = [p \in (1..n) \X S |-> g[p]]
  OBVIOUS
<1> HIDE DEF g
<1>5. g \in [(1..n) \X S -> S]
  <2>1. \A p \in (1..n) \X S : p = <<p[1], p[2]>> /\ p[1] \in 1..n /\ p[2] \in S
    OBVIOUS
  <2>2. \A p \in (1..n) \X S : g[p] \in S
    BY <1>3, <2>1
  <2> QED BY <1>4, <2>2
<1>6. PICK f \in [1..n + 1 -> S] : Runs(f, n, Blank, g)
  BY <1>1, <1>2, <1>5, RunsExist
<1>7. f[1] = Blank /\ \A i \in 1..n : f[i + 1] = AfterDelimiter(f[i], doc[i])
  <2>1. \A i \in 1..n : i \in 1..n + 1
    BY <1>1
  <2>2. \A i \in 1..n : f[i] \in S
    BY <1>6, <2>1
  <2> QED BY <1>3, <1>6, <2>2 DEF Runs
<1>8. f = [i \in 1..n + 1 |-> f[i]]
  BY <1>6
<1> QED BY <1>7, <1>8 DEF Tracks, n

Opened(f, doc) ==
    f = [i \in 1..Len(doc) + 1 |->
            IF i = 1 THEN Blank
            ELSE IF f[i - 1] # Blank
            THEN IF ClosesFence(doc[i - 1], f[i - 1]) THEN Blank ELSE f[i - 1]
            ELSE IF doc[i - 1].kind = "fence" THEN doc[i - 1] ELSE Blank]

LEMMA OpenFenceIs ==
    ASSUME NEW doc, Markdown(doc)
    PROVE  Tracks(OpenFence(doc), doc)
<1> DEFINE n == Len(doc)
           F == OpenFence(doc)
           step(x, l) == IF x # Blank THEN IF ClosesFence(l, x) THEN Blank ELSE x
                         ELSE IF l.kind = "fence" THEN l ELSE Blank
<1>1. n \in Nat
  BY MarkdownIs
<1>2. \A x, l : step(x, l) = AfterDelimiter(x, l)
  BY DEF AfterDelimiter
<1>3. \E f : Opened(f, doc)
  <2>1. PICK f : f = [i \in 1..n + 1 |-> f[i]] /\ Tracks(f, doc)
    BY TracksExist
  <2>2. \A i \in 1..n + 1 : f[i] = IF i = 1 THEN Blank ELSE step(f[i - 1], doc[i - 1])
    <3> TAKE i \in 1..n + 1
    <3>1. CASE i = 1
      BY <2>1, <3>1 DEF Tracks
    <3>2. CASE i # 1
      <4>1. i - 1 \in 1..n /\ (i - 1) + 1 = i
        BY <1>1, <3>2
      <4>2. f[(i - 1) + 1] = AfterDelimiter(f[i - 1], doc[i - 1])
        BY <2>1, <4>1 DEF Tracks
      <4> HIDE DEF step
      <4> QED BY <1>2, <3>2, <4>1, <4>2
    <3> QED BY <3>1, <3>2
  <2> HIDE DEF n
  <2>3. f = [i \in 1..n + 1 |-> IF i = 1 THEN Blank ELSE step(f[i - 1], doc[i - 1])]
    BY <2>1, <2>2
  <2> QED BY <2>3 DEF Opened, n
<1>4. F = CHOOSE f : Opened(f, doc)
  BY DEF OpenFence, Opened
<1>5. Opened(F, doc)
  BY <1>3, <1>4
<1> HIDE DEF F
<1>6. \A i \in 1..n + 1 : F[i] = IF i = 1 THEN Blank ELSE step(F[i - 1], doc[i - 1])
  <2>1. F = [i \in 1..n + 1 |-> IF i = 1 THEN Blank ELSE step(F[i - 1], doc[i - 1])]
    BY <1>5 DEF Opened
  <2> HIDE DEF n, step
  <2> QED BY <2>1
<1> HIDE DEF step
<1>7. F[1] = Blank
  BY <1>1, <1>6
<1>8. \A i \in 1..n : F[i + 1] = AfterDelimiter(F[i], doc[i])
  <2> TAKE i \in 1..n
  <2>1. i + 1 \in 1..n + 1 /\ i + 1 # 1 /\ (i + 1) - 1 = i
    BY <1>1
  <2>2. F[i + 1] = step(F[(i + 1) - 1], doc[(i + 1) - 1])
    BY <1>6, <2>1
  <2> QED BY <1>2, <2>1, <2>2
<1> QED BY <1>7, <1>8 DEF Tracks, F

\* A document that ends outside of every fence, as markdownBoundaries sees it.
Outside(doc) == Markdown(doc) /\ OpenFence(doc)[Len(doc) + 1] = Blank

\* What is trimmed is blank.
LEMMA TrimIs ==
    ASSUME NEW doc, Markdown(doc)
    PROVE  \E k \in 0..Len(doc) : Begins(TrimEnd(doc), doc, k) /\ \A i \in k + 1..Len(doc) : doc[i].kind = "blank"
<1> DEFINE n == Len(doc)
           S == {0} \cup {i \in DOMAIN doc : doc[i].kind # "blank"}
           k == Max(S)
<1>1. n \in Nat /\ DOMAIN doc = 1..n
  BY MarkdownIs
<1> HIDE DEF n
<1>2. 0 \in S /\ S \subseteq Nat /\ (\A i \in S : i <= n) /\ \A i \in 1..n : i \notin S => doc[i].kind = "blank"
  BY <1>1
<1>3. S \subseteq 0..n
  BY <1>1, <1>2
<1> HIDE DEF S
<1>4. k \in S /\ \A i \in S : i <= k
  BY <1>1, <1>2, MaxIs
<1>5. TrimEnd(doc) = SubSeq(doc, 1, k)
  BY DEF TrimEnd, S
<1> HIDE DEF k
<1>6. k \in 0..n
  BY <1>3, <1>4
<1>7. \A i \in k + 1..n : doc[i].kind = "blank"
  <2> TAKE i \in k + 1..n
  <2>1. i \in 1..n /\ ~ i <= k
    BY <1>1, <1>6
  <2> QED BY <1>2, <1>4, <2>1
<1>8. Begins(TrimEnd(doc), doc, k)
  BY <1>5, <1>6, FirstLines DEF n
<1> QED BY <1>6, <1>7, <1>8 DEF n

\* Trimming does not move the end into a fence.
LEMMA TrimOutside ==
    ASSUME NEW doc, Outside(doc)
    PROVE  Outside(TrimEnd(doc))
<1> DEFINE u == TrimEnd(doc)
           f == OpenFence(doc)
           g == OpenFence(u)
<1>1. Markdown(doc) /\ Tracks(f, doc) /\ f[Len(doc) + 1] = Blank /\ Len(doc) \in Nat
  BY OpenFenceIs, MarkdownIs DEF Outside
<1>2. PICK k \in 0..Len(doc) : Begins(u, doc, k) /\ \A i \in k + 1..Len(doc) : doc[i].kind = "blank"
  BY <1>1, TrimIs
<1> HIDE DEF u
<1>3. Markdown(u) /\ Len(u) = k /\ k \in Nat /\ k <= Len(doc) /\ \A i \in 1..k : u[i] = doc[i]
  BY <1>1, <1>2 DEF Begins
<1>4. Tracks(g, u)
  BY <1>3, OpenFenceIs
<1> HIDE DEF f, g
<1>5. \A i \in 1..k + 1 : g[i] = f[i]
  BY <1>1, <1>3, <1>4, TracksAlike
<1>6. f[Len(doc) + 1] = f[k + 1]
  <2> DEFINE a == k + 1
             b == Len(doc) + 1
  <2>1. a \in 1..Len(doc) + 1 /\ b \in a..Len(doc) + 1 /\ b - 1 = Len(doc)
    BY <1>1, <1>3
  <2>2. \A i \in a..b - 1 : doc[i].kind # "fence"
    BY <1>2, <2>1
  <2> HIDE DEF a, b
  <2>3. f[b] = f[a]
    BY <1>1, <2>1, <2>2, TracksOver
  <2> QED BY <2>3 DEF a, b
<1>7. k + 1 \in 1..k + 1
  BY <1>3
<1>8. g[k + 1] = Blank
  BY <1>1, <1>5, <1>6, <1>7
<1> QED BY <1>3, <1>8 DEF Outside, g, u

\* The lines of a document and one after it.
LEMMA OneMore ==
    ASSUME NEW doc, Markdown(doc), NEW x, Shaped(x)
    PROVE  LET u == Append(doc, x)
           IN Markdown(u) /\ Len(u) = Len(doc) + 1 /\ u[Len(doc) + 1] = x /\ \A i \in 1..Len(doc) : u[i] = doc[i]
<1>1. Len(doc) \in Nat
  BY MarkdownIs
<1>2. Begins(SubSeq(doc, 1, Len(doc)), doc, Len(doc))
  BY <1>1, FirstLines
<1>3. SubSeq(doc, 1, Len(doc)) = doc
  <2> DEFINE s == SubSeq(doc, 1, Len(doc))
  <2>1. Markdown(s) /\ Len(s) = Len(doc) /\ \A i \in 1..Len(doc) : s[i] = doc[i]
    BY <1>2 DEF Begins
  <2> HIDE DEF s
  <2>2. doc = s
    BY <2>1, SameLines
  <2> QED BY <2>2 DEF s
<1>4. Len(doc) \in 0..Len(doc)
  BY <1>1
<1>5. LET u == Append(SubSeq(doc, 1, Len(doc)), x)
      IN Markdown(u) /\ Len(u) = Len(doc) + 1 /\ u[Len(doc) + 1] = x /\ \A i \in 1..Len(doc) : u[i] = doc[i]
  BY <1>4, FirstLinesAnd
<1> QED BY <1>3, <1>5

\* A line more: the fence that is open after it.
LEMMA OneMoreTracks ==
    ASSUME NEW doc, Markdown(doc), NEW x, Shaped(x)
    PROVE  OpenFence(Append(doc, x))[Len(doc) + 2] = AfterDelimiter(OpenFence(doc)[Len(doc) + 1], x)
<1> DEFINE u == Append(doc, x)
           n == Len(doc)
           f == OpenFence(doc)
           g == OpenFence(u)
<1>1. Markdown(u) /\ Len(u) = n + 1 /\ u[n + 1] = x /\ (\A i \in 1..n : u[i] = doc[i]) /\ n \in Nat
  BY OneMore, MarkdownIs
<1> HIDE DEF u
<1>2. Tracks(f, doc) /\ Tracks(g, u)
  BY <1>1, OpenFenceIs
<1> HIDE DEF f, g
<1>3. Len(u) \in Nat /\ n <= Len(u) /\ n <= Len(doc) /\ Len(doc) \in Nat
  BY <1>1
<1>4. \A i \in 1..n + 1 : g[i] = f[i]
  <2> HIDE DEF n
  <2> QED BY <1>1, <1>2, <1>3, TracksAlike
<1>5. n + 1 \in 1..n + 1 /\ (n + 1) + 1 = n + 2 /\ n + 1 \in 1..Len(u)
  BY <1>1
<1>6. g[(n + 1) + 1] = AfterDelimiter(g[n + 1], u[n + 1])
  BY <1>2, <1>5 DEF Tracks
<1>7. g[n + 2] = AfterDelimiter(f[n + 1], x)
  <2> HIDE DEF n
  <2> QED BY <1>1, <1>4, <1>5, <1>6
<1> QED BY <1>7 DEF g, f, u, n

\* A line that is no fence keeps the end outside.
LEMMA OneMoreOutside ==
    ASSUME NEW doc, Outside(doc), NEW x, Shaped(x), x.kind # "fence"
    PROVE  Outside(Append(doc, x))
<1>1. Markdown(doc) /\ OpenFence(doc)[Len(doc) + 1] = Blank /\ Len(doc) \in Nat
  BY MarkdownIs DEF Outside
<1>2. Markdown(Append(doc, x)) /\ Len(Append(doc, x)) = Len(doc) + 1
  BY <1>1, OneMore
<1>3. OpenFence(Append(doc, x))[Len(doc) + 2] = Blank
  BY <1>1, OneMoreTracks DEF AfterDelimiter
<1>4. (Len(doc) + 1) + 1 = Len(doc) + 2
  BY <1>1
<1> QED BY <1>2, <1>3, <1>4 DEF Outside

\* Nothing at all.
LEMMA EmptyOutside ==
    Outside(<<>>)
<1>1. Markdown(<<>>)
  BY DEF Markdown, ToSet
<1>2. Len(<<>>) + 1 = 1
  OBVIOUS
<1>3. Tracks(OpenFence(<<>>), <<>>)
  BY <1>1, OpenFenceIs
<1>4. OpenFence(<<>>)[1] = Blank
  BY <1>3 DEF Tracks
<1> QED BY <1>1, <1>2, <1>4 DEF Outside

LEMMA ShapedLines ==
    /\ Shaped(Blank) /\ Blank.kind # "fence" /\ ~ Disputed(Blank)
    /\ Shaped(Marker) /\ Marker.kind # "fence" /\ ~ Disputed(Marker)
<1>1. Shaped(Blank) /\ Blank.kind # "fence" /\ ~ Disputed(Blank)
  BY DEF Shaped, Disputed, Blank, Plain
<1>2. Shaped(Marker) /\ Marker.kind # "fence" /\ ~ Disputed(Marker)
  <2>1. MarkerBudget - 3 \in Nat
    BY ProjectionAssumption
  <2> QED BY <2>1 DEF Shaped, Disputed, Marker, Plain
<1> QED BY <1>1, <1>2

----------------------------------------------------------------------------
(* The fences of CommonMark.                                               *)

\* What is open at the start of a document.
Outermost == [open |-> Blank, item |-> FALSE]

CommonMarked(f, doc) ==
    f = [i \in 1..Len(doc) + 1 |-> IF i = 1 THEN Outermost ELSE AfterLine(f[i - 1], doc[i - 1])]

\* What CommonMark computes.
LEMMA CommonMarkIs ==
    ASSUME NEW doc, Markdown(doc)
    PROVE  /\ CommonMark(doc)[1] = Outermost
           /\ \A i \in 1..Len(doc) : CommonMark(doc)[i + 1] = AfterLine(CommonMark(doc)[i], doc[i])
<1> DEFINE n == Len(doc)
           T == ToSet(doc) \cup {Blank}
           S == [open : T, item : BOOLEAN]
           g == [p \in (1..n) \X S |-> AfterLine(p[2], doc[p[1]])]
           F == CommonMark(doc)
<1>1. n \in Nat /\ \A i \in 1..n : doc[i] \in T
  BY MarkdownIs DEF ToSet
<1>2. Blank \in T /\ Outermost \in S
  BY DEF Outermost
<1>3. \A i \in 1..n : \A x \in S : AfterLine(x, doc[i]) \in S
  <2> TAKE i \in 1..n
  <2> TAKE x \in S
  <2> DEFINE l == doc[i]
             inItem == x.item /\ l.kind # "item" /\ l.indent >= ListIndent
             open == IF x.item /\ ~inItem THEN Blank ELSE x.open
  <2>1. x.open \in T /\ l \in T
    BY <1>1
  <2> HIDE DEF T, l
  <2>2. open \in T /\ inItem \in BOOLEAN /\ (inItem \/ l.kind = "item") \in BOOLEAN
    BY <1>2, <2>1
  <2>3. AfterLine(x, l) = x \/ \E o \in T, b \in BOOLEAN : AfterLine(x, l) = [open |-> o, item |-> b]
    <3> DEFINE closes == l.kind = "fence" /\ l.char = open.char /\ l.len = l.indent + l.size /\ l.size >= open.size
               opens == l.kind = "item" \/ (l.kind = "fence" /\ ~l.ticks)
               b == inItem \/ l.kind = "item"
    <3>1. AfterLine(x, l) = IF l.kind = "blank" THEN x
                            ELSE IF open # Blank THEN [open |-> IF closes THEN Blank ELSE open, item |-> inItem]
                            ELSE IF opens THEN [open |-> l, item |-> b]
                            ELSE [open |-> Blank, item |-> inItem]
      BY DEF AfterLine
    <3>2. b \in BOOLEAN
      OBVIOUS
    <3> HIDE DEF closes, opens, b, open, inItem
    <3> QED BY <1>2, <2>1, <2>2, <3>1, <3>2
  <2> HIDE DEF l, open, inItem
  <2>4. \A o \in T, b \in BOOLEAN : [open |-> o, item |-> b] \in S
    OBVIOUS
  <2> HIDE DEF S
  <2>5. AfterLine(x, l) \in S
    BY <2>3, <2>4
  <2> QED BY <2>5 DEF l
<1>4. \A i \in 1..n : \A x \in S : g[<<i, x>>] = AfterLine(x, doc[i]) /\ g[<<i, x>>] \in S
  <2> TAKE i \in 1..n
  <2> TAKE x \in S
  <2> HIDE DEF S
  <2>1. g[<<i, x>>] = AfterLine(x, doc[i])
    OBVIOUS
  <2> QED BY <1>3, <2>1
<1> HIDE DEF S, T, n
<1>5. g = [p \in (1..n) \X S |-> g[p]]
  OBVIOUS
<1> HIDE DEF g
<1>6. g \in [(1..n) \X S -> S]
  <2>1. \A p \in (1..n) \X S : p = <<p[1], p[2]>> /\ p[1] \in 1..n /\ p[2] \in S
    OBVIOUS
  <2>2. \A p \in (1..n) \X S : g[p] \in S
    BY <1>4, <2>1
  <2> QED BY <1>5, <2>2
<1>7. PICK f \in [1..n + 1 -> S] : Runs(f, n, Outermost, g)
  BY <1>1, <1>2, <1>6, RunsExist
<1>8. f[1] = Outermost /\ \A i \in 1..n : f[i + 1] = AfterLine(f[i], doc[i])
  <2>1. \A i \in 1..n : i \in 1..n + 1
    BY <1>1
  <2>2. \A i \in 1..n : f[i] \in S
    BY <1>7, <2>1
  <2> QED BY <1>4, <1>7, <2>2 DEF Runs
<1>9. CommonMarked(f, doc)
  <2>1. \A i \in 1..n + 1 : f[i] = IF i = 1 THEN Outermost ELSE AfterLine(f[i - 1], doc[i - 1])
    <3> TAKE i \in 1..n + 1
    <3>1. CASE i = 1
      BY <1>8, <3>1
    <3>2. CASE i # 1
      <4>1. i - 1 \in 1..n /\ (i - 1) + 1 = i
        BY <1>1, <3>2
      <4>2. f[(i - 1) + 1] = AfterLine(f[i - 1], doc[i - 1])
        BY <1>8, <4>1
      <4> QED BY <3>2, <4>1, <4>2
    <3> QED BY <3>1, <3>2
  <2>2. f = [i \in 1..n + 1 |-> f[i]]
    BY <1>7
  <2>3. f = [i \in 1..n + 1 |-> IF i = 1 THEN Outermost ELSE AfterLine(f[i - 1], doc[i - 1])]
    BY <2>1, <2>2
  <2> QED BY <2>3 DEF CommonMarked, n
<1>10. F = CHOOSE a : CommonMarked(a, doc)
  BY DEF CommonMark, CommonMarked, Outermost
<1>11. CommonMarked(F, doc)
  BY <1>9, <1>10
<1> HIDE DEF F
<1>12. \A i \in 1..n + 1 : F[i] = IF i = 1 THEN Outermost ELSE AfterLine(F[i - 1], doc[i - 1])
  <2>1. F = [i \in 1..n + 1 |-> IF i = 1 THEN Outermost ELSE AfterLine(F[i - 1], doc[i - 1])]
    BY <1>11 DEF CommonMarked, n
  <2> QED BY <2>1
<1>13. \A i \in 1..n : F[i + 1] = AfterLine(F[i], doc[i])
  <2> TAKE i \in 1..n
  <2>1. i + 1 \in 1..n + 1 /\ i + 1 # 1 /\ (i + 1) - 1 = i
    BY <1>1
  <2>2. F[i + 1] = AfterLine(F[(i + 1) - 1], doc[(i + 1) - 1])
    BY <1>12, <2>1
  <2> QED BY <2>1, <2>2
<1>14. F[1] = Outermost
  <2>1. 1 \in 1..n + 1
    BY <1>1
  <2> QED BY <1>12, <2>1
<1> QED BY <1>13, <1>14 DEF F, n

\* Every disputed line is in a fence, as markdownBoundaries sees it.
Undisputed(doc) == \A i \in 1..Len(doc) : Disputed(doc[i]) => OpenFence(doc)[i] # Blank

\* While each disputed line is in a fence in the eyes of one of the two, both see the same fences,
\* none of them in an item.
LEMMA SameFences ==
    ASSUME NEW doc, Markdown(doc),
           \A i \in 1..Len(doc) :
              Disputed(doc[i]) => OpenFence(doc)[i] # Blank \/ CommonMark(doc)[i].open # Blank
    PROVE  \A i \in 1..Len(doc) + 1 : CommonMark(doc)[i] = [open |-> OpenFence(doc)[i], item |-> FALSE]
<1> DEFINE n == Len(doc)
           f == OpenFence(doc)
           g == CommonMark(doc)
           T == {k \in 1..n + 1 : g[k] # [open |-> f[k], item |-> FALSE]}
<1>1. n \in Nat
  BY MarkdownIs
<1>2. f[1] = Blank /\ \A i \in 1..n : f[i + 1] = AfterDelimiter(f[i], doc[i])
  BY OpenFenceIs DEF Tracks
<1>3. g[1] = Outermost /\ \A i \in 1..n : g[i + 1] = AfterLine(g[i], doc[i])
  BY CommonMarkIs
<1>4. \A i \in 1..n : Disputed(doc[i]) => f[i] # Blank \/ g[i].open # Blank
  OBVIOUS
<1> HIDE DEF n, f, g
<1> SUFFICES ASSUME T # {} PROVE FALSE
  BY DEF n, f, g
<1>5. T \subseteq Nat /\ \A k : k \in T <=> k \in 1..n + 1 /\ g[k] # [open |-> f[k], item |-> FALSE]
  BY <1>1
<1> HIDE DEF T
<1>6. PICK k \in T : \A m \in T : k <= m
  BY <1>5, LeastNumber
<1>7. k \in 1..n + 1 /\ k # 1
  BY <1>2, <1>3, <1>5 DEF Outermost
<1> DEFINE j == k - 1
<1>8. j \in 1..n + 1 /\ j \in 1..n /\ ~ k <= j /\ j + 1 = k
  BY <1>1, <1>7
<1> HIDE DEF j
<1>9. g[j] = [open |-> f[j], item |-> FALSE]
  BY <1>5, <1>6, <1>8
<1>10. f[k] = AfterDelimiter(f[j], doc[j]) /\ g[k] = AfterLine(g[j], doc[j])
  BY <1>2, <1>3, <1>8
<1> DEFINE o == f[j]
           l == doc[j]
<1>11. Disputed(l) => o # Blank
  <2>1. g[j].open = f[j]
    BY <1>9
  <2> QED BY <1>4, <1>8, <2>1
<1>12. AfterLine([open |-> o, item |-> FALSE], l) =
          IF l.kind = "blank" THEN [open |-> o, item |-> FALSE]
          ELSE IF o # Blank
          THEN [open |-> IF l.kind = "fence" /\ l.char = o.char /\ l.len = l.indent + l.size /\ l.size >= o.size
                         THEN Blank ELSE o,
                item |-> FALSE]
          ELSE IF l.kind = "item" \/ (l.kind = "fence" /\ ~l.ticks)
          THEN [open |-> l, item |-> l.kind = "item"]
          ELSE [open |-> Blank, item |-> FALSE]
  <2> HIDE DEF o, l
  <2> QED BY Zenon DEF AfterLine
<1>13. AfterLine([open |-> o, item |-> FALSE], l) = [open |-> AfterDelimiter(o, l), item |-> FALSE]
  <2> HIDE DEF o, l
  <2>1. CASE l.kind = "blank"
    BY <1>12, <2>1 DEF AfterDelimiter, ClosesFence
  <2>2. CASE l.kind # "blank" /\ o # Blank
    BY <1>12, <2>2 DEF AfterDelimiter, ClosesFence
  <2>3. CASE l.kind # "blank" /\ o = Blank
    BY <1>11, <1>12, <2>3 DEF AfterDelimiter, Disputed
  <2> QED BY <2>1, <2>2, <2>3
<1> QED BY <1>5, <1>6, <1>9, <1>10, <1>13

\* What is undisputed is so for both.
LEMMA PlainIsUndisputed ==
    ASSUME NEW doc, Markdown(doc), FencesArePlain(doc)
    PROVE  Undisputed(doc)
<1>1. Len(doc) \in Nat /\ \A i \in 1..Len(doc) : Disputed(doc[i]) => CommonMark(doc)[i].open # Blank
  BY MarkdownIs DEF FencesArePlain
<1>2. \A i \in 1..Len(doc) + 1 : CommonMark(doc)[i] = [open |-> OpenFence(doc)[i], item |-> FALSE]
  BY <1>1, SameFences
<1> SUFFICES ASSUME NEW i \in 1..Len(doc), Disputed(doc[i]) PROVE OpenFence(doc)[i] # Blank
  BY DEF Undisputed
<1>3. i \in 1..Len(doc) + 1
  BY <1>1
<1>4. CommonMark(doc)[i] = [open |-> OpenFence(doc)[i], item |-> FALSE]
  BY <1>2, <1>3
<1>5. [open |-> OpenFence(doc)[i], item |-> FALSE].open = OpenFence(doc)[i]
  OBVIOUS
<1>6. CommonMark(doc)[i].open # Blank
  BY <1>1
<1> QED BY <1>4, <1>5, <1>6, Zenon

LEMMA OutsideIs ==
    ASSUME NEW doc, Outside(doc), Undisputed(doc)
    PROVE  ~ EndsInFence(doc)
<1>1. Markdown(doc) /\ OpenFence(doc)[Len(doc) + 1] = Blank
  BY DEF Outside
<1>2. \A i \in 1..Len(doc) + 1 : CommonMark(doc)[i] = [open |-> OpenFence(doc)[i], item |-> FALSE]
  BY <1>1, SameFences DEF Undisputed
<1>3. Len(doc) + 1 \in 1..Len(doc) + 1
  BY <1>1, MarkdownIs
<1>4. CommonMark(doc)[Len(doc) + 1] = [open |-> OpenFence(doc)[Len(doc) + 1], item |-> FALSE]
  BY <1>2, <1>3
<1>5. CommonMark(doc)[Len(doc) + 1] = [open |-> Blank, item |-> FALSE]
  BY <1>1, <1>4, Zenon
<1>6. [open |-> Blank, item |-> FALSE].open = Blank
  OBVIOUS
<1> QED BY <1>5, <1>6, Zenon DEF EndsInFence

\* The first lines of an undisputed document, the last of them perhaps cut.
LEMMA FirstUndisputed ==
    ASSUME NEW doc, Markdown(doc), Undisputed(doc), NEW u, Markdown(u), Len(u) <= Len(doc),
           \A i \in 1..Len(u) : Disputed(u[i]) => Disputed(doc[i]),
           \A i \in 1..Len(u) - 1 : u[i] = doc[i]
    PROVE  Undisputed(u)
<1> SUFFICES ASSUME NEW i \in 1..Len(u), Disputed(u[i]) PROVE OpenFence(u)[i] # Blank
  BY DEF Undisputed
<1>1. Len(doc) \in Nat /\ Len(u) \in Nat
  BY MarkdownIs
<1> DEFINE k == Len(u) - 1
           f == OpenFence(doc)
           g == OpenFence(u)
<1>2. k \in Nat /\ k <= Len(doc) /\ k <= Len(u) /\ i \in 1..k + 1 /\ i \in 1..Len(doc)
  BY <1>1
<1>3. Tracks(f, doc) /\ Tracks(g, u)
  BY OpenFenceIs
<1>4. f[i] # Blank
  BY <1>2 DEF Undisputed
<1>5. \A m \in 1..k : u[m] = doc[m]
  OBVIOUS
<1> HIDE DEF k, f, g
<1>6. g[i] = f[i]
  BY <1>1, <1>2, <1>3, <1>5, TracksAlike
<1> QED BY <1>4, <1>6 DEF g

LEMMA PrefixUndisputed ==
    ASSUME NEW doc, Markdown(doc), Undisputed(doc), NEW n \in Nat
    PROVE  Undisputed(UnicodePrefix(doc, n))
<1> DEFINE u == UnicodePrefix(doc, n)
<1>1. Length(doc) \in Nat /\ Len(doc) \in Nat /\ DOMAIN doc = 1..Len(doc)
  BY LengthIs, MarkdownIs
<1>2. CASE n >= Length(doc)
  BY <1>2 DEF UnicodePrefix
<1>3. CASE n < Length(doc)
  <2>1. PICK j : Falls(doc, n, j)
    BY <1>3, FallsIn
  <2>2. j \in 1..Len(doc) /\ n - Start(doc, j) \in 0..doc[j].len
    BY <2>1 DEF Falls
  <2>3. Markdown(u) /\ Len(u) = j /\ u[j] = Cut(doc[j], n - Start(doc, j)) /\ \A i \in 1..j - 1 : u[i] = doc[i]
    BY <1>3, <2>1, PrefixOf
  <2> HIDE DEF u
  <2>4. Disputed(u[j]) => Disputed(doc[j])
    <3>1. Shaped(doc[j])
      BY <1>1, <2>2 DEF Markdown
    <3> QED BY <2>2, <2>3, <3>1, CutIs
  <2>5. \A i \in 1..j : Disputed(u[i]) => Disputed(doc[i])
    <3> TAKE i \in 1..j
    <3>1. i = j \/ i \in 1..j - 1
      BY <1>1, <2>2
    <3> QED BY <2>3, <2>4, <3>1
  <2>6. Len(u) <= Len(doc)
    BY <1>1, <2>2, <2>3
  <2> QED BY <2>3, <2>5, <2>6, FirstUndisputed DEF u
<1> QED BY <1>1, <1>2, <1>3

LEMMA TrimUndisputed ==
    ASSUME NEW doc, Markdown(doc), Undisputed(doc)
    PROVE  Undisputed(TrimEnd(doc))
<1> DEFINE u == TrimEnd(doc)
<1>1. PICK k \in 0..Len(doc) : Begins(u, doc, k)
  BY TrimIs
<1> HIDE DEF u
<1>2. Markdown(u) /\ Len(u) = k /\ Len(u) <= Len(doc) /\ \A i \in 1..k : u[i] = doc[i]
  BY <1>1, MarkdownIs DEF Begins
<1>3. \A i \in 1..k - 1 : i \in 1..k
  BY <1>1, MarkdownIs
<1> QED BY <1>2, <1>3, FirstUndisputed DEF u

LEMMA OneMoreUndisputed ==
    ASSUME NEW doc, Markdown(doc), Undisputed(doc), NEW x, Shaped(x), ~ Disputed(x)
    PROVE  Undisputed(Append(doc, x))
<1> DEFINE u == Append(doc, x)
           n == Len(doc)
           f == OpenFence(doc)
           g == OpenFence(u)
<1>1. Markdown(u) /\ Len(u) = n + 1 /\ u[n + 1] = x /\ (\A i \in 1..n : u[i] = doc[i]) /\ n \in Nat
  BY OneMore, MarkdownIs
<1> HIDE DEF u
<1>2. Tracks(f, doc) /\ Tracks(g, u)
  BY <1>1, OpenFenceIs
<1>3. n <= Len(doc) /\ n <= Len(u) /\ Len(u) \in Nat /\ Len(doc) \in Nat
  BY <1>1
<1>4. \A i \in 1..n : Disputed(doc[i]) => f[i] # Blank
  BY DEF Undisputed
<1> HIDE DEF f, g
<1>5. \A i \in 1..n + 1 : g[i] = f[i]
  <2> HIDE DEF n
  <2> QED BY <1>1, <1>2, <1>3, TracksAlike
<1> SUFFICES ASSUME NEW i \in 1..Len(u), Disputed(u[i]) PROVE g[i] # Blank
  BY DEF Undisputed, u, g
<1>6. i \in 1..n /\ i \in 1..n + 1
  <2>1. i # n + 1
    BY <1>1
  <2> QED BY <1>1, <2>1
<1> QED BY <1>1, <1>4, <1>5, <1>6

----------------------------------------------------------------------------
(* The marker.                                                             *)

\* The document without its last line.
LEMMA FrontOfAppend ==
    ASSUME NEW doc, Markdown(doc), NEW x, Shaped(x)
    PROVE  Front(Append(doc, x)) = doc
<1> DEFINE u == Append(doc, x)
           n == Len(doc)
           v == SubSeq(u, 1, n)
<1>1. Markdown(u) /\ Len(u) = n + 1 /\ (\A i \in 1..n : u[i] = doc[i]) /\ n \in Nat
  BY OneMore, MarkdownIs
<1>2. Front(u) = v
  BY <1>1 DEF Front
<1> HIDE DEF u
<1>3. n \in 0..Len(u)
  BY <1>1
<1>4. Begins(v, u, n)
  <2> HIDE DEF n
  <2> QED BY <1>1, <1>3, FirstLines
<1> HIDE DEF v
<1>5. doc = v
  BY <1>1, <1>4, SameLines DEF Begins
<1> QED BY <1>2, <1>5 DEF u

\* What is appended to a body ends with the marker and an empty line.
LEMMA MarkerIsAppended ==
    ASSUME NEW body, Markdown(body)
    PROVE  AppendTruncationMarker(body) =
               IF IsBlank(body) THEN Append(Append(<<>>, Marker), Blank)
               ELSE Append(Append(Append(TrimEnd(body), Blank), Marker), Blank)
<1>1. CASE IsBlank(body)
  <2>1. <<Marker, Blank>> = Append(Append(<<>>, Marker), Blank)
    OBVIOUS
  <2> QED BY <1>1, <2>1 DEF AppendTruncationMarker
<1>2. CASE ~ IsBlank(body)
  <2> DEFINE s == TrimEnd(body)
             S == ToSet(s) \cup {Blank, Marker}
  <2>1. Markdown(s)
    BY TrimIs DEF Begins
  <2>2. AppendTruncationMarker(body) = s \o <<Blank, Marker, Blank>>
    BY <1>2 DEF AppendTruncationMarker
  <2> HIDE DEF s
  <2>3. s \in Seq(S) /\ Blank \in S /\ Marker \in S
    <3>1. s \in Seq(ToSet(s)) /\ ToSet(s) \subseteq S
      BY <2>1 DEF Markdown
    <3> QED BY <3>1, SeqMonotonic
  <2> HIDE DEF S
  <2>4. \A x, y, z \in S : s \o <<x, y, z>> = Append(Append(Append(s, x), y), z)
    BY <2>3
  <2>5. s \o <<Blank, Marker, Blank>> = Append(Append(Append(s, Blank), Marker), Blank)
    BY <2>3, <2>4
  <2> QED BY <1>2, <2>2, <2>5 DEF s
<1> QED BY <1>1, <1>2

LEMMA MarkerIsOutside ==
    ASSUME NEW body, Outside(body), Undisputed(body)
    PROVE  ~ EndsInFence(Front(AppendTruncationMarker(body)))
<1> DEFINE t == TrimEnd(body)
           s == IF IsBlank(body) THEN <<>> ELSE Append(t, Blank)
<1>1. Markdown(body)
  BY DEF Outside
<1>2. Outside(s) /\ Undisputed(s)
  <2>1. Outside(t) /\ Undisputed(t)
    BY <1>1, TrimOutside, TrimUndisputed
  <2> HIDE DEF t
  <2>2. Outside(Append(t, Blank)) /\ Undisputed(Append(t, Blank))
    <3>1. Markdown(t)
      BY <2>1 DEF Outside
    <3> QED BY <2>1, <3>1, OneMoreOutside, OneMoreUndisputed, ShapedLines
  <2>3. Undisputed(<<>>)
    BY DEF Undisputed
  <2> QED BY <2>2, <2>3, EmptyOutside
<1>3. AppendTruncationMarker(body) = Append(Append(s, Marker), Blank)
  BY <1>1, MarkerIsAppended
<1> HIDE DEF s
<1>4. Markdown(s)
  BY <1>2 DEF Outside
<1>5. Markdown(Append(s, Marker))
  BY <1>4, OneMore, ShapedLines
<1>6. Front(Append(Append(s, Marker), Blank)) = Append(s, Marker)
  BY <1>5, FrontOfAppend, ShapedLines
<1>7. Outside(Append(s, Marker)) /\ Undisputed(Append(s, Marker))
  BY <1>2, <1>4, OneMoreOutside, OneMoreUndisputed, ShapedLines
<1> QED BY <1>3, <1>6, <1>7, OutsideIs

----------------------------------------------------------------------------
(* Cuts at boundaries.                                                     *)

\* b is where a line starts before which no fence is open.
CutPoint(doc, b) == \E j \in 1..Len(doc) : b = Start(doc, j) /\ OpenFence(doc)[j] = Blank

LEMMA BoundariesAre ==
    ASSUME NEW doc, Markdown(doc)
    PROVE  /\ \A b \in Boundaries(doc).section : CutPoint(doc, b)
           /\ \A b \in Boundaries(doc).block : CutPoint(doc, b)
           /\ \A b \in Boundaries(doc).line : CutPoint(doc, b)
           /\ Boundaries(doc).open = OpenFence(doc)[Len(doc) + 1]
<1> DEFINE open == OpenFence(doc)
           n == Len(doc)
           Out == {i \in DOMAIN doc : open[i] = Blank}
           Closing == {i \in (1..n - 1) \ Out : ClosesFence(doc[i], open[i])}
<1>1. n \in Nat /\ DOMAIN doc = 1..n
  BY MarkdownIs
<1>2. \A i \in 1..n : open[i + 1] = AfterDelimiter(open[i], doc[i])
  BY OpenFenceIs DEF Tracks
<1> HIDE DEF open
<1>3. \A i \in (1..n - 1) \cap Out : doc[i].kind # "fence" => open[i + 1] = Blank
  BY <1>1, <1>2 DEF AfterDelimiter
<1>4. \A i \in Closing : open[i + 1] = Blank
  BY <1>1, <1>2 DEF AfterDelimiter
<1>5. \A i \in 1..n - 1 : open[i + 1] = Blank => CutPoint(doc, Start(doc, i + 1))
  <2> TAKE i \in 1..n - 1
  <2>1. i + 1 \in 1..n
    BY <1>1
  <2> QED BY <2>1 DEF CutPoint, open, n
<1>6. \A i \in Out : CutPoint(doc, Start(doc, i))
  BY <1>1 DEF CutPoint, open, n
<1>7. Boundaries(doc).open = open[n + 1]
  BY DEF Boundaries, open
<1>8. \A b \in Boundaries(doc).section : \E i \in Out : b = Start(doc, i)
  BY DEF Boundaries, open
<1>9. \A b \in Boundaries(doc).block :
          \E i \in 1..n - 1 : b = Start(doc, i + 1) /\ (i \in Closing \/ (i \in Out /\ doc[i].kind = "blank"))
  BY DEF Boundaries, open
<1>10. \A b \in Boundaries(doc).line :
          \E i \in 1..n - 1 : b = Start(doc, i + 1) /\ (i \in Closing \/ (i \in Out /\ doc[i].kind # "fence"))
  BY DEF Boundaries, open
<1>11. \A b \in Boundaries(doc).section : CutPoint(doc, b)
  BY <1>6, <1>8
<1> HIDE DEF Out, Closing, n
<1>12. \A b \in Boundaries(doc).block : CutPoint(doc, b)
  <2> TAKE b \in Boundaries(doc).block
  <2>1. PICK i \in 1..n - 1 : b = Start(doc, i + 1) /\ (i \in Closing \/ (i \in Out /\ doc[i].kind = "blank"))
    BY <1>9
  <2>2. open[i + 1] = Blank
    BY <1>3, <1>4, <2>1
  <2> QED BY <1>5, <2>1, <2>2
<1>13. \A b \in Boundaries(doc).line : CutPoint(doc, b)
  <2> TAKE b \in Boundaries(doc).line
  <2>1. PICK i \in 1..n - 1 : b = Start(doc, i + 1) /\ (i \in Closing \/ (i \in Out /\ doc[i].kind # "fence"))
    BY <1>10
  <2>2. open[i + 1] = Blank
    BY <1>3, <1>4, <2>1
  <2> QED BY <1>5, <2>1, <2>2
<1> QED BY <1>7, <1>11, <1>12, <1>13 DEF open, n

LEMMA LatestIs ==
    ASSUME NEW doc, Markdown(doc), NEW S, \A b \in S : CutPoint(doc, b), LatestNonWhitespaceBoundary(doc, S) # 0
    PROVE  CutPoint(doc, LatestNonWhitespaceBoundary(doc, S))
<1> DEFINE T == {0} \cup S
           n == Len(doc)
<1>1. n \in Nat /\ (\A i \in 1..n + 1 : Start(doc, i) \in Nat) /\ \A k \in 1..n : doc[k].len \in Nat
  BY MarkdownIs, StartsAre
<1>2. \A i \in 1..n : Start(doc, i) <= Start(doc, n + 1)
  <2> TAKE i \in 1..n
  <2> DEFINE m == n + 1
  <2>1. i \in 1..n + 1 /\ m \in 1..n + 1 /\ i < m
    BY <1>1
  <2>2. Start(doc, i) \in Nat /\ Start(doc, m) \in Nat /\ doc[i].len \in Nat
    BY <1>1, <2>1
  <2> HIDE DEF m
  <2>3. Start(doc, i) + doc[i].len + 1 <= Start(doc, m)
    BY <2>1, StartsGrow
  <2>4. Start(doc, i) <= Start(doc, m)
    BY <2>2, <2>3
  <2> QED BY <2>4 DEF m
<1>3. Start(doc, n + 1) \in Nat
  <2>1. n + 1 \in 1..n + 1
    BY <1>1
  <2> QED BY <1>1, <2>1
<1>4. T \subseteq Nat /\ T # {} /\ \A b \in T : b <= Start(doc, n + 1)
  <2>1. \A b \in S : b \in Nat /\ b <= Start(doc, n + 1)
    <3> TAKE b \in S
    <3>1. PICK j \in 1..n : b = Start(doc, j)
      BY DEF CutPoint
    <3>2. j \in 1..n + 1
      BY <1>1
    <3> QED BY <1>1, <1>2, <3>1, <3>2
  <2> QED BY <1>3, <2>1
<1> HIDE DEF T, n
<1>5. Max(T) \in T
  BY <1>3, <1>4, MaxIs
<1>6. LatestNonWhitespaceBoundary(doc, S) = Max(T)
  BY DEF LatestNonWhitespaceBoundary, T
<1>7. Max(T) \in S
  BY <1>5, <1>6 DEF T
<1> QED BY <1>6, <1>7

\* A prefix that ends where such a line starts ends outside of every fence.
LEMMA CutPointOutside ==
    ASSUME NEW doc, Markdown(doc), NEW b, CutPoint(doc, b)
    PROVE  Outside(UnicodePrefix(doc, b))
<1> DEFINE f == OpenFence(doc)
           n == Len(doc)
<1>1. PICK j \in 1..n : b = Start(doc, j) /\ f[j] = Blank
  BY DEF CutPoint
<1>2. n \in Nat /\ (\A i \in 1..n + 1 : Start(doc, i) \in Nat) /\ (\A k \in 1..n : doc[k].len \in Nat)
      /\ Length(doc) \in Nat /\ Tracks(f, doc) /\ n = Len(doc)
  BY MarkdownIs, StartsAre, LengthIs, OpenFenceIs
<1> HIDE DEF f, n
<1>3. j \in 1..n + 1 /\ b \in Nat
  BY <1>1, <1>2
<1>4. \A i \in 1..n : j < i => Start(doc, j) + doc[j].len + 1 <= Start(doc, i)
  <2> TAKE i \in 1..n
  <2>1. i \in 1..n + 1
    BY <1>2
  <2> QED BY <1>2, <1>3, <2>1, StartsGrow
<1>5. CASE b >= Length(doc)
  <2>1. Length(doc) = Start(doc, n) + doc[n].len /\ n \in 1..n /\ n \in 1..n + 1
    BY <1>1, <1>2, LengthIs
  <2>2. Start(doc, n) \in Nat /\ Start(doc, j) \in Nat /\ doc[n].len \in Nat /\ doc[j].len \in Nat
    BY <1>1, <1>2, <1>3, <2>1
  <2>3. j = n
    <3> SUFFICES ASSUME j # n PROVE FALSE
      OBVIOUS
    <3>1. Start(doc, j) + doc[j].len + 1 <= Start(doc, n)
      BY <1>2, <1>4, <2>1
    <3> QED BY <1>1, <1>5, <2>1, <2>2, <3>1
  <2>4. doc[n].len = 0 /\ Shaped(doc[n])
    <3>1. doc[n].len = 0
      BY <1>1, <1>5, <2>1, <2>2, <2>3
    <3>2. n \in DOMAIN doc
      BY <1>2, <2>1, MarkdownIs
    <3> QED BY <3>1, <3>2 DEF Markdown
  <2>5. doc[n].kind # "fence"
    BY <2>4 DEF Shaped
  <2>6. f[n + 1] = AfterDelimiter(f[n], doc[n])
    BY <1>2, <2>1 DEF Tracks
  <2>7. f[n + 1] = Blank
    BY <1>1, <2>3, <2>5, <2>6 DEF AfterDelimiter
  <2>8. UnicodePrefix(doc, b) = doc
    BY <1>5 DEF UnicodePrefix
  <2> QED BY <1>2, <2>7, <2>8 DEF Outside, f
<1>6. CASE b < Length(doc)
  <2> DEFINE u == UnicodePrefix(doc, b)
             g == OpenFence(u)
  <2>1. Falls(doc, b, j)
    <3>1. b - Start(doc, j) \in 0..doc[j].len
      BY <1>1, <1>2, <1>3
    <3>2. \A i \in 1..n : Start(doc, i) <= b => i <= j
      <4> TAKE i \in 1..n
      <4>1. i \in 1..n + 1 /\ doc[j].len \in Nat /\ Start(doc, j) \in Nat
        BY <1>1, <1>2, <1>3
      <4>2. Start(doc, i) \in Nat
        BY <1>2, <4>1
      <4> QED BY <1>1, <1>4, <4>1, <4>2
    <3> QED BY <1>1, <1>2, <1>3, <3>1, <3>2 DEF Falls
  <2>2. Markdown(u) /\ Len(u) = j /\ u[j] = Cut(doc[j], b - Start(doc, j)) /\ \A i \in 1..j - 1 : u[i] = doc[i]
    BY <1>3, <1>6, <2>1, PrefixOf
  <2>3. b - Start(doc, j) = 0
    BY <1>1, <1>3
  <2>4. u[j].kind # "fence"
    <3>1. Shaped(doc[j])
      BY <1>1, <1>2, MarkdownIs DEF Markdown
    <3>2. Cut(doc[j], 0).kind # "fence"
      BY <3>1, CutAtStart
    <3> HIDE DEF u
    <3> QED BY <2>2, <2>3, <3>2
  <2> HIDE DEF u
  <2>5. Tracks(g, u)
    BY <2>2, OpenFenceIs
  <2> HIDE DEF g
  <2>6. \A i \in 1..j : g[i] = f[i]
    <3> DEFINE k == j - 1
    <3>1. k \in Nat /\ k <= Len(doc) /\ k <= Len(u) /\ Len(u) \in Nat /\ Len(doc) \in Nat /\ k + 1 = j
      BY <1>2, <2>2
    <3>2. \A i \in 1..k : u[i] = doc[i]
      BY <2>2
    <3> HIDE DEF k
    <3>3. \A i \in 1..k + 1 : g[i] = f[i]
      BY <1>2, <2>5, <3>1, <3>2, TracksAlike
    <3> QED BY <3>1, <3>3
  <2>7. j \in 1..j /\ j \in 1..Len(u)
    BY <1>2, <2>2
  <2>8. g[j + 1] = AfterDelimiter(g[j], u[j])
    BY <2>5, <2>7 DEF Tracks
  <2>9. g[j + 1] = Blank
    BY <1>1, <2>4, <2>6, <2>7, <2>8 DEF AfterDelimiter
  <2> QED BY <2>2, <2>9 DEF Outside, g, u
<1> QED BY <1>2, <1>3, <1>5, <1>6

\* Where the candidate is cut.
LEMMA CutoffIs ==
    ASSUME NEW doc, Markdown(doc), Cutoff(doc) # 0
    PROVE  CutPoint(doc, Cutoff(doc))
<1> DEFINE b == Boundaries(doc)
           L(S) == LatestNonWhitespaceBoundary(doc, S)
<1>1. Cutoff(doc) \in {L(b.section), L(b.block), L(b.line)}
  BY DEF Cutoff
<1>2. L(b.section) # 0 => CutPoint(doc, L(b.section))
  BY BoundariesAre, LatestIs
<1>3. L(b.block) # 0 => CutPoint(doc, L(b.block))
  BY BoundariesAre, LatestIs
<1>4. L(b.line) # 0 => CutPoint(doc, L(b.line))
  BY BoundariesAre, LatestIs
<1> HIDE DEF b, L
<1> QED BY <1>1, <1>2, <1>3, <1>4

LEMMA CutoffOutside ==
    ASSUME NEW doc, Markdown(doc), Cutoff(doc) # 0
    PROVE  Outside(UnicodePrefix(doc, Cutoff(doc)))
BY CutoffIs, CutPointOutside

----------------------------------------------------------------------------
(* The fallback.                                                           *)

\* The length of a document with one line more.
LEMMA OneMoreLength ==
    ASSUME NEW doc, Markdown(doc), NEW x, Shaped(x)
    PROVE  Length(Append(doc, x)) = x.len + (IF Len(doc) = 0 THEN 0 ELSE Length(doc) + 1)
<1> DEFINE u == Append(doc, x)
           n == Len(doc)
<1>1. Markdown(u) /\ Len(u) = n + 1 /\ u[n + 1] = x /\ (\A i \in 1..n : u[i] = doc[i])
  BY OneMore
<1> HIDE DEF u
<1>2. n \in Nat /\ n <= Len(u) /\ n <= Len(doc) /\ x.len \in Nat
  BY <1>1, MarkdownIs DEF Shaped
<1>3. \A i \in 1..n + 1 : Start(u, i) = Start(doc, i)
  <2>1. \A i \in 1..n : u[i].len = doc[i].len
    BY <1>1
  <2> HIDE DEF n
  <2> QED BY <1>1, <1>2, <2>1, SameStarts
<1>4. Length(u) = Start(u, n + 1) + x.len /\ Start(u, n + 1) = Start(doc, n + 1)
  <2>1. n + 1 # 0 /\ n + 1 \in 1..n + 1
    BY <1>2
  <2> QED BY <1>1, <1>3, <2>1, LengthIs
<1>5. CASE n = 0
  <2>1. Start(doc, 0 + 1) = 0
    BY StartsAre
  <2> QED BY <1>2, <1>4, <1>5, <2>1 DEF u
<1>6. CASE n # 0
  <2>1. n \in 1..n /\ n \in 1..n + 1
    BY <1>2, <1>6
  <2>2. Start(doc, n + 1) = Start(doc, n) + doc[n].len + 1 /\ Start(doc, n) \in Nat
    BY <2>1, StartsAre
  <2>3. Length(doc) = Start(doc, n) + doc[n].len /\ doc[n].len \in Nat
    BY <1>6, <2>1, LengthIs, MarkdownIs
  <2> QED BY <1>2, <1>4, <1>6, <2>2, <2>3 DEF u
<1> QED BY <1>5, <1>6 DEF n

\* The code points of the fallback for the first n of the source, but for what dangles.
Used(doc, n) == WrapperLength + n + Indent * Cardinality({i \in DOMAIN doc : Start(doc, i) < n})
Takes(doc, budget) == Max({n \in 0..Length(doc) : n = 0 \/ Used(doc, n) <= budget})
Inside(doc, budget) ==
    LET taken == UnicodePrefix(doc, Takes(doc, budget))
        dangling == IF Used(doc, Length(taken)) + Indent <= budget THEN Indent ELSE 0
        Shifted(i) == IF i = Len(taken) /\ taken[i].len = 0 THEN Plain("blank", dangling)
                      ELSE Plain(IF taken[i].kind = "blank" THEN "blank" ELSE "text", taken[i].len + Indent)
    IN [i \in DOMAIN taken |-> Shifted(i)]

LEMMA FallbackIs ==
    ASSUME NEW doc, NEW budget, NEW fence
    PROVE  FencedBlockFallback(doc, budget, fence) =
               <<Fence(Wrapper(fence), 3, 4)>> \o Inside(doc, budget) \o <<Fence(Wrapper(fence), 3, 0), Blank>>
BY DEF FencedBlockFallback, Inside, Takes, Used

\* What is taken fits.
LEMMA TakesFits ==
    ASSUME NEW doc, Markdown(doc), NEW budget \in Nat, budget >= WrapperLength
    PROVE  Takes(doc, budget) \in 0..Length(doc) /\ Used(doc, Takes(doc, budget)) <= budget
<1> DEFINE S == {n \in 0..Length(doc) : n = 0 \/ Used(doc, n) <= budget}
<1>1. Length(doc) \in Nat
  BY LengthIs
<1>2. 0 \in S /\ S \subseteq Nat /\ (\A n \in S : n <= Length(doc))
      /\ \A n \in S : n \in 0..Length(doc) /\ (n = 0 \/ Used(doc, n) <= budget)
  BY <1>1
<1> HIDE DEF S
<1>3. Max(S) \in S
  BY <1>1, <1>2, MaxIs
<1>4. Takes(doc, budget) = Max(S)
  BY DEF Takes, S
<1>5. Used(doc, 0) <= budget
  <2>1. \A i \in DOMAIN doc : Start(doc, i) \in Nat
    <3> TAKE i \in DOMAIN doc
    <3>1. i \in 1..Len(doc) + 1
      BY MarkdownIs
    <3> QED BY <3>1, StartsAre
  <2>2. {i \in DOMAIN doc : Start(doc, i) < 0} = {}
    BY <2>1
  <2>3. Cardinality({i \in DOMAIN doc : Start(doc, i) < 0}) = 0
    BY <2>2, FS_EmptySet
  <2> QED BY <2>3 DEF Used, WrapperLength, Indent
<1> QED BY <1>2, <1>3, <1>4, <1>5

\* The lines that start before the end of a prefix.
LEMMA LinesBefore ==
    ASSUME NEW doc, Markdown(doc), NEW k \in 0..Length(doc), NEW u, u = UnicodePrefix(doc, k), Len(u) # 0
    PROVE  Cardinality({i \in DOMAIN doc : Start(doc, i) < k}) = IF u[Len(u)].len = 0 THEN Len(u) - 1 ELSE Len(u)
<1> DEFINE t == Len(u)
           n == Len(doc)
           S == {i \in DOMAIN doc : Start(doc, i) < k}
<1>1. Length(doc) \in Nat /\ n \in Nat /\ DOMAIN doc = 1..n /\ k \in Nat
  BY LengthIs, MarkdownIs
<1>2. /\ Markdown(u) /\ t \in 1..n /\ Start(u, t) = Start(doc, t)
      /\ \A i \in 1..n : Start(doc, i) <= k => i <= t
  <2>1. CASE k = Length(doc)
    <3>1. u = doc
      BY <1>1, <2>1 DEF UnicodePrefix
    <3> QED BY <1>1, <3>1
  <2>2. CASE k < Length(doc)
    <3>1. PICK i : Falls(doc, k, i)
      BY <1>1, <2>2, FallsIn
    <3>2. Markdown(u) /\ Len(u) = i /\ \A j \in 1..i : Start(u, j) = Start(doc, j)
      BY <1>1, <2>2, <3>1, PrefixOf
    <3>3. i \in 1..n /\ (\A j \in 1..n : Start(doc, j) <= k => j <= i) /\ i \in 1..i
      BY <1>1, <3>1 DEF Falls
    <3> QED BY <3>2, <3>3
  <2> QED BY <1>1, <2>1, <2>2
<1>3. Length(u) = k
  BY <1>1, PrefixIsMarkdown
<1>4. k = Start(u, t) + u[t].len
  BY <1>2, <1>3, LengthIs
<1>5. \A i \in 1..n : Start(doc, i) \in Nat /\ doc[i].len \in Nat
  <2> TAKE i \in 1..n
  <2>1. i \in 1..n + 1
    BY <1>1
  <2> QED BY <2>1, StartsAre, MarkdownIs
<1>6. u[t].len \in Nat /\ t \in Nat /\ t \in 1..t
  <2>1. t \in Nat /\ t \in 1..t
    BY <1>1, <1>2
  <2> QED BY <1>2, <2>1, MarkdownIs
<1>7. \A i, j \in 1..n : i < j => Start(doc, i) < Start(doc, j)
  <2> TAKE i, j \in 1..n
  <2> HAVE i < j
  <2>1. i \in 1..n + 1 /\ j \in 1..n + 1
    BY <1>1
  <2>2. Start(doc, i) + doc[i].len + 1 <= Start(doc, j)
    BY <2>1, StartsGrow
  <2> QED BY <1>5, <2>2
<1>8. \A i : i \in S <=> i \in 1..n /\ Start(doc, i) < k
  BY <1>1
<1> HIDE DEF S, t, n
<1>9. CASE u[t].len = 0
  <2>1. \A i : i \in S <=> i \in 1..t - 1
    <3> TAKE i
    <3>1. ASSUME i \in S PROVE i \in 1..t - 1
      <4>1. i \in 1..n /\ Start(doc, i) < k /\ Start(doc, t) = k /\ Start(doc, i) \in Nat
        BY <1>2, <1>4, <1>5, <1>6, <1>8, <1>9, <3>1
      <4>2. i <= t /\ i # t
        BY <1>1, <1>2, <4>1
      <4> QED BY <1>6, <4>1, <4>2
    <3>2. ASSUME i \in 1..t - 1 PROVE i \in S
      <4>1. i \in 1..n /\ i < t
        BY <1>1, <1>2, <3>2
      <4>2. Start(doc, i) < Start(doc, t)
        BY <1>2, <1>7, <4>1
      <4>3. Start(doc, t) = k
        BY <1>2, <1>4, <1>5, <1>9
      <4> QED BY <1>8, <4>1, <4>2, <4>3
    <3> QED BY <3>1, <3>2
  <2>2. S = 1..t - 1
    BY <2>1
  <2>3. Cardinality(1..t - 1) = t - 1
    <3>1. 1 \in Int /\ t - 1 \in Int
      BY <1>6
    <3>2. Cardinality(1..t - 1) = IF 1 > t - 1 THEN 0 ELSE (t - 1) - 1 + 1
      BY <3>1, FS_Interval
    <3>3. t >= 1
      BY <1>2, <1>1
    <3> QED BY <1>6, <3>2, <3>3
  <2> QED BY <1>9, <2>2, <2>3 DEF S, t
<1>10. CASE u[t].len # 0
  <2>1. \A i : i \in S <=> i \in 1..t
    <3> TAKE i
    <3>1. ASSUME i \in S PROVE i \in 1..t
      <4>1. i \in 1..n /\ Start(doc, i) < k /\ Start(doc, i) \in Nat
        BY <1>5, <1>8, <3>1
      <4>2. i <= t
        BY <1>1, <1>2, <4>1
      <4> QED BY <1>6, <4>1, <4>2
    <3>2. ASSUME i \in 1..t PROVE i \in S
      <4>1. i \in 1..n /\ (i < t \/ i = t)
        BY <1>1, <1>2, <3>2
      <4>2. Start(doc, i) <= Start(doc, t)
        BY <1>2, <1>5, <1>7, <4>1
      <4>3. Start(doc, t) < k
        BY <1>2, <1>4, <1>5, <1>6, <1>10
      <4>4. Start(doc, i) < k
        BY <1>1, <1>2, <1>5, <4>1, <4>2, <4>3
      <4> QED BY <1>8, <4>1, <4>4
    <3> QED BY <3>1, <3>2
  <2>2. S = 1..t
    BY <2>1
  <2>3. Cardinality(1..t) = t
    <3>1. 1 \in Int /\ t \in Int
      BY <1>6
    <3>2. Cardinality(1..t) = IF 1 > t THEN 0 ELSE t - 1 + 1
      BY <3>1, FS_Interval
    <3>3. t >= 1
      BY <1>2, <1>1
    <3> QED BY <1>6, <3>2, <3>3
  <2> QED BY <1>10, <2>2, <2>3 DEF S, t
<1> QED BY <1>9, <1>10

\* Two sequences of lines.
LEMMA Joined ==
    ASSUME NEW x, Shaped(x), NEW doc, Markdown(doc)
    PROVE  LET c == <<x>> \o doc
           IN Markdown(c) /\ Len(c) = Len(doc) + 1 /\ c[1] = x /\ \A i \in 1..Len(doc) : c[i + 1] = doc[i]
<1> DEFINE S == ToSet(doc) \cup {x}
           c == <<x>> \o doc
           n == Len(doc)
<1>1. n \in Nat /\ DOMAIN doc = 1..n /\ \A i \in 1..n : Shaped(doc[i])
  BY MarkdownIs DEF Markdown
<1>2. doc \in Seq(S) /\ <<x>> \in Seq(S) /\ Len(<<x>>) = 1 /\ <<x>>[1] = x
  <2>1. doc \in Seq(ToSet(doc)) /\ ToSet(doc) \subseteq S /\ x \in S
    BY DEF Markdown
  <2>2. doc \in Seq(S)
    BY <2>1, SeqMonotonic
  <2> QED BY <2>1, <2>2
<1> HIDE DEF S
<1>3. c \in Seq(S) /\ Len(c) = 1 + n /\ \A i \in 1..1 + n : c[i] = IF i <= 1 THEN <<x>>[i] ELSE doc[i - 1]
  BY <1>2, ConcatProperties
<1> HIDE DEF c, n
<1>4. c[1] = x
  BY <1>1, <1>2, <1>3
<1>5. \A i \in 1..n : c[i + 1] = doc[i]
  <2> TAKE i \in 1..n
  <2>1. i + 1 \in 1..1 + n /\ ~ i + 1 <= 1 /\ (i + 1) - 1 = i
    BY <1>1
  <2> QED BY <1>3, <2>1
<1>6. \A i \in 1..n + 1 : Shaped(c[i])
  <2> TAKE i \in 1..n + 1
  <2>1. CASE i = 1
    BY <1>4, <2>1
  <2>2. CASE i # 1
    <3>1. i - 1 \in 1..n /\ (i - 1) + 1 = i
      BY <1>1, <2>2
    <3>2. c[(i - 1) + 1] = doc[i - 1]
      BY <1>5, <3>1
    <3> QED BY <1>1, <3>1, <3>2
  <2> QED BY <2>1, <2>2
<1>7. c = [i \in 1..n + 1 |-> c[i]] /\ n + 1 \in Nat /\ Len(c) = n + 1
  <2>1. Len(c) = n + 1
    BY <1>1, <1>3
  <2> QED BY <1>1, <1>3, <2>1, LenProperties
<1>8. Markdown(c)
  BY <1>6, <1>7, LinesAreMarkdown
<1> QED BY <1>4, <1>5, <1>7, <1>8 DEF c, n

Dangles(doc, budget) ==
    IF Used(doc, Length(UnicodePrefix(doc, Takes(doc, budget)))) + Indent <= budget THEN Indent ELSE 0

\* The indented lines are no fences, and as long as they are counted.
LEMMA InsideIs ==
    ASSUME NEW doc, Markdown(doc), NEW budget \in Nat, budget >= WrapperLength
    PROVE  LET u == UnicodePrefix(doc, Takes(doc, budget))
               c == Inside(doc, budget)
           IN /\ Markdown(c) /\ Len(c) = Len(u)
              /\ \A i \in 1..Len(c) : c[i].kind # "fence" /\ ~ Disputed(c[i])
              /\ \A i \in 1..Len(c) : c[i].len = IF i = Len(u) /\ u[i].len = 0 THEN Dangles(doc, budget)
                                                 ELSE u[i].len + Indent
<1> DEFINE u == UnicodePrefix(doc, Takes(doc, budget))
           c == Inside(doc, budget)
           d == Dangles(doc, budget)
           n == Len(u)
           line(i) == IF i = n /\ u[i].len = 0 THEN Plain("blank", d)
                      ELSE Plain(IF u[i].kind = "blank" THEN "blank" ELSE "text", u[i].len + Indent)
<1>1. Markdown(u)
  <2>1. Takes(doc, budget) \in Nat
    BY TakesFits, LengthIs
  <2> QED BY <2>1, PrefixIsMarkdown
<1>2. n \in Nat /\ DOMAIN u = 1..n /\ \A i \in 1..n : u[i].len \in Nat
  BY <1>1, MarkdownIs
<1>3. d \in Nat
  BY DEF Dangles, Indent
<1>4. c = [i \in 1..n |-> line(i)]
  BY <1>2 DEF Inside, Dangles
<1> HIDE DEF c, d, n, u
<1>5. \A i \in 1..n : Shaped(line(i)) /\ line(i).kind # "fence" /\ ~ Disputed(line(i))
                      /\ line(i).len = IF i = n /\ u[i].len = 0 THEN d ELSE u[i].len + Indent
  BY <1>2, <1>3 DEF Shaped, Disputed, Plain, Indent
<1> HIDE DEF line
<1>6. c = [i \in 1..n |-> c[i]] /\ \A i \in 1..n : c[i] = line(i)
  BY <1>4
<1>7. \A i \in 1..n : Shaped(c[i])
  BY <1>5, <1>6
<1>8. Markdown(c) /\ Len(c) = n
  BY <1>2, <1>6, <1>7, LinesAreMarkdown
<1> QED BY <1>5, <1>6, <1>8 DEF c, n, u, d

\* Where the indented lines start.
LEMMA InsideStarts ==
    ASSUME NEW c, Markdown(c), NEW u, Markdown(u), Len(c) = Len(u) + 1, c[1].len = 7,
           \A i \in 1..Len(u) - 1 : c[i + 1].len = u[i].len + Indent
    PROVE  \A i \in 1..Len(u) : Start(c, i + 1) = 8 + Start(u, i) + Indent * (i - 1)
<1> DEFINE n == Len(u)
           T == {i \in 1..n : Start(c, i + 1) # 8 + Start(u, i) + Indent * (i - 1)}
<1>1. n \in Nat /\ Len(c) = n + 1 /\ \A i \in 1..n - 1 : c[i + 1].len = u[i].len + Indent
  BY MarkdownIs
<1>2. /\ Start(u, 1) = 0 /\ (\A i \in 1..n + 1 : Start(u, i) \in Nat)
      /\ (\A i \in 1..n : Start(u, i + 1) = Start(u, i) + u[i].len + 1) /\ \A i \in 1..n : u[i].len \in Nat
  BY StartsAre, MarkdownIs
<1>3. Start(c, 1) = 0 /\ \A i \in 1..n + 1 : Start(c, i + 1) = Start(c, i) + c[i].len + 1
  BY <1>1, StartsAre
<1> HIDE DEF n
<1> SUFFICES ASSUME T # {} PROVE FALSE
  BY DEF n
<1>4. T \subseteq Nat /\ \A i : i \in T <=> i \in 1..n /\ Start(c, i + 1) # 8 + Start(u, i) + Indent * (i - 1)
  BY <1>1
<1> HIDE DEF T
<1>5. PICK k \in T : \A m \in T : k <= m
  BY <1>4, LeastNumber
<1>6. k \in 1..n /\ Start(c, k + 1) # 8 + Start(u, k) + Indent * (k - 1)
  BY <1>4
<1>7. k # 1
  <2>1. 1 \in 1..n + 1
    BY <1>1
  <2>2. Start(c, 1 + 1) = Start(c, 1) + c[1].len + 1
    BY <1>3, <2>1
  <2>3. Start(c, 1 + 1) = 8 + Start(u, 1) + Indent * (1 - 1)
    BY <1>2, <1>3, <2>2 DEF Indent
  <2> QED BY <1>6, <2>3
<1> DEFINE j == k - 1
<1>8. j \in 1..n - 1 /\ j \in 1..n /\ ~ k <= j /\ j + 1 = k /\ k \in 1..n + 1 /\ j \in 1..n + 1
  BY <1>1, <1>6, <1>7
<1> HIDE DEF j
<1>9. Start(c, j + 1) = 8 + Start(u, j) + Indent * (j - 1)
  BY <1>4, <1>5, <1>8
<1>10. Start(c, k + 1) = Start(c, k) + c[k].len + 1
  BY <1>3, <1>8
<1>11. c[j + 1].len = u[j].len + Indent /\ Start(u, j + 1) = Start(u, j) + u[j].len + 1
  BY <1>1, <1>2, <1>8
<1>12. Start(u, j) \in Nat /\ u[j].len \in Nat /\ j \in Nat
  BY <1>2, <1>8
<1>13. Start(c, k) = 8 + Start(u, j) + Indent * (j - 1) /\ c[k].len = u[j].len + Indent
  BY <1>8, <1>9, <1>11
<1>14. Start(u, k) = Start(u, j) + u[j].len + 1
  BY <1>8, <1>11
<1>15. Start(c, k + 1) = 8 + Start(u, k) + Indent * (k - 1)
  <2> DEFINE a == Start(u, j)
             l == u[j].len
             b == Start(c, k)
             m == c[k].len
             e == Start(u, k)
             g == Start(c, k + 1)
  <2>1. a \in Nat /\ l \in Nat /\ j \in Nat /\ k = j + 1
    BY <1>8, <1>12
  <2>2. b = 8 + a + 4 * (j - 1) /\ m = l + 4 /\ e = a + l + 1 /\ g = b + m + 1
    BY <1>10, <1>13, <1>14 DEF Indent
  <2> HIDE DEF a, l, b, m, e, g
  <2>3. g = 8 + e + 4 * (k - 1)
    BY <2>1, <2>2
  <2> QED BY <2>3 DEF g, e, Indent
<1> QED BY <1>6, <1>15

\* The opening fence and the indented lines.
LEMMA OpenedLength ==
    ASSUME NEW doc, Markdown(doc), NEW budget \in Nat, budget >= WrapperLength,
           NEW x, Shaped(x), x.len = 7
    PROVE  Length(<<x>> \o Inside(doc, budget)) + 5 <= budget
<1> DEFINE k == Takes(doc, budget)
           u == UnicodePrefix(doc, k)
           s == Inside(doc, budget)
           c == <<x>> \o s
           t == Len(u)
           d == Dangles(doc, budget)
<1>1. k \in 0..Length(doc) /\ Used(doc, k) <= budget /\ Length(doc) \in Nat /\ k \in Nat
  BY TakesFits, LengthIs
<1> HIDE DEF k
<1>2. Markdown(u) /\ Length(u) = k
  BY <1>1, PrefixIsMarkdown
<1>3. Markdown(s) /\ Len(s) = t
      /\ \A i \in 1..t : s[i].len = IF i = t /\ u[i].len = 0 THEN d ELSE u[i].len + Indent
  BY InsideIs DEF k
<1>4. d = IF Used(doc, k) + Indent <= budget THEN Indent ELSE 0
  BY <1>2 DEF Dangles, k
<1> HIDE DEF u, s, d
<1>5. Markdown(c) /\ Len(c) = t + 1 /\ c[1] = x /\ \A i \in 1..t : c[i + 1] = s[i]
  BY <1>3, Joined
<1> HIDE DEF c
<1>6. t \in Nat /\ (\A i \in 1..t : u[i].len \in Nat) /\ t = Len(u)
  BY <1>2, MarkdownIs
<1>7. Length(c) = Start(c, t + 1) + c[t + 1].len
  <2>1. t + 1 # 0
    BY <1>6
  <2> QED BY <1>5, <2>1, LengthIs
<1>8. CASE t = 0
  <2>1. Start(c, 0 + 1) = 0
    BY <1>5, StartsAre
  <2> QED BY <1>5, <1>7, <1>8, <2>1 DEF WrapperLength, c, s
<1>9. CASE t # 0
  <2> HIDE DEF t
  <2>1. t \in 1..t /\ t \in 1..t + 1
    BY <1>6, <1>9
  <2>2. Start(c, t + 1) = 8 + Start(u, t) + Indent * (t - 1)
    <3>1. \A i \in 1..t - 1 : c[i + 1].len = u[i].len + Indent
      <4> TAKE i \in 1..t - 1
      <4>1. i \in 1..t /\ i # t
        BY <1>6
      <4> QED BY <1>3, <1>5, <4>1
    <3>2. c[1].len = 7
      BY <1>5
    <3>3. \A i \in 1..t : Start(c, i + 1) = 8 + Start(u, i) + Indent * (i - 1)
      <4>1. Markdown(c) /\ Len(c) = Len(u) + 1 /\ \A i \in 1..Len(u) - 1 : c[i + 1].len = u[i].len + Indent
        BY <1>5, <3>1 DEF t
      <4>2. \A i \in 1..Len(u) : Start(c, i + 1) = 8 + Start(u, i) + Indent * (i - 1)
        BY <1>2, <3>2, <4>1, InsideStarts
      <4> QED BY <4>2 DEF t
    <3> QED BY <2>1, <3>3
  <2>3. k = Start(u, t) + u[t].len /\ Start(u, t) \in Nat /\ u[t].len \in Nat
    BY <1>2, <1>6, <1>9, <2>1, LengthIs, StartsAre
  <2>4. c[t + 1].len = IF u[t].len = 0 THEN d ELSE u[t].len + Indent
    BY <1>3, <1>5, <2>1
  <2>5. Cardinality({i \in DOMAIN doc : Start(doc, i) < k}) = IF u[t].len = 0 THEN t - 1 ELSE t
    <3>1. u = UnicodePrefix(doc, k) /\ Len(u) # 0
      BY <1>6, <1>9 DEF u
    <3>2. Cardinality({i \in DOMAIN doc : Start(doc, i) < k}) = IF u[Len(u)].len = 0 THEN Len(u) - 1 ELSE Len(u)
      BY <1>1, <3>1, LinesBefore
    <3> QED BY <1>6, <3>2
  <2>6. Used(doc, k) = 13 + k + 4 * (IF u[t].len = 0 THEN t - 1 ELSE t)
    BY <2>5 DEF Used, WrapperLength, Indent
  <2> DEFINE a == Start(u, t)
             l == u[t].len
             v == Used(doc, k)
  <2>7. a \in Nat /\ l \in Nat /\ k = a + l /\ v = 13 + k + 4 * (IF l = 0 THEN t - 1 ELSE t) /\ v <= budget
    BY <1>1, <2>3, <2>6
  <2>8. Length(c) = 8 + a + 4 * (t - 1) + IF l = 0 THEN d ELSE l + 4
    BY <1>7, <2>2, <2>4 DEF Indent
  <2>9. d = IF v + 4 <= budget THEN 4 ELSE 0
    BY <1>4 DEF Indent
  <2> HIDE DEF a, l, v
  <2>10. Length(c) + 5 <= budget
    <3>1. CASE l = 0
      BY <1>1, <1>6, <2>7, <2>8, <2>9, <3>1
    <3>2. CASE l # 0
      BY <1>1, <1>6, <2>7, <2>8, <3>2
    <3> QED BY <3>1, <3>2
  <2> QED BY <2>10 DEF c, s
<1> QED BY <1>8, <1>9

\* The fallback fits its budget, ends outside of its fences and has no disputed line.
LEMMA FallbackFits ==
    ASSUME NEW doc, Markdown(doc), NEW budget \in Nat, budget >= WrapperLength, NEW fence
    PROVE  /\ Outside(FencedBlockFallback(doc, budget, fence)) /\ Undisputed(FencedBlockFallback(doc, budget, fence))
           /\ Length(FencedBlockFallback(doc, budget, fence)) <= budget
<1> DEFINE w == Wrapper(fence)
           x == Fence(w, 3, 4)
           y == Fence(w, 3, 0)
           s == Inside(doc, budget)
           c == <<x>> \o s
           e == Append(c, y)
           n == Len(s)
           f == OpenFence(c)
<1>1. x.kind = "fence" /\ x.len = 7 /\ x.size = 3 /\ x.char = w /\ x # Blank
      /\ y.kind = "fence" /\ y.len = 3 /\ y.size = 3 /\ y.char = w /\ x.indent = 0 /\ y.indent = 0
      /\ ~ x.ticks /\ ~ y.ticks
  BY DEF Fence, Delimiter, Blank, Plain
<1>2. Shaped(x) /\ Shaped(y) /\ ~ Disputed(x) /\ ~ Disputed(y)
  BY <1>1 DEF Shaped, Disputed
<1> HIDE DEF x, y
<1>3. Markdown(s) /\ n \in Nat /\ \A i \in 1..n : s[i].kind # "fence" /\ ~ Disputed(s[i])
  BY InsideIs, MarkdownIs
<1>4. Length(c) + 5 <= budget
  BY <1>1, <1>2, OpenedLength
<1> HIDE DEF s
<1>5. Markdown(c) /\ Len(c) = n + 1 /\ c[1] = x /\ \A i \in 1..n : c[i + 1] = s[i]
  BY <1>2, <1>3, Joined
<1>6. FencedBlockFallback(doc, budget, fence) = Append(e, Blank)
  <2>1. FencedBlockFallback(doc, budget, fence) = c \o <<y, Blank>>
    BY FallbackIs DEF s, x, y
  <2> DEFINE S == ToSet(c) \cup {y, Blank}
  <2> HIDE DEF c
  <2>2. c \in Seq(S) /\ y \in S /\ Blank \in S
    <3>1. c \in Seq(ToSet(c)) /\ ToSet(c) \subseteq S
      BY <1>5 DEF Markdown
    <3> QED BY <3>1, SeqMonotonic
  <2> HIDE DEF S
  <2>3. \A p, q \in S : c \o <<p, q>> = Append(Append(c, p), q)
    BY <2>2
  <2> QED BY <2>1, <2>2, <2>3
<1> HIDE DEF c, n
<1>7. Markdown(e) /\ Len(e) = (n + 1) + 1 /\ Length(e) = 3 + (Length(c) + 1)
  <2>1. n + 1 # 0 /\ Len(c) # 0
    BY <1>3, <1>5
  <2> QED BY <1>1, <1>2, <1>5, <2>1, OneMore, OneMoreLength
<1>8. f[(n + 1) + 1] = x
  <2>1. Tracks(f, c)
    BY <1>5, OpenFenceIs
  <2> HIDE DEF f
  <2>2. 1 \in 1..Len(c) /\ f[1] = Blank /\ Len(c) \in Nat /\ Len(c) + 1 = (n + 1) + 1
    BY <1>3, <1>5, <2>1 DEF Tracks
  <2>3. f[1 + 1] = AfterDelimiter(f[1], c[1])
    BY <2>1, <2>2 DEF Tracks
  <2>4. f[2] = x
    BY <1>1, <1>5, <2>2, <2>3 DEF AfterDelimiter
  <2> DEFINE b == (n + 1) + 1
             a == 2
  <2>5. a \in 1..Len(c) + 1 /\ b \in a..Len(c) + 1
    BY <1>3, <2>2
  <2>6. \A i \in a..b - 1 : c[i].kind # "fence"
    <3> TAKE i \in a..b - 1
    <3>1. i - 1 \in 1..n /\ (i - 1) + 1 = i
      BY <1>3
    <3>2. c[(i - 1) + 1] = s[i - 1]
      BY <1>5, <3>1
    <3> QED BY <1>3, <3>1, <3>2
  <2> HIDE DEF a, b
  <2>7. f[b] = f[a]
    BY <2>1, <2>2, <2>5, <2>6, TracksOver
  <2> QED BY <2>4, <2>7 DEF a, b
<1>9. Outside(e)
  <2>1. OpenFence(e)[Len(c) + 2] = AfterDelimiter(f[Len(c) + 1], y)
    BY <1>2, <1>5, OneMoreTracks
  <2>2. AfterDelimiter(x, y) = Blank
    BY <1>1 DEF AfterDelimiter, ClosesFence
  <2>3. Len(c) + 2 = Len(e) + 1 /\ Len(c) + 1 = (n + 1) + 1
    BY <1>3, <1>5, <1>7
  <2>4. OpenFence(e)[Len(e) + 1] = Blank
    BY <1>8, <2>1, <2>2, <2>3
  <2> QED BY <1>7, <2>4 DEF Outside
<1>13. Undisputed(e)
  <2>1. \A i \in 1..Len(c) : ~ Disputed(c[i])
    <3> TAKE i \in 1..Len(c)
    <3>1. CASE i = 1
      BY <1>2, <1>5, <3>1
    <3>2. CASE i # 1
      <4>1. i - 1 \in 1..n /\ (i - 1) + 1 = i
        BY <1>3, <1>5, <3>2
      <4>2. c[(i - 1) + 1] = s[i - 1]
        BY <1>5, <4>1
      <4> QED BY <1>3, <4>1, <4>2
    <3> QED BY <3>1, <3>2
  <2>2. Undisputed(c)
    BY <2>1 DEF Undisputed
  <2> QED BY <1>2, <1>5, <2>2, OneMoreUndisputed
<1> HIDE DEF e
<1>10. Outside(Append(e, Blank)) /\ Undisputed(Append(e, Blank))
  BY <1>7, <1>9, <1>13, OneMoreOutside, OneMoreUndisputed, ShapedLines
<1>11. Length(Append(e, Blank)) = 0 + (Length(e) + 1)
  <2>1. Len(e) # 0
    BY <1>3, <1>7
  <2>2. Blank.len = 0
    BY DEF Blank, Plain
  <2> QED BY <1>7, <2>1, <2>2, OneMoreLength, ShapedLines
<1>12. Length(Append(e, Blank)) <= budget
  <2>1. Length(c) \in Nat
    BY <1>5, LengthIs
  <2> QED BY <1>4, <1>7, <1>11, <2>1
<1> QED BY <1>6, <1>10, <1>12

----------------------------------------------------------------------------
(* The projection.                                                         *)

\* Where the candidate is cut is a number of code points.
LEMMA CutoffIsNatural ==
    ASSUME NEW doc, Markdown(doc), Cutoff(doc) # 0
    PROVE  Cutoff(doc) \in Nat
<1>1. CutPoint(doc, Cutoff(doc))
  BY CutoffIs
<1>2. PICK j \in 1..Len(doc) : Cutoff(doc) = Start(doc, j)
  BY <1>1 DEF CutPoint
<1>3. j \in 1..Len(doc) + 1
  BY MarkdownIs
<1> QED BY <1>2, <1>3, StartsAre

\* What is shown of a README ends outside of every fence and leaves room for the marker.
LEMMA BodyFits ==
    ASSUME NEW doc, Markdown(doc)
    PROVE  /\ Outside(Body(doc)) /\ Length(Body(doc)) <= Maximum - MarkerBudget
           /\ FencesArePlain(Candidate(doc)) => Undisputed(Body(doc))
<1> DEFINE m == Maximum - MarkerBudget
           d == Candidate(doc)
           open == Boundaries(d).open
<1>1. m \in Nat /\ m >= WrapperLength
  BY ProjectionAssumption DEF WrapperLength, Indent
<1>2. d = UnicodePrefix(doc, m)
  BY DEF Candidate
<1>3. Body(doc) = IF Cutoff(d) # 0 THEN UnicodePrefix(d, Cutoff(d))
                  ELSE IF open # Blank THEN FencedBlockFallback(d, m, open)
                  ELSE d
  BY DEF Body
<1> HIDE DEF m, d
<1>4. Markdown(d) /\ Length(d) <= m /\ Length(d) \in Nat
  <2>1. Markdown(d) /\ Length(d) = IF m < Length(doc) THEN m ELSE Length(doc)
    BY <1>1, <1>2, PrefixIsMarkdown
  <2>2. Length(doc) \in Nat
    BY LengthIs
  <2> QED BY <1>1, <2>1, <2>2
<1>5. CASE Cutoff(d) # 0
  <2>1. Outside(UnicodePrefix(d, Cutoff(d)))
    BY <1>4, <1>5, CutoffOutside
  <2>2. Cutoff(d) \in Nat
    BY <1>4, <1>5, CutoffIsNatural
  <2>3. Length(UnicodePrefix(d, Cutoff(d))) = IF Cutoff(d) < Length(d) THEN Cutoff(d) ELSE Length(d)
    BY <1>4, <2>2, PrefixIsMarkdown
  <2>4. Length(UnicodePrefix(d, Cutoff(d))) <= m
    BY <1>1, <1>4, <2>2, <2>3
  <2>5. FencesArePlain(d) => Undisputed(UnicodePrefix(d, Cutoff(d)))
    BY <1>4, <2>2, PlainIsUndisputed, PrefixUndisputed
  <2> QED BY <1>3, <1>5, <2>1, <2>4, <2>5 DEF m, d
<1>6. CASE Cutoff(d) = 0 /\ open # Blank
  <2>1. Outside(FencedBlockFallback(d, m, open)) /\ Undisputed(FencedBlockFallback(d, m, open))
        /\ Length(FencedBlockFallback(d, m, open)) <= m
    BY <1>1, <1>4, FallbackFits
  <2> QED BY <1>3, <1>6, <2>1 DEF m
<1>7. CASE Cutoff(d) = 0 /\ open = Blank
  <2>1. open = OpenFence(d)[Len(d) + 1]
    BY <1>4, BoundariesAre
  <2>2. Outside(d)
    BY <1>4, <1>7, <2>1 DEF Outside
  <2>3. FencesArePlain(d) => Undisputed(d)
    BY <1>4, PlainIsUndisputed
  <2> QED BY <1>3, <1>4, <1>7, <2>2, <2>3 DEF m, d
<1> QED BY <1>5, <1>6, <1>7

\* The truncation marker of a README that is too long is outside of every fence CommonMark sees
\* in the projection, if the lines on which CommonMark and fenceDelimiter disagree are inside of fences.
THEOREM MarkerIsOutsideFences == ProjectionSpec => []MarkerIsVisible
<1>1. Written /\ PrefixIsEnough => MarkerIsVisible
  <2> SUFFICES ASSUME Written, PrefixIsEnough, OverLimit, FencesArePlain(Candidate(readme))
               PROVE  ~ EndsInFence(Front(LoadIndex(readme)))
    BY DEF MarkerIsVisible
  <2>1. Markdown(readme) /\ Length(readme) \in Nat /\ Maximum \in Nat
    BY WrittenIsMarkdown, LengthIs, ProjectionAssumption
  <2>2. LoadIndex(readme) = AppendTruncationMarker(Body(readme))
    BY <2>1 DEF PrefixIsEnough, ProjectIndex, OverLimit
  <2>3. Outside(Body(readme)) /\ Undisputed(Body(readme))
    BY <2>1, BodyFits
  <2> QED BY <2>2, <2>3, MarkerIsOutside
<1> QED BY <1>1, WrittenInvariant, PrefixSuffices, PTL

\* Trimming does not lengthen.
LEMMA TrimShortens ==
    ASSUME NEW doc, Markdown(doc)
    PROVE  Length(TrimEnd(doc)) <= Length(doc)
<1> DEFINE u == TrimEnd(doc)
           n == Len(doc)
<1>1. PICK k \in 0..n : Begins(u, doc, k)
  BY TrimIs
<1>2. Length(u) \in Nat /\ Length(doc) \in Nat /\ n \in Nat /\ k \in Nat
  <2>1. Markdown(u)
    BY <1>1 DEF Begins
  <2> HIDE DEF u
  <2> QED BY <1>1, <2>1, LengthIs, MarkdownIs
<1>3. Markdown(u) /\ Len(u) = k /\ \A i \in 1..k : u[i] = doc[i]
  BY <1>1 DEF Begins
<1> HIDE DEF u, n
<1>4. CASE k = 0
  <2>1. Length(u) = 0
    BY <1>3, <1>4, LengthIs
  <2> QED BY <1>2, <2>1 DEF u
<1>5. CASE k # 0
  <2>1. k \in 1..k /\ k \in 1..n /\ k \in 1..n + 1 /\ n \in 1..n /\ n \in 1..n + 1 /\ k \in 1..k + 1
    BY <1>1, <1>2, <1>5
  <2>2. Length(u) = Start(u, k) + u[k].len /\ Length(doc) = Start(doc, n) + doc[n].len
    BY <1>3, <1>5, <2>1, LengthIs DEF n
  <2>3. Start(u, k) = Start(doc, k)
    <3>1. k <= Len(doc) /\ k <= Len(u)
      BY <1>1, <1>2, <1>3 DEF n
    <3>2. \A i \in 1..k : u[i].len = doc[i].len
      BY <1>3
    <3>3. \A i \in 1..k + 1 : Start(u, i) = Start(doc, i)
      BY <1>2, <1>3, <3>1, <3>2, SameStarts
    <3> QED BY <2>1, <3>3
  <2>4. Start(doc, k) \in Nat /\ Start(doc, n) \in Nat /\ doc[k].len \in Nat /\ doc[n].len \in Nat
    BY <2>1, StartsAre, MarkdownIs DEF n
  <2>5. k < n => Start(doc, k) + doc[k].len + 1 <= Start(doc, n)
    BY <2>1, StartsGrow DEF n
  <2>6. k < n \/ k = n
    BY <1>1, <1>2
  <2>7. u[k] = doc[k]
    BY <1>3, <2>1
  <2>8. Start(u, k) + u[k].len <= Start(doc, n) + doc[n].len
    <3>1. CASE k = n
      BY <2>3, <2>4, <2>7, <3>1
    <3>2. CASE k < n
      BY <2>3, <2>4, <2>5, <2>7, <3>2
    <3> QED BY <2>6, <3>1, <3>2
  <2> QED BY <2>2, <2>8 DEF u
<1> QED BY <1>4, <1>5

\* The marker takes what is kept for it.
LEMMA MarkerTakesItsBudget ==
    ASSUME NEW body, Markdown(body), Length(body) <= Maximum - MarkerBudget
    PROVE  Length(AppendTruncationMarker(body)) <= Maximum
<1> DEFINE t == TrimEnd(body)
           s == IF IsBlank(body) THEN <<>> ELSE Append(t, Blank)
           v == Append(s, Marker)
<1>1. Markdown(t) /\ Length(t) \in Nat /\ Length(t) <= Length(body) /\ Len(t) \in Nat
  <2>1. Markdown(t)
    BY TrimIs DEF Begins
  <2>2. Length(t) <= Length(body)
    BY TrimShortens
  <2> HIDE DEF t
  <2> QED BY <2>1, <2>2, LengthIs, MarkdownIs
<1>2. IsBlank(body) <=> t = <<>>
  BY DEF IsBlank
<1> HIDE DEF t
<1>3. AppendTruncationMarker(body) = Append(v, Blank)
  BY MarkerIsAppended DEF t
<1>4. Blank.len = 0 /\ Marker.len = MarkerBudget - 3
  BY DEF Blank, Marker, Plain
<1>5. Maximum \in Nat /\ MarkerBudget \in Nat /\ MarkerBudget > 3 /\ Maximum > MarkerBudget /\ Length(body) \in Nat
  BY ProjectionAssumption, LengthIs DEF WrapperLength, Indent
<1>6. CASE IsBlank(body)
  <2>1. s = <<>>
    BY <1>6
  <2>2. Markdown(s) /\ Len(s) = 0
    BY <2>1, EmptyOutside DEF Outside
  <2> HIDE DEF s
  <2>3. Markdown(v) /\ Len(v) = 1 /\ Length(v) = MarkerBudget - 3
    <3>1. Markdown(v) /\ Len(v) = Len(s) + 1
      BY <2>2, OneMore, ShapedLines
    <3>2. Length(v) = Marker.len + (IF Len(s) = 0 THEN 0 ELSE Length(s) + 1)
      BY <2>2, OneMoreLength, ShapedLines
    <3> HIDE DEF v
    <3> QED BY <1>4, <1>5, <2>2, <3>1, <3>2
  <2> HIDE DEF v
  <2>4. Length(Append(v, Blank)) = 0 + (Length(v) + 1)
    BY <1>4, <2>3, OneMoreLength, ShapedLines
  <2> QED BY <1>3, <1>5, <2>3, <2>4
<1>7. CASE ~ IsBlank(body)
  <2>1. s = Append(t, Blank)
    BY <1>7
  <2>2. Len(t) # 0
    BY <1>1, <1>2, <1>7, EmptySeq DEF Markdown
  <2>3. Markdown(s) /\ Len(s) = Len(t) + 1 /\ Length(s) = 0 + (Length(t) + 1)
    <3> HIDE DEF s
    <3>1. Markdown(s) /\ Len(s) = Len(t) + 1
      BY <1>1, <2>1, OneMore, ShapedLines
    <3>2. Length(s) = Blank.len + (IF Len(t) = 0 THEN 0 ELSE Length(t) + 1)
      BY <1>1, <2>1, OneMoreLength, ShapedLines
    <3> QED BY <1>1, <1>4, <2>2, <3>1, <3>2
  <2> HIDE DEF s
  <2>4. Markdown(v) /\ Len(v) = Len(s) + 1 /\ Length(v) = MarkerBudget - 3 + (Length(s) + 1)
    <3>1. Len(s) # 0
      BY <1>1, <2>3
    <3>2. Markdown(v) /\ Len(v) = Len(s) + 1
      BY <2>3, OneMore, ShapedLines
    <3>3. Length(v) = Marker.len + (IF Len(s) = 0 THEN 0 ELSE Length(s) + 1)
      BY <2>3, OneMoreLength, ShapedLines
    <3> HIDE DEF v
    <3> QED BY <1>4, <3>1, <3>2, <3>3
  <2> HIDE DEF v
  <2>5. Length(Append(v, Blank)) = 0 + (Length(v) + 1)
    <3>1. Len(v) # 0
      BY <1>1, <2>3, <2>4
    <3> QED BY <1>4, <2>4, <3>1, OneMoreLength, ShapedLines
  <2> QED BY <1>1, <1>3, <1>5, <2>3, <2>4, <2>5
<1> QED BY <1>6, <1>7

\* The projection of a README fits the budget, whatever its author writes: the
\* error of an over-long projection is never thrown.
THEOREM NothingIsOverBudget == ProjectionSpec => []ProjectionFits
<1>1. Written /\ PrefixIsEnough => ProjectionFits
  <2> SUFFICES ASSUME Written, PrefixIsEnough PROVE Length(LoadIndex(readme)) <= Maximum
    BY DEF ProjectionFits
  <2>1. Markdown(readme)
    BY WrittenIsMarkdown
  <2>2. LoadIndex(readme) = ProjectIndex(readme)
    BY DEF PrefixIsEnough
  <2>3. CASE Length(readme) <= Maximum
    BY <2>2, <2>3 DEF ProjectIndex
  <2>4. CASE ~ Length(readme) <= Maximum
    <3>1. LoadIndex(readme) = AppendTruncationMarker(Body(readme))
      BY <2>2, <2>4 DEF ProjectIndex
    <3>2. Markdown(Body(readme)) /\ Length(Body(readme)) <= Maximum - MarkerBudget
      BY <2>1, BodyFits DEF Outside
    <3> QED BY <3>1, <3>2, MarkerTakesItsBudget
  <2> QED BY <2>3, <2>4
<1> QED BY <1>1, WrittenInvariant, PrefixSuffices, PTL

----------------------------------------------------------------------------
(***************************************************************************)
(* HistoryShadow                                                           *)
(***************************************************************************)

\* R is a strict total order on S.
Orders(R, S) ==
    /\ \A x \in S : <<x, x>> \notin R
    /\ \A x, y, z \in S : <<x, y>> \in R /\ <<y, z>> \in R => <<x, z>> \in R
    /\ \A x, y \in S : x # y => <<x, y>> \in R \/ <<y, x>> \in R

\* An arrangement has every element of the set once, and those that R puts first before.
LEMMA ArrangedIsBijection ==
    ASSUME NEW S, IsFiniteSet(S), NEW R, Orders(R, S)
    PROVE  /\ Cardinality(S) \in Nat
           /\ Arranged(S, R) \in [1..Cardinality(S) -> S]
           /\ \A x \in S : \E n \in 1..Cardinality(S) : Arranged(S, R)[n] = x
           /\ \A m, n \in 1..Cardinality(S) : Arranged(S, R)[m] = Arranged(S, R)[n] => m = n
           /\ \A m, n \in 1..Cardinality(S) : m < n => <<Arranged(S, R)[m], Arranged(S, R)[n]>> \in R
           /\ \A n \in 1..Cardinality(S) : Cardinality({y \in S : <<y, Arranged(S, R)[n]>> \in R}) = n - 1
           /\ \A x, y \in S : Cardinality({z \in S : <<z, x>> \in R}) = Cardinality({z \in S : <<z, y>> \in R}) => x = y
<1> DEFINE Under(x) == {y \in S : <<y, x>> \in R}
           N == Cardinality(S)
           rank == [x \in S |-> Cardinality(Under(x)) + 1]
           A == Arranged(S, R)
<1>1. N \in Nat
  BY FS_CardinalityType
<1>2. \A x \in S : IsFiniteSet(Under(x)) /\ Cardinality(Under(x)) \in 0..N-1
  <2> TAKE x \in S
  <2>1. Under(x) \in SUBSET S /\ x \notin Under(x)
    BY DEF Orders
  <2> HIDE DEF Under
  <2>2. IsFiniteSet(Under(x)) /\ Cardinality(Under(x)) <= N /\ Cardinality(Under(x)) # N
    BY <2>1, FS_Subset
  <2>3. Cardinality(Under(x)) \in Nat
    BY <2>2, FS_CardinalityType
  <2> QED BY <1>1, <2>2, <2>3
<1>3. \A x, y \in S : <<x, y>> \in R => Cardinality(Under(x)) < Cardinality(Under(y))
  <2> SUFFICES ASSUME NEW x \in S, NEW y \in S, <<x, y>> \in R
               PROVE  Cardinality(Under(x)) < Cardinality(Under(y))
    OBVIOUS
  <2>1. Under(x) \in SUBSET Under(y) /\ x \in Under(y) /\ x \notin Under(x)
    BY DEF Orders
  <2> HIDE DEF Under
  <2>2. IsFiniteSet(Under(y)) /\ Cardinality(Under(x)) \in Nat /\ Cardinality(Under(y)) \in Nat
    BY <1>1, <1>2
  <2>3. Cardinality(Under(x)) <= Cardinality(Under(y)) /\ Cardinality(Under(x)) # Cardinality(Under(y))
    BY <2>1, <2>2, FS_Subset
  <2> QED BY <2>2, <2>3
<1>4. rank \in [S -> 1..N] /\ \A x \in S : rank[x] = Cardinality(Under(x)) + 1
  <2> HIDE DEF Under, N
  <2> QED BY <1>1, <1>2
<1>5. \A x, y \in S : <<x, y>> \in R => rank[x] < rank[y]
  <2> HIDE DEF Under, rank, N
  <2> QED BY <1>1, <1>2, <1>3, <1>4
<1>6. \A x, y \in S : rank[x] = rank[y] => x = y
  <2> SUFFICES ASSUME NEW x \in S, NEW y \in S, rank[x] = rank[y], x # y PROVE FALSE
    OBVIOUS
  <2>1. <<x, y>> \in R \/ <<y, x>> \in R
    BY DEF Orders
  <2>2. rank[x] \in 1..N /\ rank[y] \in 1..N
    BY <1>4
  <2> HIDE DEF rank
  <2> QED BY <1>1, <1>5, <2>1, <2>2
<1>7. \A n \in 1..N : \E x \in S : rank[x] = n
  <2> HIDE DEF rank
  <2>1. IsFiniteSet(1..N) /\ Cardinality(1..N) = N
    BY <1>1, FS_Interval
  <2>2. rank \in Injection(S, 1..N)
    BY <1>4, <1>6 DEF Injection, IsInjective
  <2>3. rank \in Surjection(S, 1..N)
    BY <2>1, <2>2, FS_Injection
  <2> QED BY <2>3 DEF Surjection
<1> DEFINE at(n) == CHOOSE x \in S : Cardinality(Under(x)) = n - 1
<1>8. A = [n \in 1..N |-> at(n)]
  BY DEF Arranged
<1>9. \A n \in 1..N : A[n] \in S /\ rank[A[n]] = n
  <2> TAKE n \in 1..N
  <2>1. PICK x \in S : rank[x] = n
    BY <1>7
  <2> HIDE DEF Under, rank, A, at
  <2>0. A[n] = at(n)
    BY <1>8
  <2>2. Cardinality(Under(x)) = n - 1
    BY <1>1, <1>2, <1>4, <2>1
  <2>3. A[n] \in S /\ Cardinality(Under(A[n])) = n - 1
    BY <2>0, <2>2 DEF at
  <2> QED BY <1>4, <2>3
<1>10. A \in [1..N -> S]
  <2>1. A = [n \in 1..N |-> A[n]]
    <3> HIDE DEF A, at, N
    <3> QED BY <1>8
  <2> HIDE DEF A, N
  <2> QED BY <1>9, <2>1
<1>14. \A n \in 1..N : Cardinality(Under(A[n])) = n - 1
  <2> TAKE n \in 1..N
  <2>1. A[n] \in S /\ rank[A[n]] = n
    BY <1>9
  <2> HIDE DEF A, N, rank, Under
  <2>2. rank[A[n]] = Cardinality(Under(A[n])) + 1 /\ Cardinality(Under(A[n])) \in 0..N - 1
    BY <1>2, <1>4, <2>1
  <2> QED BY <1>1, <2>1, <2>2
<1>15. \A x, y \in S : Cardinality(Under(x)) = Cardinality(Under(y)) => x = y
  <2> HIDE DEF A, N, rank, Under
  <2> QED BY <1>4, <1>6
<1> HIDE DEF A, N, rank
<1>16. \A n \in 1..N : Cardinality({y \in S : <<y, A[n]>> \in R}) = n - 1
  BY <1>14
<1>17. \A x, y \in S : Cardinality({z \in S : <<z, x>> \in R}) = Cardinality({z \in S : <<z, y>> \in R}) => x = y
  BY <1>15
<1> HIDE DEF Under
<1>11. \A x \in S : A[rank[x]] = x /\ rank[x] \in 1..N
  BY <1>4, <1>6, <1>9
<1>12. \A m, n \in 1..N : m < n => <<A[m], A[n]>> \in R
  <2> SUFFICES ASSUME NEW m \in 1..N, NEW n \in 1..N, m < n PROVE <<A[m], A[n]>> \in R
    OBVIOUS
  <2>1. A[m] # A[n]
    BY <1>9
  <2>2. ~ (<<A[n], A[m]>> \in R)
    BY <1>1, <1>5, <1>9
  <2>3. \A x, y \in S : x # y => <<x, y>> \in R \/ <<y, x>> \in R
    BY DEF Orders
  <2> QED BY <1>9, <2>1, <2>2, <2>3
<1>13. (\A x \in S : \E n \in 1..N : A[n] = x) /\ \A m, n \in 1..N : A[m] = A[n] => m = n
  BY <1>9, <1>11
<1> QED BY <1>1, <1>10, <1>12, <1>13, <1>16, <1>17 DEF A, N

IsSequence(s) == s \in Seq(ToSet(s))

\* What the positions of a sequence are.
LEMMA SequenceShape ==
    ASSUME NEW s, IsSequence(s)
    PROVE  Len(s) \in Nat /\ DOMAIN s = 1..Len(s) /\ s = [i \in 1..Len(s) |-> s[i]] /\ IsFiniteSet(DOMAIN s)
<1>1. Len(s) \in Nat /\ DOMAIN s = 1..Len(s) /\ s \in [1..Len(s) -> ToSet(s)]
  BY LenProperties DEF IsSequence
<1> QED BY <1>1, FS_Interval

\* A function on the first numbers is a sequence.
LEMMA FunctionIsSequence ==
    ASSUME NEW n \in Nat, NEW f, f = [i \in 1..n |-> f[i]]
    PROVE  IsSequence(f) /\ Len(f) = n /\ DOMAIN f = 1..n
<1>1. DOMAIN f = 1..n /\ \A i \in 1..n : f[i] \in ToSet(f)
  BY DEF ToSet
<1>2. f \in Seq(ToSet(f))
  <2> DEFINE T == ToSet(f)
  <2>1. f \in [1..n -> T]
    BY <1>1
  <2> HIDE DEF T
  <2>2. f \in Seq(T)
    BY <2>1
  <2> QED BY <2>2 DEF T
<1>3. Len(f) \in Nat /\ DOMAIN f = 1..Len(f)
  BY <1>2, LenProperties
<1>4. Len(f) = n
  BY <1>1, <1>3
<1> QED BY <1>1, <1>2, <1>4 DEF IsSequence


----------------------------------------------------------------------------
(* Positions in ascending order.                                           *)

Below(I) == {p \in I \X I : p[1] < p[2]}

LEMMA PositionsAre ==
    ASSUME NEW I, I \subseteq Nat, IsFiniteSet(I)
    PROVE  LET at == Arranged(I, Below(I))
               m == Cardinality(I)
           IN /\ m \in Nat /\ at \in [1..m -> I]
              /\ \A x \in I : \E n \in 1..m : at[n] = x
              /\ \A n, k \in 1..m : at[n] = at[k] => n = k
              /\ \A n, k \in 1..m : n < k => at[n] < at[k]
              /\ \A n \in 1..m : Cardinality({y \in I : y < at[n]}) = n - 1
              /\ \A x, y \in I : Cardinality({z \in I : z < x}) = Cardinality({z \in I : z < y}) => x = y
<1> DEFINE R == Below(I)
           at == Arranged(I, R)
           m == Cardinality(I)
<1>1. \A x, y \in I : <<x, y>> \in R <=> x < y
  BY DEF Below
<1>2. \A x, y, z \in I : ~ (x < x) /\ (x < y /\ y < z => x < z) /\ (x # y => x < y \/ y < x)
  OBVIOUS
<1> HIDE DEF R
<1>3. Orders(R, I)
  BY <1>1, <1>2 DEF Orders
<1>4. /\ m \in Nat /\ at \in [1..m -> I]
      /\ \A x \in I : \E n \in 1..m : at[n] = x
      /\ \A n, k \in 1..m : at[n] = at[k] => n = k
      /\ \A n, k \in 1..m : n < k => <<at[n], at[k]>> \in R
      /\ \A n \in 1..m : Cardinality({y \in I : <<y, at[n]>> \in R}) = n - 1
      /\ \A x, y \in I : Cardinality({z \in I : <<z, x>> \in R}) = Cardinality({z \in I : <<z, y>> \in R}) => x = y
  BY <1>3, ArrangedIsBijection
<1> HIDE DEF at, m
<1>5. \A x \in I : {y \in I : <<y, x>> \in R} = {y \in I : y < x}
  BY <1>1
<1>6. \A n, k \in 1..m : n < k => at[n] < at[k]
  BY <1>1, <1>4
<1>7. \A n \in 1..m : Cardinality({y \in I : y < at[n]}) = n - 1
  <2> TAKE n \in 1..m
  <2>1. at[n] \in I
    BY <1>4
  <2>2. {y \in I : <<y, at[n]>> \in R} = {y \in I : y < at[n]}
    BY <1>5, <2>1
  <2> QED BY <1>4, <2>2
<1>8. \A x, y \in I : Cardinality({z \in I : z < x}) = Cardinality({z \in I : z < y}) => x = y
  <2> TAKE x, y \in I
  <2>1. {z \in I : <<z, x>> \in R} = {z \in I : z < x} /\ {z \in I : <<z, y>> \in R} = {z \in I : z < y}
    BY <1>5
  <2>2. Cardinality({z \in I : <<z, x>> \in R}) = Cardinality({z \in I : <<z, y>> \in R}) => x = y
    BY <1>4
  <2> QED BY <2>1, <2>2
<1> QED BY <1>4, <1>6, <1>7, <1>8 DEF at, m, R

\* What is picked: the elements at the positions.
LEMMA PickedIs ==
    ASSUME NEW s, IsSequence(s), NEW I, I \subseteq DOMAIN s
    PROVE  LET at == Arranged(I, Below(I))
               p == Picked(s, I)
           IN /\ IsFiniteSet(I) /\ I \subseteq Nat
              /\ IsSequence(p) /\ Len(p) = Cardinality(I) /\ \A n \in 1..Len(p) : p[n] = s[at[n]]
<1> DEFINE at == Arranged(I, Below(I))
           p == Picked(s, I)
           m == Cardinality(I)
<1>1. I \subseteq Nat /\ IsFiniteSet(I)
  BY SequenceShape, FS_Subset
<1>2. m \in Nat /\ at \in [1..m -> I]
  BY <1>1, PositionsAre
<1>3. p = [n \in DOMAIN at |-> s[at[n]]]
  BY DEF Picked, Below
<1> HIDE DEF at, p, m
<1>4. DOMAIN p = 1..m /\ p = [n \in 1..m |-> p[n]] /\ \A n \in 1..m : p[n] = s[at[n]]
  BY <1>2, <1>3
<1>5. IsSequence(p) /\ Len(p) = m
  BY <1>2, <1>4, FunctionIsSequence
<1> QED BY <1>1, <1>4, <1>5 DEF at, p, m

----------------------------------------------------------------------------
(* How many elements of a sequence are in a set.                           *)

Hits(s, X) == {i \in DOMAIN s : s[i] \in X}
Number(s, X) == Cardinality(Hits(s, X))

LEMMA NumberIs ==
    ASSUME NEW s, IsSequence(s), NEW X
    PROVE  /\ IsFiniteSet(Hits(s, X)) /\ Number(s, X) \in Nat
           /\ Hits(s, X) \subseteq 1..Len(s) /\ \A i : i \in Hits(s, X) <=> i \in 1..Len(s) /\ s[i] \in X
<1>1. IsFiniteSet(DOMAIN s) /\ DOMAIN s = 1..Len(s) /\ Hits(s, X) \in SUBSET DOMAIN s
  BY SequenceShape DEF Hits
<1>2. IsFiniteSet(Hits(s, X))
  BY <1>1, FS_Subset
<1>3. Number(s, X) \in Nat
  BY <1>2, FS_CardinalityType DEF Number
<1> QED BY <1>1, <1>2, <1>3 DEF Hits

\* f takes each position of t to one of s that holds the same element.
Embeds(f, t, s) ==
    /\ f \in [1..Len(t) -> 1..Len(s)]
    /\ \A i, j \in 1..Len(t) : f[i] = f[j] => i = j
    /\ \A i \in 1..Len(t) : t[i] = s[f[i]]

LEMMA EmbeddedNumber ==
    ASSUME NEW s, IsSequence(s), NEW t, IsSequence(t), NEW f, Embeds(f, t, s), NEW X
    PROVE  /\ Number(t, X) <= Number(s, X)
           /\ (\A j \in 1..Len(s) : \E i \in 1..Len(t) : f[i] = j) => Number(t, X) = Number(s, X)
<1> DEFINE A == Hits(t, X)
           B == Hits(s, X)
           g == [i \in A |-> f[i]]
<1>1. /\ IsFiniteSet(A) /\ A \subseteq 1..Len(t) /\ \A i : i \in A <=> i \in 1..Len(t) /\ t[i] \in X
      /\ IsFiniteSet(B) /\ B \subseteq 1..Len(s) /\ \A i : i \in B <=> i \in 1..Len(s) /\ s[i] \in X
  BY NumberIs
<1> HIDE DEF A, B
<1>2. \A i \in A : f[i] \in B
  BY <1>1 DEF Embeds
<1>3. g \in Injection(A, B)
  <2>1. g \in [A -> B]
    BY <1>2
  <2>2. \A i, j \in A : g[i] = g[j] => i = j
    BY <1>1 DEF Embeds
  <2> HIDE DEF g
  <2> QED BY <2>1, <2>2 DEF Injection, IsInjective
<1>4. Cardinality(A) <= Cardinality(B) /\ (g \in Surjection(A, B) => Cardinality(A) = Cardinality(B))
  <2> HIDE DEF g
  <2> QED BY <1>1, <1>3, FS_Injection
<1>5. ASSUME \A j \in 1..Len(s) : \E i \in 1..Len(t) : f[i] = j PROVE g \in Surjection(A, B)
  <2>1. \A j \in B : \E i \in A : g[i] = j
    <3> TAKE j \in B
    <3>1. PICK i \in 1..Len(t) : f[i] = j
      BY <1>1, <1>5
    <3>2. t[i] = s[j]
      BY <3>1 DEF Embeds
    <3>3. i \in A
      BY <1>1, <3>2
    <3> QED BY <3>1, <3>3
  <2>2. g \in [A -> B]
    BY <1>2
  <2> HIDE DEF g
  <2> QED BY <2>1, <2>2 DEF Surjection
<1> QED BY <1>4, <1>5 DEF Number, A, B

LEMMA ReversedNumber ==
    ASSUME NEW s, IsSequence(s), NEW X
    PROVE  IsSequence(Reverse(s)) /\ Len(Reverse(s)) = Len(s) /\ Number(Reverse(s), X) = Number(s, X)
           /\ \A i \in 1..Len(s) : Reverse(s)[i] = s[(Len(s) - i) + 1]
<1> DEFINE n == Len(s)
           r == Reverse(s)
           f == [i \in 1..n |-> (n - i) + 1]
<1>1. n \in Nat
  BY SequenceShape
<1>2. r = [i \in 1..n |-> s[(n - i) + 1]]
  BY DEF Reverse
<1> HIDE DEF n, r
<1>3. r = [i \in 1..n |-> r[i]] /\ \A i \in 1..n : r[i] = s[(n - i) + 1]
  BY <1>2
<1>4. IsSequence(r) /\ Len(r) = n
  BY <1>1, <1>3, FunctionIsSequence
<1>5. \A i \in 1..n : f[i] = (n - i) + 1 /\ f[i] \in 1..n
  BY <1>1
<1>6. f \in [1..n -> 1..n]
  BY <1>5
<1> HIDE DEF f
<1>7. \A i, j \in 1..n : f[i] = f[j] => i = j
  BY <1>1, <1>5
<1>8. \A j \in 1..n : \E i \in 1..n : f[i] = j
  <2> TAKE j \in 1..n
  <2>1. (n - j) + 1 \in 1..n /\ (n - ((n - j) + 1)) + 1 = j
    BY <1>1
  <2> QED BY <1>5, <2>1
<1>9. Embeds(f, r, s)
  BY <1>3, <1>4, <1>5, <1>6, <1>7 DEF Embeds, n
<1>10. Number(r, X) = Number(s, X)
  BY <1>4, <1>8, <1>9, EmbeddedNumber DEF n
<1> QED BY <1>3, <1>4, <1>10 DEF r, n

LEMMA SubSeqIs ==
    ASSUME NEW s, IsSequence(s), NEW a \in 0..Len(s), NEW b \in a..Len(s)
    PROVE  LET u == SubSeq(s, a + 1, b)
           IN IsSequence(u) /\ Len(u) = b - a /\ \A i \in 1..b - a : u[i] = s[a + i]
<1> DEFINE T == ToSet(s)
           u == SubSeq(s, a + 1, b)
           n == Len(s)
<1>1. n \in Nat /\ s \in Seq(T) /\ DOMAIN s = 1..n
  BY SequenceShape DEF IsSequence
<1>2. \A i \in a + 1..b : s[i] \in T
  BY <1>1 DEF ToSet
<1> HIDE DEF T, n
<1>3. a + 1 \in Int /\ b \in Int /\ a \in Int /\ b - a \in Nat /\ a \in Nat
  BY <1>1 DEF n
<1>4. u \in Seq(T) /\ Len(u) = (IF a + 1 <= b THEN b - (a + 1) + 1 ELSE 0)
      /\ \A i \in 1..b - (a + 1) + 1 : u[i] = s[(a + 1) + i - 1]
  BY <1>2, <1>3, SubSeqProperties
<1> HIDE DEF u
<1>5. Len(u) = b - a
  BY <1>3, <1>4
<1>6. \A i \in 1..b - a : u[i] = s[a + i]
  <2> TAKE i \in 1..b - a
  <2>1. i \in 1..b - (a + 1) + 1 /\ (a + 1) + i - 1 = a + i
    BY <1>3
  <2> QED BY <1>4, <2>1
<1>7. u = [i \in 1..b - a |-> u[i]]
  BY <1>4, <1>5, LenProperties
<1> QED BY <1>3, <1>5, <1>6, <1>7, FunctionIsSequence DEF u

\* The hits in a part of a sequence.
LEMMA PartNumber ==
    ASSUME NEW s, IsSequence(s), NEW a \in 0..Len(s), NEW b \in a..Len(s), NEW X
    PROVE  LET C == {i \in Hits(s, X) : a < i /\ i <= b}
           IN IsFiniteSet(C) /\ Number(SubSeq(s, a + 1, b), X) = Cardinality(C)
<1> DEFINE u == SubSeq(s, a + 1, b)
           A == Hits(u, X)
           C == {i \in Hits(s, X) : a < i /\ i <= b}
           g == [i \in A |-> a + i]
           n == Len(s)
<1>1. n \in Nat /\ a \in Nat /\ b \in Nat /\ a <= b /\ b <= n /\ b - a \in Nat
  BY SequenceShape
<1>2. IsSequence(u) /\ Len(u) = b - a /\ \A i \in 1..b - a : u[i] = s[a + i]
  BY SubSeqIs
<1> HIDE DEF u
<1>3. IsFiniteSet(A) /\ A \subseteq 1..b - a /\ \A i : i \in A <=> i \in 1..b - a /\ u[i] \in X
  BY <1>2, NumberIs
<1>4. IsFiniteSet(Hits(s, X)) /\ \A i : i \in Hits(s, X) <=> i \in 1..n /\ s[i] \in X
  BY NumberIs
<1>5. IsFiniteSet(C)
  BY <1>4, FS_Subset
<1>6. \A i : i \in C <=> i \in 1..n /\ s[i] \in X /\ a < i /\ i <= b
  BY <1>4
<1> HIDE DEF A, C, n
<1>7. \A i \in A : a + i \in C
  <2> TAKE i \in A
  <2>1. i \in 1..b - a /\ u[i] \in X
    BY <1>3
  <2>2. a + i \in 1..n /\ a < a + i /\ a + i <= b
    BY <1>1, <2>1
  <2>3. s[a + i] \in X
    BY <1>2, <2>1
  <2> QED BY <1>6, <2>2, <2>3
<1>8. g \in [A -> C] /\ \A i \in A : g[i] = a + i
  BY <1>7
<1> HIDE DEF g
<1>9. \A i, j \in A : g[i] = g[j] => i = j
  BY <1>1, <1>3, <1>8
<1>10. \A j \in C : \E i \in A : g[i] = j
  <2> TAKE j \in C
  <2>1. j - a \in 1..b - a /\ a + (j - a) = j
    BY <1>1, <1>6
  <2>2. u[j - a] = s[j]
    BY <1>2, <2>1
  <2>3. j - a \in A
    BY <1>3, <1>6, <2>1, <2>2
  <2> QED BY <1>8, <2>1, <2>3
<1>11. g \in Injection(A, C) /\ g \in Surjection(A, C)
  BY <1>8, <1>9, <1>10 DEF Injection, IsInjective, Surjection
<1>12. Cardinality(A) = Cardinality(C)
  BY <1>5, <1>11, FS_Injection
<1> QED BY <1>5, <1>12 DEF Number, A, C, u

\* A beginning has no more hits.
LEMMA PrefixNumber ==
    ASSUME NEW s, IsSequence(s), NEW b \in 0..Len(s), NEW X
    PROVE  IsSequence(SubSeq(s, 1, b)) /\ Len(SubSeq(s, 1, b)) = b /\ Number(SubSeq(s, 1, b), X) <= Number(s, X)
<1>1. Len(s) \in Nat
  BY SequenceShape
<1>2. 0 \in 0..Len(s) /\ b \in 0..Len(s) /\ 0 + 1 = 1 /\ b - 0 = b
  BY <1>1
<1>3. IsSequence(SubSeq(s, 0 + 1, b)) /\ Len(SubSeq(s, 0 + 1, b)) = b - 0
  BY <1>2, SubSeqIs
<1> DEFINE C == {i \in Hits(s, X) : 0 < i /\ i <= b}
<1>4. Number(SubSeq(s, 0 + 1, b), X) = Cardinality(C)
  BY <1>2, PartNumber
<1>5. Cardinality(C) <= Number(s, X)
  <2>1. C \in SUBSET Hits(s, X)
    OBVIOUS
  <2> HIDE DEF C
  <2> QED BY <2>1, NumberIs, FS_Subset DEF Number
<1> QED BY <1>2, <1>3, <1>4, <1>5

\* The bands divide a sequence.
LEMMA BandsAre ==
    ASSUME NEW s, IsSequence(s)
    PROVE  \E a \in 0..Len(s) : \E b \in a..Len(s) :
               /\ SplitOrderedBands(s)[1] = SubSeq(s, 0 + 1, a)
               /\ SplitOrderedBands(s)[2] = SubSeq(s, a + 1, b)
               /\ SplitOrderedBands(s)[3] = SubSeq(s, b + 1, Len(s))
<1> DEFINE n == Len(s)
           a == (1 * n) \div 3
           b == (2 * n) \div 3
<1>1. n \in Nat
  BY SequenceShape
<1>2. SplitOrderedBands(s)[1] = SubSeq(s, ((1 - 1) * n) \div 3 + 1, (1 * n) \div 3)
  BY DEF SplitOrderedBands
<1>3. SplitOrderedBands(s)[2] = SubSeq(s, ((2 - 1) * n) \div 3 + 1, (2 * n) \div 3)
  BY DEF SplitOrderedBands
<1>4. SplitOrderedBands(s)[3] = SubSeq(s, ((3 - 1) * n) \div 3 + 1, (3 * n) \div 3)
  BY DEF SplitOrderedBands
<1> HIDE DEF n
<1>5. ((1 - 1) * n) \div 3 = 0 /\ ((2 - 1) * n) \div 3 = a /\ ((3 - 1) * n) \div 3 = b /\ (3 * n) \div 3 = n
  BY <1>1
<1>6. a \in 0..n /\ b \in a..n
  BY <1>1
<1> QED BY <1>2, <1>3, <1>4, <1>5, <1>6 DEF n

LEMMA BandsAddUp ==
    ASSUME NEW s, IsSequence(s), NEW X
    PROVE  LET bands == SplitOrderedBands(s)
           IN /\ \A b \in 1..3 : IsSequence(bands[b])
              /\ Number(bands[1], X) + Number(bands[2], X) + Number(bands[3], X) = Number(s, X)
<1> DEFINE B == SplitOrderedBands(s)
           n == Len(s)
           H == Hits(s, X)
<1>1. n \in Nat
  BY SequenceShape
<1>0. \A x \in 0..n : \A y \in x..n :
          LET C == {i \in H : x < i /\ i <= y}
          IN IsFiniteSet(C) /\ Number(SubSeq(s, x + 1, y), X) = Cardinality(C)
  BY PartNumber
<1>2. PICK a \in 0..n : \E b \in a..n :
          B[1] = SubSeq(s, 0 + 1, a) /\ B[2] = SubSeq(s, a + 1, b) /\ B[3] = SubSeq(s, b + 1, n)
  BY BandsAre
<1>3. PICK b \in a..n : B[1] = SubSeq(s, 0 + 1, a) /\ B[2] = SubSeq(s, a + 1, b) /\ B[3] = SubSeq(s, b + 1, n)
  BY <1>2
<1>4. 0 \in 0..n /\ a \in 0..n /\ b \in 0..n /\ n \in b..n
  BY <1>1
<1> DEFINE C1 == {i \in H : 0 < i /\ i <= a}
           C2 == {i \in H : a < i /\ i <= b}
           C3 == {i \in H : b < i /\ i <= n}
<1> HIDE DEF B
<1>5. IsSequence(B[1]) /\ Number(B[1], X) = Cardinality(C1) /\ IsFiniteSet(C1)
  <2>1. 0 \in 0..n /\ a \in 0..n /\ B[1] = SubSeq(s, 0 + 1, a)
    BY <1>3, <1>4
  <2>2. IsSequence(SubSeq(s, 0 + 1, a))
    BY <2>1, SubSeqIs
  <2>3. IsFiniteSet(C1) /\ Number(SubSeq(s, 0 + 1, a), X) = Cardinality(C1)
    BY <1>0, <2>1
  <2> QED BY <2>1, <2>2, <2>3
<1>6. IsSequence(B[2]) /\ Number(B[2], X) = Cardinality(C2) /\ IsFiniteSet(C2)
  <2>1. a \in 0..n /\ b \in a..n /\ B[2] = SubSeq(s, a + 1, b)
    BY <1>3, <1>4
  <2>2. IsSequence(SubSeq(s, a + 1, b))
    BY <2>1, SubSeqIs
  <2>3. IsFiniteSet(C2) /\ Number(SubSeq(s, a + 1, b), X) = Cardinality(C2)
    BY <1>0, <2>1
  <2> QED BY <2>1, <2>2, <2>3
<1>7. IsSequence(B[3]) /\ Number(B[3], X) = Cardinality(C3) /\ IsFiniteSet(C3)
  <2>1. b \in 0..n /\ n \in b..n /\ B[3] = SubSeq(s, b + 1, n)
    BY <1>3, <1>4
  <2>2. IsSequence(SubSeq(s, b + 1, n))
    BY <2>1, SubSeqIs
  <2>3. IsFiniteSet(C3) /\ Number(SubSeq(s, b + 1, n), X) = Cardinality(C3)
    BY <1>0, <2>1
  <2> QED BY <2>1, <2>2, <2>3
<1>8. H \subseteq 1..n /\ Number(s, X) = Cardinality(H)
  BY NumberIs DEF Number
<1> HIDE DEF H
<1>9. C1 \cup C2 \cup C3 = H /\ C1 \cap C2 = {} /\ (C1 \cup C2) \cap C3 = {}
  <2>1. \A i \in H : i \in Nat /\ 0 < i /\ i <= n
    BY <1>1, <1>8
  <2>2. a \in Nat /\ b \in Nat /\ a <= b /\ b <= n
    BY <1>1, <1>4
  <2> HIDE DEF n
  <2>3. \A i \in H : i \in C1 \/ i \in C2 \/ i \in C3
    BY <2>1, <2>2
  <2>4. \A i \in H : ~ (i \in C1 /\ i \in C2) /\ ~ (i \in C1 /\ i \in C3) /\ ~ (i \in C2 /\ i \in C3)
    BY <1>1, <2>1, <2>2
  <2>5. C1 \subseteq H /\ C2 \subseteq H /\ C3 \subseteq H
    OBVIOUS
  <2> HIDE DEF C1, C2, C3
  <2> QED BY <2>3, <2>4, <2>5
<1> HIDE DEF C1, C2, C3
<1>10. IsFiniteSet(C1 \cup C2) /\ Cardinality(C1 \cup C2) = Cardinality(C1) + Cardinality(C2)
  <2>1. Cardinality(C1 \cup C2) = Cardinality(C1) + Cardinality(C2) - Cardinality(C1 \cap C2) /\ IsFiniteSet(C1 \cup C2)
    BY <1>5, <1>6, FS_Union
  <2>2. Cardinality(C1 \cap C2) = 0
    BY <1>9, FS_EmptySet
  <2> QED BY <1>5, <1>6, <2>1, <2>2, FS_CardinalityType
<1>11. Cardinality(H) = Cardinality(C1 \cup C2) + Cardinality(C3)
  <2> DEFINE D == C1 \cup C2
  <2>1. IsFiniteSet(D) /\ D \cup C3 = H /\ D \cap C3 = {}
    BY <1>9, <1>10
  <2> HIDE DEF D
  <2>2. Cardinality(D \cup C3) = Cardinality(D) + Cardinality(C3) - Cardinality(D \cap C3)
    BY <1>7, <2>1, FS_Union
  <2>3. Cardinality(D \cap C3) = 0
    BY <2>1, FS_EmptySet
  <2>5. Cardinality(D) \in Nat /\ Cardinality(C3) \in Nat
    BY <1>7, <2>1, FS_CardinalityType
  <2>6. Cardinality(H) = Cardinality(D) + Cardinality(C3) - 0
    BY <2>1, <2>2, <2>3, Zenon
  <2>4. Cardinality(H) = Cardinality(D) + Cardinality(C3)
    BY <2>5, <2>6
  <2> QED BY <2>4 DEF D
<1>12. \A i \in 1..3 : IsSequence(B[i])
  <2>1. \A i \in 1..3 : i = 1 \/ i = 2 \/ i = 3
    OBVIOUS
  <2> QED BY <1>5, <1>6, <1>7, <2>1
<1> QED BY <1>5, <1>6, <1>7, <1>8, <1>10, <1>11, <1>12 DEF B

----------------------------------------------------------------------------
(* Events: sets of eligible paths, in order.                               *)

Events(s) == IsSequence(s) /\ \A i \in 1..Len(s) : s[i] \in SUBSET Eligible

With(l) == {e \in SUBSET Eligible : l \in e}
Both(l, r) == {e \in SUBSET Eligible : {l, r} \subseteq e}
Either(l, r) == {e \in SUBSET Eligible : {l, r} \cap e # {}}

LEMMA CountsAre ==
    ASSUME NEW s, Events(s), NEW l, NEW r
    PROVE  /\ Count(s, LAMBDA e : l \in e) = Number(s, With(l))
           /\ Shared(s, l, r) = Number(s, Both(l, r))
           /\ IsSequence(Touching(s, l, r)) /\ Len(Touching(s, l, r)) = Number(s, Either(l, r))
<1>1. DOMAIN s = 1..Len(s) /\ IsSequence(s) /\ \A i \in DOMAIN s : s[i] \in SUBSET Eligible
  BY SequenceShape DEF Events
<1>2. {i \in DOMAIN s : l \in s[i]} = Hits(s, With(l))
  BY <1>1 DEF Hits, With
<1>3. {i \in DOMAIN s : {l, r} \subseteq s[i]} = Hits(s, Both(l, r))
  BY <1>1 DEF Hits, Both
<1>4. {i \in DOMAIN s : {l, r} \cap s[i] # {}} = Hits(s, Either(l, r))
  BY <1>1 DEF Hits, Either
<1>5. Touching(s, l, r) = Picked(s, Hits(s, Either(l, r)))
  BY <1>4 DEF Touching
<1>6. Hits(s, Either(l, r)) \subseteq DOMAIN s
  BY DEF Hits
<1>7. IsSequence(Touching(s, l, r)) /\ Len(Touching(s, l, r)) = Number(s, Either(l, r))
  BY <1>1, <1>5, <1>6, PickedIs DEF Number
<1> QED BY <1>2, <1>3, <1>7 DEF Count, Shared, Number

\* An event of either path is of one of them, or of both and then of both counts.
LEMMA OrAndAre ==
    ASSUME NEW s, IsSequence(s), NEW l, NEW r
    PROVE  /\ Number(s, With(l)) + Number(s, With(r)) = Number(s, Both(l, r)) + Number(s, Either(l, r))
           /\ Number(s, Both(l, r)) <= Number(s, With(l)) /\ Number(s, Both(l, r)) <= Number(s, With(r))
<1> DEFINE L == Hits(s, With(l))
           R == Hits(s, With(r))
           B == Hits(s, Both(l, r))
           E == Hits(s, Either(l, r))
<1>1. IsFiniteSet(L) /\ IsFiniteSet(R) /\ IsFiniteSet(B) /\ IsFiniteSet(E)
  BY NumberIs
<1>2. Cardinality(L) \in Nat /\ Cardinality(R) \in Nat /\ Cardinality(B) \in Nat /\ Cardinality(E) \in Nat
  BY <1>1, FS_CardinalityType
<1>3. L \cup R = E /\ L \cap R = B
  BY DEF Hits, With, Both, Either
<1>8. Number(s, With(l)) = Cardinality(L) /\ Number(s, With(r)) = Cardinality(R)
      /\ Number(s, Both(l, r)) = Cardinality(B) /\ Number(s, Either(l, r)) = Cardinality(E)
  BY DEF Number
<1> HIDE DEF L, R, B, E
<1>4. Cardinality(L \cup R) = Cardinality(L) + Cardinality(R) - Cardinality(L \cap R)
  BY <1>1, FS_Union
<1>5. Cardinality(E) = Cardinality(L) + Cardinality(R) - Cardinality(B)
  BY <1>3, <1>4
<1>6. B \in SUBSET L /\ B \in SUBSET R
  BY <1>3
<1>7. Cardinality(B) <= Cardinality(L) /\ Cardinality(B) <= Cardinality(R)
  BY <1>1, <1>6, FS_Subset
<1>9. Cardinality(L) + Cardinality(R) = Cardinality(B) + Cardinality(E)
  BY <1>2, <1>5
<1> QED BY <1>7, <1>8, <1>9

\* What is picked has no more hits, and no other elements.
LEMMA PickedNumber ==
    ASSUME NEW s, Events(s), NEW I, I \subseteq DOMAIN s, NEW X
    PROVE  Events(Picked(s, I)) /\ Number(Picked(s, I), X) <= Number(s, X)
<1> DEFINE at == Arranged(I, Below(I))
           p == Picked(s, I)
           m == Cardinality(I)
<1>1. IsSequence(s) /\ DOMAIN s = 1..Len(s) /\ \A i \in 1..Len(s) : s[i] \in SUBSET Eligible
  BY SequenceShape DEF Events
<1>2. /\ IsFiniteSet(I) /\ I \subseteq Nat
      /\ IsSequence(p) /\ Len(p) = m /\ \A n \in 1..m : p[n] = s[at[n]]
  BY <1>1, PickedIs
<1>3. m \in Nat /\ at \in [1..m -> I] /\ \A n, k \in 1..m : at[n] = at[k] => n = k
  BY <1>2, PositionsAre
<1> HIDE DEF at, p, m
<1>4. at \in [1..m -> 1..Len(s)]
  BY <1>1, <1>3
<1>5. Embeds(at, p, s)
  BY <1>2, <1>3, <1>4 DEF Embeds
<1>6. Number(p, X) <= Number(s, X)
  BY <1>1, <1>2, <1>5, EmbeddedNumber
<1>7. \A n \in 1..Len(p) : p[n] \in SUBSET Eligible
  BY <1>1, <1>2, <1>4
<1> QED BY <1>2, <1>6, <1>7 DEF Events, p

----------------------------------------------------------------------------
(* statisticsForPair.                                                      *)

\* Parts of events are events.
LEMMA PartsAreEvents ==
    ASSUME NEW s, Events(s), NEW a \in 0..Len(s), NEW b \in a..Len(s)
    PROVE  Events(SubSeq(s, a + 1, b))
<1> DEFINE u == SubSeq(s, a + 1, b)
           n == Len(s)
<1>1. n \in Nat /\ \A i \in 1..n : s[i] \in SUBSET Eligible
  BY SequenceShape DEF Events
<1>2. IsSequence(u) /\ Len(u) = b - a /\ \A i \in 1..b - a : u[i] = s[a + i]
  BY SubSeqIs DEF Events
<1>3. \A i \in 1..b - a : a + i \in 1..n
  BY <1>1
<1> HIDE DEF u
<1> QED BY <1>1, <1>2, <1>3 DEF Events, u

LEMMA ReversedEvents ==
    ASSUME NEW s, Events(s)
    PROVE  Events(Reverse(s))
<1> DEFINE n == Len(s)
           r == Reverse(s)
<1>1. n \in Nat /\ \A i \in 1..n : s[i] \in SUBSET Eligible
  BY SequenceShape DEF Events
<1>2. IsSequence(r) /\ Len(r) = n /\ \A i \in 1..n : r[i] = s[(n - i) + 1]
  BY ReversedNumber DEF Events
<1>3. \A i \in 1..n : (n - i) + 1 \in 1..n
  BY <1>1
<1> HIDE DEF r, n
<1> QED BY <1>1, <1>2, <1>3 DEF Events, r

\* The events of a scope are some of the retained ones; in repository mode, all.
LEMMA ScopeIs ==
    ASSUME NEW s, Events(s), NEW l, NEW r, NEW mode, NEW X
    PROVE  LET scope == Reverse(Scope(s, l, r, mode))
           IN /\ Events(scope) /\ Number(scope, X) <= Number(s, X)
              /\ mode # "pair-relative-v1" => Number(scope, X) = Number(s, X)
<1> DEFINE u == Scope(s, l, r, mode)
<1>1. Number(s, X) \in Nat
  BY NumberIs DEF Events
<1>2. ASSUME mode = "pair-relative-v1" PROVE Events(u) /\ Number(u, X) <= Number(s, X)
  <2> DEFINE near == Touching(s, l, r)
             k == Min({Len(near), PairRelativeEvents})
  <2>1. Events(near) /\ Number(near, X) <= Number(s, X)
    BY PickedNumber DEF Touching
  <2>2. u = SubSeq(near, 1, k)
    BY <1>2 DEF Scope
  <2> HIDE DEF near
  <2>3. IsSequence(near) /\ Len(near) \in Nat /\ PairRelativeEvents \in Nat
    BY <2>1, SequenceShape, ShadowAssumption DEF Events
  <2>4. k \in 0..Len(near)
    BY <2>3, MinOfTwo
  <2> HIDE DEF k
  <2>5. Number(SubSeq(near, 1, k), X) <= Number(near, X)
    BY <2>3, <2>4, PrefixNumber
  <2>6. 0 \in 0..Len(near) /\ k \in 0..Len(near) /\ 0 + 1 = 1
    BY <2>3, <2>4
  <2>7. Events(SubSeq(near, 0 + 1, k))
    BY <2>1, <2>6, PartsAreEvents
  <2>8. Events(u)
    BY <2>2, <2>6, <2>7
  <2>9. Number(u, X) \in Nat /\ Number(near, X) \in Nat
    BY <2>3, <2>8, NumberIs DEF Events
  <2> QED BY <1>1, <2>1, <2>2, <2>5, <2>8, <2>9
<1>3. ASSUME mode # "pair-relative-v1" PROVE u = s
  BY <1>3 DEF Scope
<1> HIDE DEF u
<1>4. Events(u) /\ Number(u, X) <= Number(s, X) /\ (mode # "pair-relative-v1" => Number(u, X) = Number(s, X))
  BY <1>1, <1>2, <1>3
<1>5. Events(Reverse(u)) /\ Number(Reverse(u), X) = Number(u, X)
  BY <1>4, ReversedEvents, ReversedNumber DEF Events
<1> QED BY <1>4, <1>5 DEF u

LEMMA BandsOfEvents ==
    ASSUME NEW s, Events(s)
    PROVE  \A b \in 1..3 : Events(SplitOrderedBands(s)[b])
<1> DEFINE B == SplitOrderedBands(s)
           n == Len(s)
<1>1. n \in Nat
  BY SequenceShape DEF Events
<1>2. PICK a \in 0..n : \E b \in a..n :
          B[1] = SubSeq(s, 0 + 1, a) /\ B[2] = SubSeq(s, a + 1, b) /\ B[3] = SubSeq(s, b + 1, n)
  BY BandsAre DEF Events
<1>3. PICK b \in a..n : B[1] = SubSeq(s, 0 + 1, a) /\ B[2] = SubSeq(s, a + 1, b) /\ B[3] = SubSeq(s, b + 1, n)
  BY <1>2
<1>4. 0 \in 0..n /\ a \in 0..n /\ b \in 0..n /\ n \in b..n
  BY <1>1
<1>5. \A x \in 0..n : \A y \in x..n : Events(SubSeq(s, x + 1, y))
  BY PartsAreEvents
<1> HIDE DEF B, n
<1>6. Events(B[1]) /\ Events(B[2]) /\ Events(B[3])
  BY <1>3, <1>4, <1>5
<1>7. \A i \in 1..3 : i = 1 \/ i = 2 \/ i = 3
  OBVIOUS
<1> QED BY <1>6, <1>7 DEF B

AddsUp(c, mode) ==
    /\ c.bands[1].shared + c.bands[2].shared + c.bands[3].shared = c.shared
    /\ c.bands[1].opportunities + c.bands[2].opportunities + c.bands[3].opportunities = c.opportunities
    /\ c.left + c.right = c.shared + c.opportunities
    /\ c.shared <= c.support /\ (mode = "repository-window-v1" => c.shared = c.support)

Counted(c) ==
    /\ c.support \in Nat /\ c.shared \in Nat /\ c.opportunities \in Nat /\ c.left \in Nat /\ c.right \in Nat
    /\ c.shared <= c.left /\ c.shared <= c.right

\* The counts of a pair agree with each other.
LEMMA StatisticsAddUp ==
    ASSUME NEW s, Events(s), NEW l, NEW r, NEW mode
    PROVE  LET c == StatisticsForPair(s, l, r, mode)
           IN c.pair = <<l, r>> /\ Counted(c) /\ AddsUp(c, mode)
<1> DEFINE c == StatisticsForPair(s, l, r, mode)
           scope == Reverse(Scope(s, l, r, mode))
           bands == SplitOrderedBands(scope)
           E == Either(l, r)
           B == Both(l, r)
<1>1. Events(scope) /\ Number(scope, B) <= Number(s, B)
      /\ (mode # "pair-relative-v1" => Number(scope, B) = Number(s, B))
  BY ScopeIs
<1>2. /\ c.pair = <<l, r>> /\ c.support = Shared(s, l, r)
      /\ c.left = Count(scope, LAMBDA e : l \in e) /\ c.right = Count(scope, LAMBDA e : r \in e)
      /\ c.shared = Shared(scope, l, r) /\ c.opportunities = Len(Touching(scope, l, r))
  BY DEF StatisticsForPair
<1>3. \A b \in 1..3 : /\ c.bands[b].shared = Shared(bands[b], l, r)
                      /\ c.bands[b].opportunities = Len(Touching(bands[b], l, r))
  BY DEF StatisticsForPair
<1> HIDE DEF scope, c
<1>4. IsSequence(scope) /\ \A b \in 1..3 : Events(bands[b])
  BY <1>1, BandsOfEvents DEF Events
<1>5. \A X : Number(bands[1], X) + Number(bands[2], X) + Number(bands[3], X) = Number(scope, X)
  BY <1>4, BandsAddUp
<1> HIDE DEF bands
<1>6. c.support = Number(s, B)
  BY <1>2, CountsAre
<1>7. c.shared = Number(scope, B) /\ c.opportunities = Number(scope, E)
  BY <1>1, <1>2, CountsAre
<1>8. c.left = Number(scope, With(l))
  BY <1>1, <1>2, CountsAre
<1>9. c.right = Number(scope, With(r))
  BY <1>1, <1>2, CountsAre
<1>10. \A b \in 1..3 : c.bands[b].shared = Number(bands[b], B) /\ c.bands[b].opportunities = Number(bands[b], E)
  <2> TAKE b \in 1..3
  <2>1. Events(bands[b])
    BY <1>4
  <2>2. Shared(bands[b], l, r) = Number(bands[b], B)
    BY <2>1, CountsAre
  <2>3. Len(Touching(bands[b], l, r)) = Number(bands[b], E)
    BY <2>1, CountsAre
  <2> HIDE DEF E, B
  <2> QED BY <1>3, <2>2, <2>3
<1>11. Counted(c)
  <2>1. Number(s, B) \in Nat /\ Number(scope, B) \in Nat /\ Number(scope, E) \in Nat
    BY <1>4, NumberIs DEF Events
  <2>2. Number(scope, With(l)) \in Nat /\ Number(scope, With(r)) \in Nat
    BY <1>4, NumberIs
  <2>3. Number(scope, B) <= Number(scope, With(l)) /\ Number(scope, B) <= Number(scope, With(r))
    BY <1>4, OrAndAre
  <2> QED BY <1>6, <1>7, <1>8, <1>9, <2>1, <2>2, <2>3 DEF Counted
<1>12. c.left + c.right = c.shared + c.opportunities
  <2>1. Number(scope, With(l)) + Number(scope, With(r)) = Number(scope, B) + Number(scope, E)
    BY <1>4, OrAndAre
  <2> QED BY <1>7, <1>8, <1>9, <2>1
<1>13. 1 \in 1..3 /\ 2 \in 1..3 /\ 3 \in 1..3
  OBVIOUS
<1>14. c.bands[1].shared + c.bands[2].shared + c.bands[3].shared = c.shared
  BY <1>5, <1>7, <1>10, <1>13
<1>15. c.bands[1].opportunities + c.bands[2].opportunities + c.bands[3].opportunities = c.opportunities
  BY <1>5, <1>7, <1>10, <1>13
<1>16. c.shared <= c.support /\ (mode = "repository-window-v1" => c.shared = c.support)
  BY <1>1, <1>6, <1>7
<1> QED BY <1>2, <1>11, <1>12, <1>14, <1>15, <1>16 DEF AddsUp, c

----------------------------------------------------------------------------
(* The order of the candidates.                                            *)

\* R is a weak order on S: what is not put before anything between is not before.
Weak(R, S) ==
    /\ \A x, y \in S : <<x, y>> \in R => <<y, x>> \notin R
    /\ \A x, y, z \in S : <<x, z>> \in R => <<x, y>> \in R \/ <<y, z>> \in R

\* By the first order, and by the second one where the first says nothing.
Lex(P, Q, S) == {p \in S \X S : p \in P \/ (<<p[2], p[1]>> \notin P /\ p \in Q)}

LEMMA LexIsWeak ==
    ASSUME NEW S, NEW P, NEW Q, Weak(P, S), Weak(Q, S)
    PROVE  Weak(Lex(P, Q, S), S)
<1>1. \A x, y \in S : <<x, y>> \in Lex(P, Q, S) <=> <<x, y>> \in P \/ (<<y, x>> \notin P /\ <<x, y>> \in Q)
  <2> TAKE x, y \in S
  <2>1. <<x, y>> \in S \X S /\ <<x, y>>[1] = x /\ <<x, y>>[2] = y
    OBVIOUS
  <2> QED BY <2>1 DEF Lex
<1>2. \A x, y \in S : <<x, y>> \in Lex(P, Q, S) => <<y, x>> \notin Lex(P, Q, S)
  <2> TAKE x, y \in S
  <2>1. (<<x, y>> \in P => <<y, x>> \notin P) /\ (<<x, y>> \in Q => <<y, x>> \notin Q)
    BY DEF Weak
  <2>2. (<<x, y>> \in Lex(P, Q, S) <=> <<x, y>> \in P \/ (<<y, x>> \notin P /\ <<x, y>> \in Q))
        /\ (<<y, x>> \in Lex(P, Q, S) <=> <<y, x>> \in P \/ (<<x, y>> \notin P /\ <<y, x>> \in Q))
    BY <1>1
  <2> QED BY <2>1, <2>2
<1>3. \A x, y, z \in S : <<x, z>> \in Lex(P, Q, S) => <<x, y>> \in Lex(P, Q, S) \/ <<y, z>> \in Lex(P, Q, S)
  <2> TAKE x, y, z \in S
  <2>1. /\ <<x, z>> \in Lex(P, Q, S) <=> <<x, z>> \in P \/ (<<z, x>> \notin P /\ <<x, z>> \in Q)
        /\ <<x, y>> \in Lex(P, Q, S) <=> <<x, y>> \in P \/ (<<y, x>> \notin P /\ <<x, y>> \in Q)
        /\ <<y, z>> \in Lex(P, Q, S) <=> <<y, z>> \in P \/ (<<z, y>> \notin P /\ <<y, z>> \in Q)
    BY <1>1
  <2>2. (<<x, z>> \in P => <<x, y>> \in P \/ <<y, z>> \in P) /\ (<<x, z>> \in Q => <<x, y>> \in Q \/ <<y, z>> \in Q)
    BY DEF Weak
  <2>3. (<<y, x>> \in P => <<y, z>> \in P \/ <<z, x>> \in P) /\ (<<z, y>> \in P => <<z, x>> \in P \/ <<x, y>> \in P)
    BY DEF Weak
  <2> QED BY <2>1, <2>2, <2>3
<1> QED BY <1>2, <1>3 DEF Weak

\* A weak order in which no two are alike is a total order.
LEMMA WeakOrders ==
    ASSUME NEW S, NEW R, Weak(R, S), \A x, y \in S : x # y => <<x, y>> \in R \/ <<y, x>> \in R
    PROVE  Orders(R, S)
<1>1. \A x \in S : <<x, x>> \notin R
  BY DEF Weak
<1>2. \A x, y, z \in S : <<x, y>> \in R /\ <<y, z>> \in R => <<x, z>> \in R
  <2> TAKE x, y, z \in S
  <2>1. (<<x, y>> \in R => <<x, z>> \in R \/ <<z, y>> \in R) /\ (<<y, z>> \in R => <<z, y>> \notin R)
    BY DEF Weak
  <2> QED BY <2>1
<1> QED BY <1>1, <1>2 DEF Orders

\* Two products, and a factor of both.
LEMMA Times ==
    ASSUME NEW a \in Nat, NEW b \in Nat, NEW c \in Nat
    PROVE  a <= b => a * c <= b * c
<1> SUFFICES ASSUME a <= b PROVE a * c <= b * c
  OBVIOUS
<1>1. b - a \in Nat
  OBVIOUS
<1>2. (b - a) * c \in Nat
  BY <1>1
<1>3. (b - a) * c = b * c - a * c
  OBVIOUS
<1> QED BY <1>2, <1>3

LEMMA Cancels ==
    ASSUME NEW a \in Nat, NEW b \in Nat, NEW c \in Nat \ {0}, a * c <= b * c
    PROVE  a <= b
<1> SUFFICES ASSUME b < a PROVE FALSE
  OBVIOUS
<1>1. b + 1 \in Nat /\ b + 1 <= a /\ c \in Nat /\ c > 0
  OBVIOUS
<1>2. (b + 1) * c <= a * c
  BY <1>1, Times
<1>3. (b + 1) * c = b * c + c /\ b * c \in Nat
  OBVIOUS
<1>4. a * c \in Nat
  OBVIOUS
<1> QED BY <1>1, <1>2, <1>3, <1>4

\* Fractions with positive denominators.
LEMMA FractionsAreWeak ==
    ASSUME NEW n1 \in Nat, NEW n2 \in Nat, NEW n3 \in Nat,
           NEW d1 \in Nat \ {0}, NEW d2 \in Nat \ {0}, NEW d3 \in Nat \ {0}
    PROVE  /\ Greater(n1, d1, n2, d2) => ~ Greater(n2, d2, n1, d1)
           /\ Greater(n1, d1, n3, d3) => Greater(n1, d1, n2, d2) \/ Greater(n2, d2, n3, d3)
<1>0. n1 * d2 \in Nat /\ n1 * d3 \in Nat /\ n2 * d1 \in Nat /\ n2 * d3 \in Nat /\ n3 * d1 \in Nat /\ n3 * d2 \in Nat
  OBVIOUS
<1>1. Greater(n1, d1, n2, d2) => ~ Greater(n2, d2, n1, d1)
  BY <1>0 DEF Greater
<1>2. ASSUME ~ Greater(n1, d1, n2, d2), ~ Greater(n2, d2, n3, d3) PROVE ~ Greater(n1, d1, n3, d3)
  <2>1. n1 * d2 <= n2 * d1 /\ n2 * d3 <= n3 * d2
    BY <1>0, <1>2 DEF Greater
  <2>2. (n1 * d2) * d3 <= (n2 * d1) * d3
    BY <1>0, <2>1, Times
  <2>3. (n2 * d3) * d1 <= (n3 * d2) * d1
    BY <1>0, <2>1, Times
  <2>4. (n1 * d2) * d3 = (n1 * d3) * d2 /\ (n2 * d1) * d3 = (n2 * d3) * d1 /\ (n3 * d2) * d1 = (n3 * d1) * d2
    OBVIOUS
  <2>5. (n1 * d3) * d2 \in Nat /\ (n2 * d3) * d1 \in Nat /\ (n3 * d1) * d2 \in Nat
    BY <1>0
  <2>6. (n1 * d3) * d2 <= (n3 * d1) * d2
    BY <2>2, <2>3, <2>4, <2>5
  <2>7. n1 * d3 <= n3 * d1
    BY <1>0, <2>6, Cancels
  <2> QED BY <1>0, <2>7 DEF Greater
<1> QED BY <1>1, <1>2

Share(c) == Min({c.left, c.right})

\* What the gates leave: counts that can be compared, one candidate for a pair.
Comparable(C) ==
    /\ \A c \in C : /\ Counted(c) /\ c.opportunities \in Nat \ {0} /\ Share(c) \in Nat \ {0}
                    /\ c.pair[1] \in Nat /\ c.pair[2] \in Nat
    /\ \A c, d \in C : c.pair[1] = d.pair[1] /\ c.pair[2] = d.pair[2] => c = d

Supported(C) == {p \in C \X C : p[1].support > p[2].support}
Together(C) == {p \in C \X C : Greater(p[1].shared, p[1].opportunities, p[2].shared, p[2].opportunities)}
Closer(C) == {p \in C \X C : Greater(p[1].shared, Share(p[1]), p[2].shared, Share(p[2]))}
LeftFirst(C) == {p \in C \X C : p[1].pair[1] < p[2].pair[1]}
RightFirst(C) == {p \in C \X C : p[1].pair[2] < p[2].pair[2]}
Comparison(C) ==
    Lex(Supported(C), Lex(Together(C), Lex(Closer(C), Lex(LeftFirst(C), RightFirst(C), C), C), C), C)

\* Each step of the comparison.
LEMMA ComparisonsAre ==
    ASSUME NEW C
    PROVE  /\ \A c, d \in C : <<c, d>> \in Supported(C) <=> c.support > d.support
           /\ \A c, d \in C : <<c, d>> \in Together(C) <=> Greater(c.shared, c.opportunities, d.shared, d.opportunities)
           /\ \A c, d \in C : <<c, d>> \in Closer(C) <=> Greater(c.shared, Share(c), d.shared, Share(d))
           /\ \A c, d \in C : <<c, d>> \in LeftFirst(C) <=> c.pair[1] < d.pair[1]
           /\ \A c, d \in C : <<c, d>> \in RightFirst(C) <=> c.pair[2] < d.pair[2]
<1>1. \A c, d \in C : <<c, d>> \in C \X C /\ <<c, d>>[1] = c /\ <<c, d>>[2] = d
  OBVIOUS
<1>2. \A c, d \in C : <<c, d>> \in Supported(C) <=> c.support > d.support
  BY <1>1 DEF Supported
<1>3. \A c, d \in C : <<c, d>> \in Together(C) <=> Greater(c.shared, c.opportunities, d.shared, d.opportunities)
  BY <1>1 DEF Together
<1>4. \A c, d \in C : <<c, d>> \in Closer(C) <=> Greater(c.shared, Share(c), d.shared, Share(d))
  BY <1>1 DEF Closer
<1>5. \A c, d \in C : <<c, d>> \in LeftFirst(C) <=> c.pair[1] < d.pair[1]
  BY <1>1 DEF LeftFirst
<1>6. \A c, d \in C : <<c, d>> \in RightFirst(C) <=> c.pair[2] < d.pair[2]
  BY <1>1 DEF RightFirst
<1> QED BY <1>2, <1>3, <1>4, <1>5, <1>6

LEMMA ComparisonsAreWeak ==
    ASSUME NEW C, Comparable(C)
    PROVE  /\ Weak(Supported(C), C) /\ Weak(Together(C), C) /\ Weak(Closer(C), C)
           /\ Weak(LeftFirst(C), C) /\ Weak(RightFirst(C), C)
<1>1. \A c \in C : /\ c.support \in Nat /\ c.shared \in Nat
                   /\ c.opportunities \in Nat \ {0} /\ Share(c) \in Nat \ {0}
                   /\ c.pair[1] \in Nat /\ c.pair[2] \in Nat
  BY DEF Comparable, Counted
<1>2. Weak(Supported(C), C)
  <2>1. \A c, d \in C : c.support > d.support => ~ d.support > c.support
    BY <1>1
  <2>2. \A c, d, e \in C : c.support > e.support => c.support > d.support \/ d.support > e.support
    BY <1>1
  <2> QED BY <2>1, <2>2, ComparisonsAre, Zenon DEF Weak
<1>3. Weak(LeftFirst(C), C)
  <2>1. \A c, d \in C : c.pair[1] < d.pair[1] => ~ d.pair[1] < c.pair[1]
    BY <1>1
  <2>2. \A c, d, e \in C : c.pair[1] < e.pair[1] => c.pair[1] < d.pair[1] \/ d.pair[1] < e.pair[1]
    BY <1>1
  <2> QED BY <2>1, <2>2, ComparisonsAre, Zenon DEF Weak
<1>4. Weak(RightFirst(C), C)
  <2>1. \A c, d \in C : c.pair[2] < d.pair[2] => ~ d.pair[2] < c.pair[2]
    BY <1>1
  <2>2. \A c, d, e \in C : c.pair[2] < e.pair[2] => c.pair[2] < d.pair[2] \/ d.pair[2] < e.pair[2]
    BY <1>1
  <2> QED BY <2>1, <2>2, ComparisonsAre, Zenon DEF Weak
<1>5. Weak(Together(C), C)
  <2> DEFINE G(c, d) == Greater(c.shared, c.opportunities, d.shared, d.opportunities)
  <2>1. \A c, d, e \in C : (G(c, d) => ~ G(d, c)) /\ (G(c, e) => G(c, d) \/ G(d, e))
    <3> TAKE c, d, e \in C
    <3>1. /\ c.shared \in Nat /\ d.shared \in Nat /\ e.shared \in Nat
          /\ c.opportunities \in Nat \ {0} /\ d.opportunities \in Nat \ {0} /\ e.opportunities \in Nat \ {0}
      BY <1>1
    <3>2. Greater(c.shared, c.opportunities, d.shared, d.opportunities) => ~ Greater(d.shared, d.opportunities, c.shared, c.opportunities)
      BY <3>1, FractionsAreWeak
    <3>3. Greater(c.shared, c.opportunities, e.shared, e.opportunities) =>
             \/ Greater(c.shared, c.opportunities, d.shared, d.opportunities)
             \/ Greater(d.shared, d.opportunities, e.shared, e.opportunities)
      BY <3>1, FractionsAreWeak
    <3> QED BY <3>2, <3>3
  <2>2. \A c, d \in C : <<c, d>> \in Together(C) <=> G(c, d)
    BY ComparisonsAre
  <2> HIDE DEF G
  <2> QED BY <2>1, <2>2 DEF Weak
<1>6. Weak(Closer(C), C)
  <2> DEFINE G(c, d) == Greater(c.shared, Share(c), d.shared, Share(d))
  <2>1. \A c, d, e \in C : (G(c, d) => ~ G(d, c)) /\ (G(c, e) => G(c, d) \/ G(d, e))
    <3> TAKE c, d, e \in C
    <3> QED BY <1>1, FractionsAreWeak
  <2>2. \A c, d \in C : <<c, d>> \in Closer(C) <=> G(c, d)
    BY ComparisonsAre
  <2> HIDE DEF G
  <2> QED BY <2>1, <2>2 DEF Weak
<1> QED BY <1>2, <1>3, <1>4, <1>5, <1>6

LEMMA LexIs ==
    ASSUME NEW S, NEW P, NEW Q
    PROVE  \A x, y \in S : <<x, y>> \in Lex(P, Q, S) <=> <<x, y>> \in P \/ (<<y, x>> \notin P /\ <<x, y>> \in Q)
<1> TAKE x, y \in S
<1>1. <<x, y>> \in S \X S /\ <<x, y>>[1] = x /\ <<x, y>>[2] = y
  OBVIOUS
<1> QED BY <1>1 DEF Lex

\* compareCandidates is the five comparisons, one after the other.
LEMMA BeforeIsComparison ==
    ASSUME NEW C, Comparable(C)
    PROVE  \A c, d \in C : Before(c, d) <=> <<c, d>> \in Comparison(C)
<1> TAKE c, d \in C
<1>1. /\ c.support \in Nat /\ d.support \in Nat
      /\ c.pair[1] \in Nat /\ c.pair[2] \in Nat /\ d.pair[1] \in Nat /\ d.pair[2] \in Nat
  BY DEF Comparable, Counted
<1> DEFINE R4 == Lex(LeftFirst(C), RightFirst(C), C)
           R3 == Lex(Closer(C), R4, C)
           R2 == Lex(Together(C), R3, C)
           G1 == Greater(c.shared, c.opportunities, d.shared, d.opportunities)
           H1 == Greater(d.shared, d.opportunities, c.shared, c.opportunities)
           G2 == Greater(c.shared, Share(c), d.shared, Share(d))
           H2 == Greater(d.shared, Share(d), c.shared, Share(c))
<1>2. Before(c, d) <=>
         \/ c.support > d.support
         \/ /\ c.support = d.support
            /\ \/ G1
               \/ /\ ~ H1
                  /\ \/ G2
                     \/ /\ ~ H2
                        /\ \/ c.pair[1] < d.pair[1]
                           \/ c.pair[1] = d.pair[1] /\ c.pair[2] < d.pair[2]
  BY DEF Before, Share
<1> HIDE DEF R4, R3, R2, G1, G2, H1, H2
<1>3. <<c, d>> \in Comparison(C) <=> c.support > d.support \/ (~ d.support > c.support /\ <<c, d>> \in R2)
  <2>1. Comparison(C) = Lex(Supported(C), R2, C)
    BY DEF Comparison, R2, R3, R4
  <2>2. <<c, d>> \in Lex(Supported(C), R2, C) <=> <<c, d>> \in Supported(C) \/ (<<d, c>> \notin Supported(C) /\ <<c, d>> \in R2)
    BY LexIs
  <2> QED BY <2>1, <2>2, ComparisonsAre
<1>4. <<c, d>> \in R2 <=> G1 \/ (~ H1 /\ <<c, d>> \in R3)
  BY LexIs, ComparisonsAre DEF R2, G1, H1
<1>5. <<c, d>> \in R3 <=> G2 \/ (~ H2 /\ <<c, d>> \in R4)
  BY LexIs, ComparisonsAre DEF R3, G2, H2
<1>6. <<c, d>> \in R4 <=> c.pair[1] < d.pair[1] \/ (~ d.pair[1] < c.pair[1] /\ c.pair[2] < d.pair[2])
  <2>1. <<c, d>> \in R4 <=> <<c, d>> \in LeftFirst(C) \/ (<<d, c>> \notin LeftFirst(C) /\ <<c, d>> \in RightFirst(C))
    BY LexIs DEF R4
  <2> QED BY <2>1, ComparisonsAre
<1>7. (~ d.support > c.support /\ ~ c.support > d.support) <=> c.support = d.support
  BY <1>1
<1>8. (~ d.pair[1] < c.pair[1] /\ ~ c.pair[1] < d.pair[1]) <=> c.pair[1] = d.pair[1]
  BY <1>1
<1>9. ~ (c.support > d.support /\ d.support > c.support) /\ ~ (c.pair[1] < d.pair[1] /\ d.pair[1] < c.pair[1])
  BY <1>1
<1> QED BY <1>2, <1>3, <1>4, <1>5, <1>6, <1>7, <1>8, <1>9

\* compareCandidates orders the candidates.
LEMMA BeforeOrders ==
    ASSUME NEW C, Comparable(C)
    PROVE  Orders({p \in C \X C : Before(p[1], p[2])}, C)
<1> DEFINE R == {p \in C \X C : Before(p[1], p[2])}
           O == Comparison(C)
           R4 == Lex(LeftFirst(C), RightFirst(C), C)
           R3 == Lex(Closer(C), R4, C)
           R2 == Lex(Together(C), R3, C)
<1>1. Weak(O, C)
  <2>1. Weak(R4, C)
    BY ComparisonsAreWeak, LexIsWeak
  <2> HIDE DEF R4
  <2>2. Weak(R3, C)
    BY <2>1, ComparisonsAreWeak, LexIsWeak
  <2> HIDE DEF R3
  <2>3. Weak(R2, C)
    BY <2>2, ComparisonsAreWeak, LexIsWeak
  <2> HIDE DEF R2
  <2>4. Weak(Lex(Supported(C), R2, C), C)
    BY <2>3, ComparisonsAreWeak, LexIsWeak
  <2>5. O = Lex(Supported(C), R2, C)
    BY DEF Comparison, R2, R3, R4
  <2> HIDE DEF O
  <2> QED BY <2>4, <2>5
<1>2. \A c, d \in C : <<c, d>> \in R <=> Before(c, d)
  <2> TAKE c, d \in C
  <2>1. <<c, d>> \in C \X C /\ <<c, d>>[1] = c /\ <<c, d>>[2] = d
    OBVIOUS
  <2> QED BY <2>1
<1>3. \A c, d \in C : <<c, d>> \in R <=> <<c, d>> \in O
  BY <1>2, BeforeIsComparison
<1>4. \A c, d \in C : c # d => Before(c, d) \/ Before(d, c)
  <2> SUFFICES ASSUME NEW c \in C, NEW d \in C, c # d PROVE Before(c, d) \/ Before(d, c)
    OBVIOUS
  <2>1. /\ c.support \in Nat /\ d.support \in Nat
        /\ c.pair[1] \in Nat /\ c.pair[2] \in Nat /\ d.pair[1] \in Nat /\ d.pair[2] \in Nat
        /\ ~ (c.pair[1] = d.pair[1] /\ c.pair[2] = d.pair[2])
    BY DEF Comparable, Counted
  <2>2. c.support > d.support \/ d.support > c.support \/ c.support = d.support
    BY <2>1
  <2>3. c.pair[1] < d.pair[1] \/ d.pair[1] < c.pair[1] \/ (c.pair[1] = d.pair[1] /\ (c.pair[2] < d.pair[2] \/ d.pair[2] < c.pair[2]))
    BY <2>1
  <2> DEFINE G1 == Greater(c.shared, c.opportunities, d.shared, d.opportunities)
             H1 == Greater(d.shared, d.opportunities, c.shared, c.opportunities)
             G2 == Greater(c.shared, Share(c), d.shared, Share(d))
             H2 == Greater(d.shared, Share(d), c.shared, Share(c))
             later == c.pair[1] < d.pair[1] \/ (c.pair[1] = d.pair[1] /\ c.pair[2] < d.pair[2])
             other == d.pair[1] < c.pair[1] \/ (d.pair[1] = c.pair[1] /\ d.pair[2] < c.pair[2])
  <2>4. Before(c, d) <=> c.support > d.support \/ (c.support = d.support /\ (G1 \/ (~ H1 /\ (G2 \/ (~ H2 /\ later)))))
    BY DEF Before, Share
  <2>5. Before(d, c) <=> d.support > c.support \/ (d.support = c.support /\ (H1 \/ (~ G1 /\ (H2 \/ (~ G2 /\ other)))))
    BY DEF Before, Share
  <2>6. later \/ other
    BY <2>3
  <2> HIDE DEF G1, H1, G2, H2, later, other
  <2> QED BY <2>2, <2>4, <2>5, <2>6
<1> HIDE DEF R, O
<1>5. Weak(R, C)
  <2>1. \A x, y \in C : <<x, y>> \in R => <<y, x>> \notin R
    BY <1>1, <1>3 DEF Weak
  <2>2. \A x, y, z \in C : <<x, z>> \in R => <<x, y>> \in R \/ <<y, z>> \in R
    BY <1>1, <1>3 DEF Weak
  <2> QED BY <2>1, <2>2 DEF Weak
<1>6. \A x, y \in C : x # y => <<x, y>> \in R \/ <<y, x>> \in R
  BY <1>2, <1>4
<1> QED BY <1>5, <1>6, WeakOrders DEF R

LEMMA PairsAreFinite == IsFiniteSet(Pairs)
<1>1. IsFiniteSet(Eligible)
  BY ShadowAssumption, FS_Subset
<1>2. IsFiniteSet(Eligible \X Eligible)
  BY <1>1, FS_Product
<1>3. Pairs \in SUBSET (Eligible \X Eligible)
  BY DEF Pairs
<1> QED BY <1>2, <1>3, FS_Subset

\* What the gates leave is finitely many candidates that add up and can be compared.
LEMMA QualifiedIs ==
    ASSUME NEW s, Events(s), NEW mode
    PROVE  LET C == Qualified(s, mode)
           IN IsFiniteSet(C) /\ Comparable(C) /\ \A c \in C : AddsUp(c, mode)
<1> DEFINE C == Qualified(s, mode)
           P == {q \in Pairs : Shared(s, q[1], q[2]) >= MinimumShared}
           Stat(p) == StatisticsForPair(s, p[1], p[2], mode)
           D == {Stat(p) : p \in P}
<1>1. C = {c \in D : CandidateClearsGates(c)}
  BY DEF Qualified
<1>2. IsFiniteSet(D)
  <2>1. IsFiniteSet(P)
    BY PairsAreFinite, FS_Subset
  <2> DEFINE st == [p \in P |-> Stat(p)]
  <2>3. st \in Surjection(P, D)
    BY DEF Surjection
  <2> HIDE DEF P, Stat, st, D
  <2> QED BY <2>1, <2>3, FS_Surjection
<1>3. IsFiniteSet(C)
  <2> HIDE DEF D, C
  <2> QED BY <1>1, <1>2, FS_Subset
<1>4. \A p \in P : p = <<p[1], p[2]>> /\ p[1] \in Nat /\ p[2] \in Nat
  <2>1. Eligible \subseteq Nat
    BY ShadowAssumption
  <2>2. \A p \in Pairs : p \in Eligible \X Eligible
    BY DEF Pairs
  <2>3. \A p \in P : p \in Pairs
    OBVIOUS
  <2> HIDE DEF P
  <2> QED BY <2>1, <2>2, <2>3
<1>5. \A p \in P : Stat(p).pair = <<p[1], p[2]>> /\ Counted(Stat(p)) /\ AddsUp(Stat(p), mode)
  BY StatisticsAddUp
<1>6. \A c \in C : CandidateClearsGates(c) /\ \E p \in P : c = Stat(p)
  BY <1>1
<1> HIDE DEF C, P, D, Stat
<1>7. \A c \in C : Counted(c) /\ AddsUp(c, mode) /\ c.pair[1] \in Nat /\ c.pair[2] \in Nat
  BY <1>4, <1>5, <1>6
<1>8. \A c, d \in C : c.pair[1] = d.pair[1] /\ c.pair[2] = d.pair[2] => c = d
  <2> SUFFICES ASSUME NEW c \in C, NEW d \in C, c.pair[1] = d.pair[1], c.pair[2] = d.pair[2] PROVE c = d
    OBVIOUS
  <2>1. PICK p \in P : c = Stat(p)
    BY <1>6
  <2>2. PICK q \in P : d = Stat(q)
    BY <1>6
  <2>3. p[1] = q[1] /\ p[2] = q[2]
    BY <1>5, <2>1, <2>2
  <2>4. p = q
    BY <1>4, <2>3
  <2> QED BY <2>1, <2>2, <2>4
<1>9. \A c \in C : Share(c) \in Nat \ {0} /\ c.opportunities \in Nat \ {0}
  <2> TAKE c \in C
  <2>1. Min({c.left, c.right}) > 0
    BY <1>6 DEF CandidateClearsGates
  <2>2. /\ c.shared \in Nat /\ c.opportunities \in Nat /\ c.left \in Nat /\ c.right \in Nat
        /\ c.shared <= c.left /\ c.shared <= c.right /\ c.left + c.right = c.shared + c.opportunities
    BY <1>7 DEF Counted, AddsUp
  <2>3. Min({c.left, c.right}) = IF c.left <= c.right THEN c.left ELSE c.right
    BY <2>2, MinOfTwo
  <2>4. c.left > 0 /\ c.right > 0
    BY <2>1, <2>2, <2>3
  <2>5. c.opportunities > 0
    BY <2>2, <2>4
  <2> QED BY <2>2, <2>3, <2>4, <2>5 DEF Share
<1>10. Comparable(C)
  BY <1>7, <1>8, <1>9 DEF Comparable
<1> QED BY <1>3, <1>7, <1>10 DEF C

\* The candidates in order: each once, a better one before.
LEMMA OrderedIs ==
    ASSUME NEW C, IsFiniteSet(C), Comparable(C)
    PROVE  LET o == Ordered(C)
               n == Cardinality(C)
           IN /\ n \in Nat /\ o \in [1..n -> C] /\ Len(o) = n
              /\ \A x \in C : \E i \in 1..n : o[i] = x
              /\ \A i, j \in 1..n : i < j => Before(o[i], o[j])
<1> DEFINE o == Ordered(C)
           n == Cardinality(C)
           R == {p \in C \X C : Before(p[1], p[2])}
<1>1. o = Arranged(C, R)
  BY DEF Ordered
<1>2. Orders(R, C)
  BY BeforeOrders
<1> HIDE DEF R, o
<1>3. /\ n \in Nat /\ o \in [1..n -> C] /\ \A x \in C : \E i \in 1..n : o[i] = x
      /\ \A i, j \in 1..n : i < j => <<o[i], o[j]>> \in R
  BY <1>1, <1>2, ArrangedIsBijection
<1> HIDE DEF n
<1>4. \A i, j \in 1..n : i < j => Before(o[i], o[j])
  <2> TAKE i, j \in 1..n
  <2>1. <<o[i], o[j]>> \in R => Before(o[i], o[j])
    BY DEF R
  <2> QED BY <1>3, <2>1
<1>5. o = [i \in 1..n |-> o[i]]
  BY <1>3
<1>6. Len(o) = n
  BY <1>3, <1>5, FunctionIsSequence
<1> QED BY <1>3, <1>4, <1>6 DEF o, n

----------------------------------------------------------------------------
(* What is chosen.                                                         *)

Chooses(f, o) == f = [i \in 0..Len(o) |-> IF i = 0 THEN <<>> ELSE Take(f[i - 1], o[i])]

\* The choice takes one candidate after the other.
LEMMA ChosenIs ==
    ASSUME NEW C, NEW n \in Nat, NEW o \in [1..n -> C], Len(o) = n
    PROVE  \E f \in [0..n -> Seq(C)] :
              /\ f[0] = <<>> /\ \A i \in 1..n : f[i] = Take(f[i - 1], o[i])
              /\ Chosen(o) = f[n]
<1> DEFINE S == Seq(C)
           g == [p \in (1..n) \X S |-> Take(p[2], o[p[1]])]
<1>1. \A i \in 1..n : \A t \in S : g[<<i, t>>] = Take(t, o[i]) /\ Take(t, o[i]) \in S
  <2> TAKE i \in 1..n
  <2> TAKE t \in S
  <2>1. <<i, t>> \in (1..n) \X S /\ <<i, t>>[1] = i /\ <<i, t>>[2] = t /\ o[i] \in C
    OBVIOUS
  <2>2. Append(t, o[i]) \in S
    BY <2>1
  <2>3. Take(t, o[i]) \in S
    BY <2>2 DEF Take
  <2> QED BY <2>1, <2>3
<1>2. g = [p \in (1..n) \X S |-> g[p]]
  OBVIOUS
<1>3. \A p \in (1..n) \X S : p = <<p[1], p[2]>> /\ p[1] \in 1..n /\ p[2] \in S
  OBVIOUS
<1>4. <<>> \in S
  OBVIOUS
<1> HIDE DEF S, g
<1>5. \A p \in (1..n) \X S : g[p] \in S
  BY <1>1, <1>3
<1>6. g \in [(1..n) \X S -> S]
  BY <1>2, <1>5
<1>7. PICK h \in [1..n + 1 -> S] : Runs(h, n, <<>>, g)
  BY <1>4, <1>6, RunsExist
<1> DEFINE f == [i \in 0..n |-> h[i + 1]]
<1>8. \A i \in 0..n : f[i] = h[i + 1] /\ f[i] \in S
  OBVIOUS
<1>9. f[0] = <<>> /\ \A i \in 1..n : f[i] = Take(f[i - 1], o[i])
  <2>1. f[0] = <<>>
    BY <1>7 DEF Runs
  <2>2. \A i \in 1..n : f[i] = Take(f[i - 1], o[i])
    <3> TAKE i \in 1..n
    <3>1. i - 1 \in 0..n /\ (i - 1) + 1 = i /\ i \in 0..n
      OBVIOUS
    <3> HIDE DEF f
    <3>2. f[i - 1] = h[i] /\ h[i] \in S /\ f[i] = h[i + 1]
      BY <1>8, <3>1
    <3>3. h[i + 1] = g[<<i, h[i]>>]
      BY <1>7 DEF Runs
    <3> QED BY <1>1, <3>2, <3>3
  <2> QED BY <2>1, <2>2
<1>10. f = [i \in 0..n |-> f[i]]
  OBVIOUS
<1> HIDE DEF f
<1>11. Chooses(f, o)
  <2>1. \A i \in 0..n : f[i] = IF i = 0 THEN <<>> ELSE Take(f[i - 1], o[i])
    <3> TAKE i \in 0..n
    <3>1. i # 0 => i \in 1..n
      OBVIOUS
    <3> QED BY <1>9, <3>1
  <2> QED BY <1>10, <2>1 DEF Chooses
<1> DEFINE F == CHOOSE u : Chooses(u, o)
<1>12. Chooses(F, o)
  BY <1>11
<1>13. Chosen(o) = F[Len(o)]
  BY DEF Chosen, Chooses
<1> HIDE DEF F
<1>14. DOMAIN F = 0..n /\ F = [i \in 0..n |-> F[i]] /\ F[0] = <<>> /\ \A i \in 1..n : F[i] = Take(F[i - 1], o[i])
  <2>1. F = [i \in 0..n |-> IF i = 0 THEN <<>> ELSE Take(F[i - 1], o[i])]
    BY <1>12 DEF Chooses
  <2>2. DOMAIN F = 0..n /\ \A i \in 0..n : F[i] = IF i = 0 THEN <<>> ELSE Take(F[i - 1], o[i])
    BY <2>1
  <2>3. 0 \in 0..n /\ \A i \in 1..n : i \in 0..n /\ i # 0
    OBVIOUS
  <2>4. F = [i \in 0..n |-> F[i]]
    BY <2>1, <2>2
  <2> QED BY <2>2, <2>3, <2>4
<1>15. \A i \in 0..n : F[i] \in S
  <2> DEFINE T == {i \in 0..n : F[i] \notin S}
  <2> SUFFICES ASSUME T # {} PROVE FALSE
    OBVIOUS
  <2>1. PICK i \in T : \A j \in T : i <= j
    <3>1. T \subseteq Nat
      OBVIOUS
    <3> HIDE DEF T
    <3> QED BY <3>1, LeastNumber
  <2>2. i \in 0..n /\ F[i] \notin S
    OBVIOUS
  <2>3. i # 0
    BY <1>4, <1>14, <2>2
  <2>4. i \in 1..n /\ i - 1 \in 0..n /\ ~ i <= i - 1
    BY <2>2, <2>3
  <2>5. i - 1 \notin T
    <3> HIDE DEF T
    <3> QED BY <2>1, <2>4
  <2>6. F[i - 1] \in S
    BY <2>4, <2>5
  <2>7. F[i] \in S
    BY <1>1, <1>14, <2>4, <2>6
  <2> QED BY <2>2, <2>7
<1>16. F \in [0..n -> S]
  BY <1>14, <1>15
<1> QED BY <1>13, <1>14, <1>16 DEF S

LEMMA ScannedIs ==
    ASSUME NEW h, IsSequence(h)
    PROVE  DOMAIN Scanned(h) = 1..Min({Len(h), ScanRevisions}) /\ Min({Len(h), ScanRevisions}) \in 0..Len(h)
<1> DEFINE k == Min({Len(h), ScanRevisions})
<1>1. Len(h) \in Nat /\ ScanRevisions \in Nat
  BY SequenceShape, ShadowAssumption
<1>2. k \in 0..Len(h)
  BY <1>1, MinOfTwo
<1>3. Scanned(h) = SubSeq(h, 1, k)
  BY DEF Scanned
<1> HIDE DEF k
<1>4. IsSequence(SubSeq(h, 1, k)) /\ Len(SubSeq(h, 1, k)) = k
  BY <1>2, PrefixNumber
<1>5. DOMAIN Scanned(h) = 1..k
  BY <1>3, <1>4, SequenceShape
<1> QED BY <1>2, <1>5 DEF k

\* What is retained are events.
LEMMA RetainedAreEvents ==
    ASSUME NEW h, IsSequence(h)
    PROVE  Events(RetainEligibleEvents(h))
<1> DEFINE I == {i \in Examined(h) : ~ Omitted(h[i])}
           kept == Picked(h, I)
           r == RetainEligibleEvents(h)
<1>1. I \subseteq DOMAIN h
  <2>1. DOMAIN h = 1..Len(h) /\ Len(h) \in Nat
    BY SequenceShape
  <2>2. Examined(h) \subseteq DOMAIN Scanned(h)
    BY DEF Examined
  <2>3. DOMAIN Scanned(h) \subseteq DOMAIN h
    <3> DEFINE k == Min({Len(h), ScanRevisions})
    <3>1. DOMAIN Scanned(h) = 1..k /\ k \in 0..Len(h)
      BY ScannedIs
    <3> HIDE DEF k
    <3> QED BY <2>1, <3>1
  <2> QED BY <2>2, <2>3
<1> HIDE DEF I
<1>2. IsSequence(kept)
  BY <1>1, PickedIs
<1>3. r = [n \in DOMAIN kept |-> Surviving(kept[n])]
  BY DEF RetainEligibleEvents, I
<1> HIDE DEF kept, r
<1>4. Len(kept) \in Nat /\ DOMAIN kept = 1..Len(kept)
  BY <1>2, SequenceShape
<1>5. r = [n \in 1..Len(kept) |-> r[n]] /\ \A n \in 1..Len(kept) : r[n] = Surviving(kept[n])
  BY <1>3, <1>4
<1>6. IsSequence(r) /\ Len(r) = Len(kept)
  BY <1>4, <1>5, FunctionIsSequence
<1>7. \A n \in 1..Len(r) : r[n] \in SUBSET Eligible
  BY <1>5, <1>6 DEF Surviving
<1> QED BY <1>6, <1>7 DEF Events, r

\* What is reported is chosen of the qualified pairs in order.
LEMMA ReportIs ==
    ASSUME NEW h, IsSequence(h), NEW mode
    PROVE  LET C == Qualified(RetainEligibleEvents(h), mode)
               chosen == Report(h, mode).candidates
           IN \/ chosen = <<>> /\ Report(h, mode).status # "ok"
              \/ chosen = Chosen(Ordered(C))
<1> DEFINE s == RetainEligibleEvents(h)
           C == Qualified(s, mode)
<1> HIDE DEF s, C
<1>1. \/ SelectScopeCandidates(s, mode) = Abstained
      \/ SelectScopeCandidates(s, mode).candidates = Chosen(Ordered(C))
  BY DEF SelectScopeCandidates, C
<1>2. Report(h, mode) = Abstained \/ Report(h, mode) = SelectScopeCandidates(s, mode)
  BY DEF Report, s
<1>3. Abstained.candidates = <<>> /\ Abstained.status # "ok"
  BY DEF Abstained
<1> QED BY <1>1, <1>2, <1>3 DEF C, s

LEMMA ReportedAreQualified ==
    ASSUME NEW h, IsSequence(h), NEW mode
    PROVE  Report(h, mode).candidates \in Seq(Qualified(RetainEligibleEvents(h), mode))
<1> DEFINE s == RetainEligibleEvents(h)
           C == Qualified(s, mode)
           n == Cardinality(C)
           o == Ordered(C)
<1>1. IsFiniteSet(C) /\ Comparable(C)
  <2>1. Events(s)
    BY RetainedAreEvents
  <2> HIDE DEF s
  <2> QED BY <2>1, QualifiedIs
<1>9. Report(h, mode).candidates = <<>> \/ Report(h, mode).candidates = Chosen(o)
  BY ReportIs
<1> HIDE DEF C
<1>2. n \in Nat /\ o \in [1..n -> C] /\ Len(o) = n
  BY <1>1, OrderedIs
<1> HIDE DEF o, n
<1>3. PICK f \in [0..n -> Seq(C)] : /\ f[0] = <<>> /\ \A i \in 1..n : f[i] = Take(f[i - 1], o[i])
                                   /\ Chosen(o) = f[n]
  BY <1>2, ChosenIs
<1>4. Chosen(o) \in Seq(C)
  BY <1>2, <1>3
<1>5. <<>> \in Seq(C)
  OBVIOUS
<1> QED BY <1>4, <1>5, <1>9 DEF C

----------------------------------------------------------------------------

HistoryIs == history \in Seq(Diff)

\* The history is made of diffs people commit.
THEOREM HistoryInvariant == ShadowSpec => []HistoryIs
<1>1. ShadowInit => HistoryIs
  BY DEF ShadowInit, HistoryIs
<1>2. HistoryIs /\ [ShadowNext]_history => HistoryIs'
  <2> SUFFICES ASSUME HistoryIs, [ShadowNext]_history PROVE HistoryIs'
    OBVIOUS
  <2>1. CASE ShadowNext
    <3>1. PICK diff \in Diff : history' = <<diff>> \o history
      BY <2>1 DEF ShadowNext, Commit
    <3>2. <<diff>> \in Seq(Diff) /\ history \in Seq(Diff)
      BY DEF HistoryIs
    <3>3. <<diff>> \o history \in Seq(Diff)
      BY <3>2
    <3> QED BY <3>1, <3>3 DEF HistoryIs
  <2>2. CASE UNCHANGED history
    BY <2>2 DEF HistoryIs
  <2> QED BY <2>1, <2>2
<1> QED BY <1>1, <1>2, PTL DEF ShadowSpec

LEMMA SeqIsSequence ==
    ASSUME NEW S, NEW s \in Seq(S)
    PROVE  IsSequence(s) /\ \A i \in 1..Len(s) : s[i] \in S
<1>1. Len(s) \in Nat /\ s \in [1..Len(s) -> S]
  BY LenProperties
<1>2. s = [i \in 1..Len(s) |-> s[i]]
  BY <1>1
<1> QED BY <1>1, <1>2, FunctionIsSequence

LEMMA ReportsAddUp == HistoryIs => CandidatesAddUp
<1> SUFFICES ASSUME HistoryIs, NEW mode \in Mode, NEW c \in Candidates(mode) PROVE AddsUp(c, mode)
  BY DEF CandidatesAddUp, AddsUp
<1> DEFINE C == Qualified(RetainEligibleEvents(history), mode)
           r == Report(history, mode).candidates
<1>1. IsSequence(history)
  BY SeqIsSequence DEF HistoryIs
<1>2. r \in Seq(C)
  BY <1>1, ReportedAreQualified
<1>3. \A x \in C : AddsUp(x, mode)
  BY <1>1, RetainedAreEvents, QualifiedIs
<1>4. c \in ToSet(r)
  BY DEF Candidates
<1> HIDE DEF C, r
<1>5. \A i \in 1..Len(r) : r[i] \in C
  BY <1>2, SeqIsSequence
<1>6. DOMAIN r = 1..Len(r)
  BY <1>2, LenProperties
<1>7. c \in C
  BY <1>4, <1>5, <1>6 DEF ToSet
<1> QED BY <1>3, <1>7

\* Every reported candidate adds up, whatever history people made: the bands of
\* splitOrderedBands lose and repeat no event, left, right, shared and
\* opportunities of statisticsForPair count the same events, and what is shared
\* in the scope is shared in the retained window.
THEOREM CandidatesAlwaysAddUp == ShadowSpec => []CandidatesAddUp
BY HistoryInvariant, ReportsAddUp, PTL

----------------------------------------------------------------------------
(* One revision more.                                                      *)

Shifted(I) == {i + 1 : i \in I}

LEMMA ShiftedIs ==
    ASSUME NEW I, I \subseteq Nat, IsFiniteSet(I)
    PROVE  Shifted(I) \subseteq Nat /\ IsFiniteSet(Shifted(I)) /\ Cardinality(Shifted(I)) = Cardinality(I)
<1> DEFINE J == Shifted(I)
           f == [i \in I |-> i + 1]
<1>1. J \subseteq Nat /\ f \in [I -> J] /\ (\A i, j \in I : f[i] = f[j] => i = j) /\ \A y \in J : \E i \in I : f[i] = y
  BY DEF Shifted
<1> HIDE DEF J, f
<1>2. f \in Surjection(I, J) /\ f \in Injection(I, J)
  BY <1>1 DEF Surjection, Injection, IsInjective
<1>3. IsFiniteSet(J)
  BY <1>2, FS_Surjection
<1>4. Cardinality(I) = Cardinality(J)
  BY <1>2, <1>3, FS_Injection
<1> QED BY <1>1, <1>3, <1>4 DEF J

\* The same elements are picked when all positions move by one.
LEMMA ShiftedPick ==
    ASSUME NEW s, IsSequence(s), NEW t, IsSequence(t), Len(s) = Len(t) + 1, \A i \in 1..Len(t) : s[i + 1] = t[i],
           NEW I, I \subseteq 1..Len(t)
    PROVE  Picked(s, Shifted(I)) = Picked(t, I)
<1> DEFINE n == Len(t)
           J == Shifted(I)
           at == Arranged(I, Below(I))
           to == Arranged(J, Below(J))
           m == Cardinality(I)
           p == Picked(t, I)
           q == Picked(s, J)
<1>1. n \in Nat /\ DOMAIN t = 1..n /\ DOMAIN s = 1..n + 1
  BY SequenceShape
<1>2. IsSequence(p) /\ Len(p) = m /\ (\A k \in 1..m : p[k] = t[at[k]]) /\ IsFiniteSet(I) /\ I \subseteq Nat
  <2>1. I \subseteq DOMAIN t
    BY <1>1
  <2>2. IsFiniteSet(I) /\ I \subseteq Nat /\ IsSequence(p) /\ Len(p) = m
    BY <2>1, PickedIs
  <2>3. \A k \in 1..Len(p) : p[k] = t[at[k]]
    BY <2>1, PickedIs
  <2> HIDE DEF p, m, at
  <2> QED BY <2>2, <2>3
<1>3. J \subseteq Nat /\ IsFiniteSet(J) /\ Cardinality(J) = m
  BY <1>2, ShiftedIs
<1>4. J \subseteq DOMAIN s
  <2> HIDE DEF n
  <2> QED BY <1>1 DEF Shifted, n
<1>5. IsSequence(q) /\ Len(q) = m /\ \A k \in 1..m : q[k] = s[to[k]]
  BY <1>3, <1>4, PickedIs
<1>6. m \in Nat /\ at \in [1..m -> I] /\ \A k \in 1..m : Cardinality({y \in I : y < at[k]}) = k - 1
  BY <1>2, PositionsAre
<1>7. to \in [1..m -> J] /\ \A k \in 1..m : Cardinality({y \in J : y < to[k]}) = k - 1
  BY <1>3, PositionsAre
<1>8. \A x, y \in J : Cardinality({z \in J : z < x}) = Cardinality({z \in J : z < y}) => x = y
  BY <1>3, PositionsAre
<1> HIDE DEF at, to, m, p, q
<1>9. \A i \in I : i + 1 \in J /\ Cardinality({y \in J : y < i + 1}) = Cardinality({y \in I : y < i})
  <2> TAKE i \in I
  <2> DEFINE L == {y \in I : y < i}
  <2>1. i + 1 \in J /\ {y \in J : y < i + 1} = Shifted(L)
    BY <1>2 DEF Shifted
  <2>2. L \subseteq Nat /\ IsFiniteSet(L)
    BY <1>2, FS_Subset
  <2> HIDE DEF L
  <2>3. Cardinality(Shifted(L)) = Cardinality(L)
    BY <2>2, ShiftedIs
  <2> QED BY <2>1, <2>3 DEF L
<1>10. \A k \in 1..m : to[k] = at[k] + 1
  <2> TAKE k \in 1..m
  <2>1. at[k] \in I /\ to[k] \in J
    BY <1>6, <1>7
  <2>2. at[k] + 1 \in J /\ Cardinality({y \in J : y < at[k] + 1}) = Cardinality({y \in I : y < at[k]})
    BY <1>9, <2>1
  <2>3. Cardinality({y \in J : y < at[k] + 1}) = Cardinality({y \in J : y < to[k]})
    BY <1>6, <1>7, <2>2
  <2> QED BY <1>8, <2>1, <2>2, <2>3
<1>11. \A k \in 1..m : q[k] = p[k]
  <2> TAKE k \in 1..m
  <2>1. at[k] \in 1..n /\ to[k] = at[k] + 1
    BY <1>6, <1>10
  <2>2. s[at[k] + 1] = t[at[k]]
    BY <2>1
  <2> QED BY <1>2, <1>5, <2>1, <2>2
<1>12. p = [k \in 1..m |-> p[k]] /\ q = [k \in 1..m |-> q[k]]
  BY <1>2, <1>5, SequenceShape
<1>13. p = q
  BY <1>11, <1>12
<1> QED BY <1>13 DEF p, q, J

\* The scan sees the same revisions behind one that is left out.
LEMMA ExaminedBehind ==
    ASSUME NEW h, IsSequence(h), NEW t, IsSequence(t), Len(h) = Len(t) + 1, \A i \in 1..Len(t) : h[i + 1] = t[i],
           Len(h) <= ScanRevisions, Omitted(h[1])
    PROVE  /\ Examined(t) \subseteq 1..Len(t) /\ Examined(h) \subseteq 1..Len(h)
           /\ \A i \in 1..Len(t) : i + 1 \in Examined(h) <=> i \in Examined(t)
<1> DEFINE n == Len(t)
<1>1. n \in Nat /\ ScanRevisions \in Nat /\ Len(h) = n + 1
  BY SequenceShape, ShadowAssumption
<1>2. DOMAIN Scanned(t) = 1..n /\ DOMAIN Scanned(h) = 1..n + 1
  <2>1. Min({Len(t), ScanRevisions}) = n
    BY <1>1, MinOfTwo
  <2>2. Min({Len(h), ScanRevisions}) = n + 1
    BY <1>1, MinOfTwo
  <2> QED BY <2>1, <2>2, <1>1, ScannedIs
<1>3. \A i : i \in Examined(h) <=> i \in 1..n + 1 /\ Cardinality({j \in 1..i - 1 : ~ Omitted(h[j])}) < RetainedDiffs
  BY <1>2 DEF Examined
<1>4. \A i : i \in Examined(t) <=> i \in 1..n /\ Cardinality({j \in 1..i - 1 : ~ Omitted(t[j])}) < RetainedDiffs
  BY <1>2 DEF Examined
<1>5. \A i \in 1..n : Cardinality({j \in 1..(i + 1) - 1 : ~ Omitted(h[j])}) = Cardinality({j \in 1..i - 1 : ~ Omitted(t[j])})
  <2> TAKE i \in 1..n
  <2> DEFINE A == {j \in 1..i - 1 : ~ Omitted(t[j])}
             B == {j \in 1..(i + 1) - 1 : ~ Omitted(h[j])}
  <2>1. \A j \in A : j + 1 \in B
    <3> TAKE j \in A
    <3>1. j \in 1..n /\ j + 1 \in 1..(i + 1) - 1
      BY <1>1
    <3>2. h[j + 1] = t[j]
      BY <3>1
    <3> QED BY <3>1, <3>2
  <2>2. \A k \in B : k - 1 \in A /\ (k - 1) + 1 = k
    <3> TAKE k \in B
    <3>1. k # 1 /\ k \in 1..(i + 1) - 1 /\ ~ Omitted(h[k])
      OBVIOUS
    <3>2. k - 1 \in 1..i - 1 /\ k - 1 \in 1..n /\ (k - 1) + 1 = k
      BY <1>1, <3>1
    <3>3. h[(k - 1) + 1] = t[k - 1]
      BY <3>2
    <3> QED BY <3>1, <3>2, <3>3
  <2>3. A \subseteq Nat /\ IsFiniteSet(A)
    <3>0. 1 \in Int /\ i - 1 \in Int
      BY <1>1
    <3>1. A \in SUBSET (1..i - 1) /\ IsFiniteSet(1..i - 1)
      BY <3>0, FS_Interval
    <3> HIDE DEF A
    <3>2. IsFiniteSet(A)
      BY <3>1, FS_Subset
    <3> QED BY <1>1, <3>1, <3>2
  <2> HIDE DEF A, B
  <2>4. B = Shifted(A)
    BY <2>1, <2>2 DEF Shifted
  <2>5. Cardinality(B) = Cardinality(A)
    BY <2>3, <2>4, ShiftedIs
  <2> QED BY <2>5 DEF A, B
<1>6. \A i \in 1..n : i + 1 \in 1..n + 1
  BY <1>1
<1> QED BY <1>1, <1>3, <1>4, <1>5, <1>6

LEMMA SameRetained ==
    ASSUME NEW h, IsSequence(h), NEW t, IsSequence(t), Len(h) = Len(t) + 1, \A i \in 1..Len(t) : h[i + 1] = t[i],
           Len(h) <= ScanRevisions, Omitted(h[1])
    PROVE  RetainEligibleEvents(h) = RetainEligibleEvents(t)
<1> DEFINE n == Len(t)
           I == {i \in Examined(t) : ~ Omitted(t[i])}
           J == {i \in Examined(h) : ~ Omitted(h[i])}
<1>1. n \in Nat /\ Len(h) = n + 1
  BY SequenceShape
<1>2. /\ Examined(t) \subseteq 1..n /\ Examined(h) \subseteq 1..n + 1
      /\ \A i \in 1..n : i + 1 \in Examined(h) <=> i \in Examined(t)
  BY <1>1, ExaminedBehind
<1>3. \A i \in I : i + 1 \in J
  BY <1>2
<1>4. \A k \in J : k - 1 \in I /\ (k - 1) + 1 = k
  <2> TAKE k \in J
  <2>1. k \in 1..n + 1 /\ k # 1 /\ ~ Omitted(h[k]) /\ k \in Examined(h)
    BY <1>2
  <2>2. k - 1 \in 1..n /\ (k - 1) + 1 = k
    BY <1>1, <2>1
  <2>3. h[(k - 1) + 1] = t[k - 1] /\ k - 1 \in Examined(t)
    BY <1>2, <2>1, <2>2
  <2> QED BY <2>1, <2>2, <2>3
<1>5. I \subseteq 1..n
  BY <1>2
<1>6. RetainEligibleEvents(h) = [k \in DOMAIN Picked(h, J) |-> Surviving(Picked(h, J)[k])]
  BY DEF RetainEligibleEvents
<1>7. RetainEligibleEvents(t) = [k \in DOMAIN Picked(t, I) |-> Surviving(Picked(t, I)[k])]
  BY DEF RetainEligibleEvents
<1> HIDE DEF I, J
<1>8. J = Shifted(I)
  BY <1>3, <1>4 DEF Shifted
<1>9. Picked(h, Shifted(I)) = Picked(t, I)
  BY <1>5, ShiftedPick
<1> QED BY <1>6, <1>7, <1>8, <1>9

LEMMA SameLimit ==
    ASSUME NEW h, IsSequence(h), NEW t, IsSequence(t), Len(h) = Len(t) + 1, \A i \in 1..Len(t) : h[i + 1] = t[i],
           Len(h) <= ScanRevisions, Omitted(h[1]), ~ Cardinality(h[1]) > MaxDiffPaths
    PROVE  DiffPathLimit(h) <=> DiffPathLimit(t)
<1> DEFINE n == Len(t)
<1>1. n \in Nat /\ Len(h) = n + 1
  BY SequenceShape
<1>2. /\ Examined(t) \subseteq 1..n /\ Examined(h) \subseteq 1..n + 1
      /\ \A i \in 1..n : i + 1 \in Examined(h) <=> i \in Examined(t)
  BY <1>1, ExaminedBehind
<1>3. ASSUME DiffPathLimit(t) PROVE DiffPathLimit(h)
  <2>1. PICK i \in Examined(t) : Cardinality(t[i]) > MaxDiffPaths
    BY <1>3 DEF DiffPathLimit
  <2>2. i \in 1..n /\ i + 1 \in Examined(h)
    BY <1>2
  <2>3. h[i + 1] = t[i]
    BY <2>2
  <2> QED BY <2>1, <2>2, <2>3 DEF DiffPathLimit
<1>4. ASSUME DiffPathLimit(h) PROVE DiffPathLimit(t)
  <2>1. PICK k \in Examined(h) : Cardinality(h[k]) > MaxDiffPaths
    BY <1>4 DEF DiffPathLimit
  <2>2. k \in 1..n + 1 /\ k # 1
    BY <1>2, <2>1
  <2>3. k - 1 \in 1..n /\ (k - 1) + 1 = k
    BY <1>1, <2>2
  <2>4. k - 1 \in Examined(t) /\ h[(k - 1) + 1] = t[k - 1]
    BY <1>2, <2>3
  <2> QED BY <2>1, <2>3, <2>4 DEF DiffPathLimit
<1> QED BY <1>3, <1>4

LEMMA NothingChanges == HistoryIs => OmittedChangesNothing
<1> SUFFICES ASSUME HistoryIs, history # <<>>, Len(history) <= ScanRevisions, Omitted(Head(history)),
                    Cardinality(Head(history)) <= MaxDiffPaths, NEW mode \in Mode
             PROVE  Report(history, mode) = Report(Tail(history), mode)
  BY DEF OmittedChangesNothing
<1> DEFINE h == history
           t == Tail(history)
<1>1. h \in Seq(Diff) /\ t \in Seq(Diff) /\ Head(h) = h[1] /\ Len(t) = Len(h) - 1 /\ h[1] \in Diff
      /\ Len(h) \in Nat /\ \A i \in 1..Len(t) : t[i] = h[i + 1]
  BY HeadTailProperties, LenProperties DEF HistoryIs
<1>2. IsSequence(h) /\ IsSequence(t)
  BY <1>1, SeqIsSequence
<1>3. ~ Cardinality(h[1]) > MaxDiffPaths
  <2>1. Cardinality(h[1]) \in Nat /\ MaxDiffPaths \in Nat
    BY <1>1, ShadowAssumption, FS_CardinalityType
  <2> QED BY <1>1, <2>1
<1>4. Len(h) = Len(t) + 1 /\ Omitted(h[1])
  BY <1>1
<1>5. \A i \in 1..Len(t) : h[i + 1] = t[i]
  BY <1>1
<1> HIDE DEF t
<1>6. RetainEligibleEvents(h) = RetainEligibleEvents(t)
  BY <1>2, <1>4, <1>5, SameRetained
<1>7. DiffPathLimit(h) <=> DiffPathLimit(t)
  BY <1>2, <1>3, <1>4, <1>5, SameLimit
<1>8. Report(h, mode) = Report(t, mode)
  BY <1>6, <1>7 DEF Report
<1> QED BY <1>8 DEF t

\* A diff that retainEligibleEvents leaves out takes no place in the retained
\* window and changes no report, for every policy and every history within the scan.
THEOREM OmittedNeverChanges == ShadowSpec => []OmittedChangesNothing
BY HistoryInvariant, NothingChanges, PTL

----------------------------------------------------------------------------
(* No path twice.                                                          *)

Ends(c) == {c.pair[1], c.pair[2]}

\* Why a candidate is not among the chosen ones.
Met(t, c) == \E i \in 1..Len(t) : Before(t[i], c) /\ Ends(t[i]) \cap Ends(c) # {}
Full(t, c) == Len(t) = OutputCandidates /\ \A i \in 1..Len(t) : Before(t[i], c)

\* What is chosen of the first k candidates.
Separate(t, o, k) ==
    /\ Len(t) <= OutputCandidates
    /\ \A i \in 1..Len(t) : \E a \in 1..k : t[i] = o[a]
    /\ \A i, j \in 1..Len(t) : i < j => Before(t[i], t[j]) /\ Ends(t[i]) \cap Ends(t[j]) = {}
    /\ \A a \in 1..k : (\E i \in 1..Len(t) : t[i] = o[a]) \/ Met(t, o[a]) \/ Full(t, o[a])

LEMMA TakeSeparates ==
    ASSUME NEW C, NEW n \in Nat, NEW o \in [1..n -> C], \A a, b \in 1..n : a < b => Before(o[a], o[b]),
           NEW k \in 1..n, NEW t \in Seq(C), Separate(t, o, k - 1)
    PROVE  Separate(Take(t, o[k]), o, k)
<1> DEFINE m == Len(t)
           u == Append(t, o[k])
<1>1. m \in Nat /\ o[k] \in C /\ DOMAIN t = 1..m /\ k - 1 \in Nat /\ k \in Nat
  BY LenProperties
<1>2. \A a \in 1..k - 1 : a \in 1..n /\ a \in 1..k /\ a < k
  BY <1>1
<1>3. CASE Take(t, o[k]) = t
  <2>1. \A i \in 1..m : \E a \in 1..k : t[i] = o[a]
    BY <1>2 DEF Separate
  <2>2. \A i \in 1..m : Before(t[i], o[k])
    <3> TAKE i \in 1..m
    <3>1. PICK a \in 1..k - 1 : t[i] = o[a]
      BY DEF Separate
    <3> QED BY <1>2, <3>1
  <2>3. Met(t, o[k]) \/ Full(t, o[k])
    <3>1. CASE Len(t) < OutputCandidates
      <4>1. Len(u) = m + 1
        BY <1>1, AppendProperties
      <4>2. u # t
        <5>1. \A x \in Nat : x + 1 # x
          OBVIOUS
        <5>2. m + 1 # m
          BY <1>1, <5>1
        <5> HIDE DEF u
        <5>3. Len(u) # Len(t)
          BY <4>1, <5>2, Zenon
        <5> QED BY <5>3
      <4>3. Ends(o[k]) \cap Paths(t) # {}
        BY <1>3, <3>1, <4>2 DEF Take, Ends
      <4>4. PICK i \in 1..m : Ends(t[i]) \cap Ends(o[k]) # {}
        <5>1. PICK p \in Ends(o[k]), c \in ToSet(t) : p \in Ends(c)
          BY <4>3 DEF Paths, Ends
        <5>2. PICK i \in 1..m : c = t[i]
          BY <1>1, <5>1 DEF ToSet
        <5> QED BY <5>1, <5>2
      <4> QED BY <2>2, <4>4 DEF Met
    <3>2. CASE ~ Len(t) < OutputCandidates
      <4>1. Len(t) = OutputCandidates
        BY <1>1, <3>2, ShadowAssumption DEF Separate
      <4> QED BY <2>2, <4>1 DEF Full
    <3> QED BY <3>1, <3>2
  <2>4. \A a \in 1..k : a = k \/ a \in 1..k - 1
    BY <1>1
  <2>5. \A a \in 1..k : (\E i \in 1..m : t[i] = o[a]) \/ Met(t, o[a]) \/ Full(t, o[a])
    BY <2>3, <2>4 DEF Separate
  <2> QED BY <1>3, <2>1, <2>5 DEF Separate
<1>4. CASE Take(t, o[k]) # t
  <2>1. Take(t, o[k]) = u /\ Ends(o[k]) \cap Paths(t) = {} /\ Len(t) < OutputCandidates
    BY <1>4 DEF Take, Ends
  <2>2. Len(u) = m + 1 /\ u[m + 1] = o[k] /\ \A i \in 1..m : u[i] = t[i]
    BY <1>1, AppendProperties
  <2> HIDE DEF u, m
  <2>3. \A i \in 1..m : \E a \in 1..k - 1 : t[i] = o[a]
    BY DEF Separate, m
  <2>4. \A i, j \in 1..m : i < j => Before(t[i], t[j]) /\ Ends(t[i]) \cap Ends(t[j]) = {}
    BY DEF Separate, m
  <2>5. \A i \in 1..m : Before(t[i], o[k]) /\ Ends(t[i]) \cap Ends(o[k]) = {}
    <3> TAKE i \in 1..m
    <3>1. PICK a \in 1..k - 1 : t[i] = o[a]
      BY <2>3
    <3>2. Before(t[i], o[k])
      BY <1>2, <3>1
    <3>3. Ends(t[i]) \subseteq Paths(t)
      <4>1. t[i] \in ToSet(t)
        BY <1>1 DEF ToSet
      <4> QED BY <4>1 DEF Paths, Ends
    <3> QED BY <2>1, <3>2, <3>3
  <2>6. \A i \in 1..m + 1 : i # m + 1 => i \in 1..m
    BY <1>1
  <2>7. \A i \in 1..m + 1 : \E a \in 1..k : u[i] = o[a]
    <3> TAKE i \in 1..m + 1
    <3>1. CASE i = m + 1
      <4>1. k \in 1..k
        BY <1>1
      <4> QED BY <2>2, <3>1, <4>1
    <3>2. CASE i # m + 1
      <4>1. i \in 1..m
        BY <2>6, <3>2
      <4>2. PICK a \in 1..k - 1 : t[i] = o[a]
        BY <2>3, <4>1
      <4> QED BY <1>2, <2>2, <4>1, <4>2
    <3> QED BY <3>1, <3>2
  <2>8. \A i, j \in 1..m + 1 : i < j => Before(u[i], u[j]) /\ Ends(u[i]) \cap Ends(u[j]) = {}
    <3> SUFFICES ASSUME NEW i \in 1..m + 1, NEW j \in 1..m + 1, i < j
                 PROVE  Before(u[i], u[j]) /\ Ends(u[i]) \cap Ends(u[j]) = {}
      OBVIOUS
    <3>1. i \in 1..m /\ (j = m + 1 \/ j \in 1..m)
      BY <1>1
    <3>2. CASE j = m + 1
      BY <2>2, <2>5, <3>1, <3>2
    <3>3. CASE j \in 1..m
      BY <2>2, <2>4, <3>1, <3>3
    <3> QED BY <3>1, <3>2, <3>3
  <2>9. Len(u) <= OutputCandidates
    BY <1>1, <2>1, <2>2, ShadowAssumption
  <2>10. \A a \in 1..k : (\E i \in 1..m + 1 : u[i] = o[a]) \/ Met(u, o[a])
    <3> TAKE a \in 1..k
    <3>1. \A i \in 1..m : i \in 1..m + 1
      BY <1>1
    <3>2. CASE a = k
      <4>1. m + 1 \in 1..m + 1
        BY <1>1
      <4> QED BY <2>2, <3>2, <4>1
    <3>3. CASE a # k
      <4>1. a \in 1..k - 1
        BY <1>1, <3>3
      <4>2. ~ Full(t, o[a])
        BY <1>1, <2>1, ShadowAssumption DEF Full
      <4>3. (\E i \in 1..m : t[i] = o[a]) \/ Met(t, o[a])
        BY <4>1, <4>2 DEF Separate, m
      <4>4. CASE \E i \in 1..m : t[i] = o[a]
        BY <2>2, <3>1, <4>4
      <4>5. CASE Met(t, o[a])
        <5>1. PICK i \in 1..m : Before(t[i], o[a]) /\ Ends(t[i]) \cap Ends(o[a]) # {}
          BY <4>5 DEF Met, m
        <5>2. Before(u[i], o[a]) /\ Ends(u[i]) \cap Ends(o[a]) # {} /\ i \in 1..Len(u)
          BY <2>2, <3>1, <5>1
        <5> QED BY <5>2 DEF Met
      <4> QED BY <4>3, <4>4, <4>5
    <3> QED BY <3>2, <3>3
  <2>11. Separate(u, o, k)
    BY <2>2, <2>7, <2>8, <2>9, <2>10 DEF Separate
  <2> QED BY <2>1, <2>11
<1> QED BY <1>3, <1>4

LEMMA ChosenSeparates ==
    ASSUME NEW C, NEW n \in Nat, NEW o \in [1..n -> C], Len(o) = n, \A a, b \in 1..n : a < b => Before(o[a], o[b])
    PROVE  Chosen(o) \in Seq(C) /\ Separate(Chosen(o), o, n)
<1>1. PICK f \in [0..n -> Seq(C)] : /\ f[0] = <<>> /\ \A i \in 1..n : f[i] = Take(f[i - 1], o[i])
                                   /\ Chosen(o) = f[n]
  BY ChosenIs
<1>2. \A k \in 0..n : Separate(f[k], o, k)
  <2> DEFINE T == {k \in 0..n : ~ Separate(f[k], o, k)}
  <2> SUFFICES ASSUME T # {} PROVE FALSE
    OBVIOUS
  <2>1. PICK k \in T : \A j \in T : k <= j
    <3>1. T \subseteq Nat
      OBVIOUS
    <3> HIDE DEF T
    <3> QED BY <3>1, LeastNumber
  <2>2. k \in 0..n /\ ~ Separate(f[k], o, k)
    OBVIOUS
  <2>3. Separate(<<>>, o, 0)
    BY ShadowAssumption DEF Separate
  <2>4. k # 0
    BY <1>1, <2>2, <2>3
  <2>5. k \in 1..n /\ k - 1 \in 0..n /\ ~ k <= k - 1
    BY <2>2, <2>4
  <2>6. k - 1 \notin T
    <3> HIDE DEF T
    <3> QED BY <2>1, <2>5
  <2>7. Separate(f[k - 1], o, k - 1) /\ f[k - 1] \in Seq(C)
    BY <2>5, <2>6
  <2>8. Separate(Take(f[k - 1], o[k]), o, k)
    BY <2>5, <2>7, TakeSeparates
  <2> QED BY <1>1, <2>2, <2>5, <2>8
<1>3. n \in 0..n
  OBVIOUS
<1> QED BY <1>1, <1>2, <1>3

LEMMA ReportsAreDisjoint == HistoryIs => CandidatesDisjoint
<1> SUFFICES ASSUME HistoryIs, NEW mode \in Mode
             PROVE  LET report == Report(history, mode)
                        chosen == report.candidates
                        E(c) == {c.pair[1], c.pair[2]}
                        Better(i, c) == Before(chosen[i], c)
                    IN /\ \A i, j \in DOMAIN chosen :
                             i < j => E(chosen[i]) \cap E(chosen[j]) = {} /\ Better(i, chosen[j])
                       /\ report.status = "ok" =>
                             \A c \in Qualified(RetainEligibleEvents(history), mode) \ ToSet(chosen) :
                                \/ \E i \in DOMAIN chosen : Better(i, c) /\ E(chosen[i]) \cap E(c) # {}
                                \/ Len(chosen) = OutputCandidates /\ \A i \in DOMAIN chosen : Better(i, c)
  BY DEF CandidatesDisjoint
<1> DEFINE s == RetainEligibleEvents(history)
           C == Qualified(s, mode)
           n == Cardinality(C)
           o == Ordered(C)
           ok == Report(history, mode).status = "ok"
           chosen == Report(history, mode).candidates
           m == Len(chosen)
<1>1. IsSequence(history)
  BY SeqIsSequence DEF HistoryIs
<1>2. Events(s)
  BY <1>1, RetainedAreEvents
<1>3. (chosen = <<>> /\ ~ ok) \/ chosen = Chosen(o)
  BY <1>1, ReportIs
<1> HIDE DEF s, ok, chosen
<1>4. IsFiniteSet(C) /\ Comparable(C)
  BY <1>2, QualifiedIs
<1> HIDE DEF C
<1>5. /\ n \in Nat /\ o \in [1..n -> C] /\ Len(o) = n /\ \A i, j \in 1..n : i < j => Before(o[i], o[j])
      /\ \A x \in C : \E a \in 1..n : o[a] = x
  BY <1>4, OrderedIs
<1> HIDE DEF n, o
<1>6. Chosen(o) \in Seq(C) /\ Separate(Chosen(o), o, n)
  BY <1>5, ChosenSeparates
<1>7. <<>> \in Seq(C) /\ Len(<<>>) = 0
  OBVIOUS
<1>8. DOMAIN chosen = 1..m /\ m \in Nat
  BY <1>3, <1>6, <1>7, LenProperties
<1> HIDE DEF m
<1>9. \A i, j \in 1..m : i < j => Ends(chosen[i]) \cap Ends(chosen[j]) = {} /\ Before(chosen[i], chosen[j])
  <2>1. CASE chosen = <<>>
    BY <1>7, <2>1 DEF m
  <2>2. CASE chosen = Chosen(o)
    BY <1>6, <2>2 DEF Separate, m
  <2> QED BY <1>3, <2>1, <2>2
<1>10. ASSUME ok, NEW c \in C, c \notin ToSet(chosen)
       PROVE  \/ \E i \in 1..m : Before(chosen[i], c) /\ Ends(chosen[i]) \cap Ends(c) # {}
              \/ m = OutputCandidates /\ \A i \in 1..m : Before(chosen[i], c)
  <2>1. Separate(chosen, o, n)
    BY <1>3, <1>6, <1>10
  <2>2. PICK a \in 1..n : o[a] = c
    BY <1>5
  <2>3. \A i \in 1..m : chosen[i] # c
    BY <1>8, <1>10 DEF ToSet
  <2>4. Met(chosen, c) \/ Full(chosen, c)
    BY <2>1, <2>2, <2>3 DEF Separate, m
  <2> QED BY <2>4 DEF Met, Full, m
<1> QED BY <1>8, <1>9, <1>10 DEF Ends, ok, chosen, C, s, m

\* selectScopeCandidates uses no path twice, reports a better candidate first and
\* leaves a qualified pair out only for better ones, for every history and policy:
\* compareCandidates is a total order on the qualified pairs.
THEOREM CandidatesAreDisjoint == ShadowSpec => []CandidatesDisjoint
BY HistoryInvariant, ReportsAreDisjoint, PTL

----------------------------------------------------------------------------
(* Annotations.                                                            *)

Note == [route : Eligible, companion : Eligible]
Named(t) == UNION {{a.route, a.companion} : a \in ToSet(t)}

\* The candidates name two eligible paths each.
Paired(C) == \A c \in C : c.pair[1] \in Eligible /\ c.pair[2] \in Eligible /\ c.pair[1] # c.pair[2]

\* Of all candidates with the route, the companion's leads.
Leads(a, C) ==
    \E c \in C : /\ Ends(c) = {a.route, a.companion}
                 /\ \A d \in C \ {c} : a.route \in Ends(d) => c.support >= d.support + RunnerUpMargin

\* What annotations have in common.
Sound(t, C) ==
    /\ t \in Seq(Note) /\ Len(t) <= FutureAnnotations
    /\ IsFiniteSet(Named(t)) /\ Cardinality(Named(t)) = 2 * Len(t)
    /\ \A i \in 1..Len(t) : Leads(t[i], C)

\* Pairs are of two paths.
LEMMA QualifiedArePaired ==
    ASSUME NEW s, Events(s), NEW mode
    PROVE  Paired(Qualified(s, mode)) /\ \A c \in Qualified(s, mode) : CandidateClearsGates(c)
<1> SUFFICES ASSUME NEW c \in Qualified(s, mode)
             PROVE  /\ c.pair[1] \in Eligible /\ c.pair[2] \in Eligible /\ c.pair[1] # c.pair[2]
                    /\ CandidateClearsGates(c)
  BY DEF Paired
<1>1. PICK p \in Pairs : c = StatisticsForPair(s, p[1], p[2], mode)
  BY DEF Qualified
<1>2. c.pair = <<p[1], p[2]>>
  BY <1>1, StatisticsAddUp
<1>3. p \in Eligible \X Eligible /\ p[1] < p[2]
  BY DEF Pairs
<1>4. p[1] \in Eligible /\ p[2] \in Eligible /\ p[1] # p[2]
  <2>1. p[1] \in Eligible /\ p[2] \in Eligible /\ Eligible \subseteq Nat
    BY <1>3, ShadowAssumption
  <2>2. p[1] \in Nat /\ p[2] \in Nat
    BY <2>1
  <2> QED BY <1>3, <2>1, <2>2
<1>5. CandidateClearsGates(c)
  BY DEF Qualified
<1> QED BY <1>2, <1>4, <1>5

\* The best candidate of a route that clears the margin leads all of them.
LEMMA WinnerLeads ==
    ASSUME NEW C, IsFiniteSet(C), Comparable(C), \A c \in C : CandidateClearsGates(c), NEW path,
           LET choices == Ordered({c \in C : CandidateClearsGates(c) /\ path \in {c.pair[1], c.pair[2]}})
           IN /\ choices # <<>>
              /\ ~ (Len(choices) > 1 /\ choices[1].support < choices[2].support + RunnerUpMargin)
    PROVE  LET choices == Ordered({c \in C : CandidateClearsGates(c) /\ path \in {c.pair[1], c.pair[2]}})
           IN /\ choices[1] \in C /\ path \in Ends(choices[1])
              /\ \A d \in C \ {choices[1]} :
                    path \in Ends(d) => choices[1].support >= d.support + RunnerUpMargin
<1> DEFINE D == {c \in C : CandidateClearsGates(c) /\ path \in {c.pair[1], c.pair[2]}}
           n == Cardinality(D)
           o == Ordered(D)
<1>1. IsFiniteSet(D) /\ D \subseteq C
  BY FS_Subset
<1>2. \A c \in C : c \in D <=> path \in Ends(c)
  BY DEF Ends
<1>3. o # <<>> /\ ~ (Len(o) > 1 /\ o[1].support < o[2].support + RunnerUpMargin)
  OBVIOUS
<1> HIDE DEF D
<1>4. Comparable(D)
  BY <1>1 DEF Comparable
<1>5. /\ n \in Nat /\ o \in [1..n -> D] /\ Len(o) = n
      /\ \A x \in D : \E i \in 1..n : o[i] = x
      /\ \A i, j \in 1..n : i < j => Before(o[i], o[j])
  BY <1>1, <1>4, OrderedIs
<1> HIDE DEF o, n
<1>6. n # 0
  <2>1. o \in Seq(D)
    BY <1>5
  <2> QED BY <1>3, <1>5, <2>1, EmptySeq
<1>7. 1 \in 1..n /\ o[1] \in D /\ RunnerUpMargin \in Nat
  BY <1>5, <1>6, ShadowAssumption
<1>8. \A d \in D : d.support \in Nat
  BY <1>4 DEF Comparable, Counted
<1>9. ASSUME NEW d \in D \ {o[1]} PROVE o[1].support >= d.support + RunnerUpMargin
  <2>1. PICK i \in 1..n : o[i] = d
    BY <1>5
  <2>2. i # 1 /\ 2 \in 1..n /\ Len(o) > 1
    BY <1>5, <2>1
  <2>3. o[2].support >= d.support
    <3>1. i = 2 \/ 2 < i
      BY <1>5, <2>2
    <3>2. CASE i = 2
      BY <1>8, <2>1, <3>2
    <3>3. CASE 2 < i
      <4>1. Before(o[2], o[i]) /\ o[2] \in D
        BY <1>5, <2>2, <3>3
      <4>2. o[2].support > o[i].support \/ o[2].support = o[i].support
        BY <4>1 DEF Before
      <4> QED BY <1>8, <2>1, <4>1, <4>2
    <3> QED BY <3>1, <3>2, <3>3
  <2>4. ~ o[1].support < o[2].support + RunnerUpMargin
    BY <1>3, <2>2
  <2>5. o[1].support \in Nat /\ o[2].support \in Nat /\ d.support \in Nat
    BY <1>5, <1>7, <1>8, <2>2
  <2> QED BY <1>7, <2>3, <2>4, <2>5
<1>10. /\ o[1] \in C /\ path \in Ends(o[1])
       /\ \A d \in C \ {o[1]} : path \in Ends(d) => o[1].support >= d.support + RunnerUpMargin
  BY <1>1, <1>2, <1>7, <1>9
<1> QED BY <1>10 DEF o, D

\* One more annotation names two more paths.
LEMMA NamedIs ==
    ASSUME NEW t \in Seq(Note), IsFiniteSet(Named(t)), NEW a \in Note, a.route # a.companion,
           a.route \notin Named(t), a.companion \notin Named(t)
    PROVE  /\ IsFiniteSet(Named(Append(t, a)))
           /\ Cardinality(Named(Append(t, a))) = Cardinality(Named(t)) + 2
<1>1. ToSet(Append(t, a)) = ToSet(t) \cup {a}
  <2> DEFINE m == Len(t)
             u == Append(t, a)
  <2>1. m \in Nat /\ DOMAIN t = 1..m /\ u \in Seq(Note)
    BY LenProperties
  <2>2. Len(u) = m + 1 /\ u[m + 1] = a /\ \A i \in 1..m : u[i] = t[i]
    BY <2>1, AppendProperties
  <2>3. DOMAIN u = 1..m + 1
    BY <2>1, <2>2, LenProperties
  <2> HIDE DEF m, u
  <2>4. \A i \in 1..m + 1 : i = m + 1 \/ i \in 1..m
    BY <2>1
  <2>5. m + 1 \in 1..m + 1 /\ \A i \in 1..m : i \in 1..m + 1
    BY <2>1
  <2>6. \A x : x \in ToSet(u) <=> x \in ToSet(t) \/ x = a
    BY <2>1, <2>2, <2>3, <2>4, <2>5 DEF ToSet
  <2> QED BY <2>6 DEF u
<1>2. Named(Append(t, a)) = (Named(t) \cup {a.route}) \cup {a.companion}
  BY <1>1 DEF Named
<1>3. /\ IsFiniteSet(Named(t) \cup {a.route})
      /\ Cardinality(Named(t) \cup {a.route}) = Cardinality(Named(t)) + 1
  BY FS_AddElement
<1>4. a.companion \notin Named(t) \cup {a.route}
  OBVIOUS
<1>5. /\ IsFiniteSet((Named(t) \cup {a.route}) \cup {a.companion})
      /\ Cardinality((Named(t) \cup {a.route}) \cup {a.companion}) = Cardinality(Named(t) \cup {a.route}) + 1
  BY <1>3, <1>4, FS_AddElement
<1>6. Cardinality(Named(t)) \in Nat
  BY FS_CardinalityType
<1> QED BY <1>2, <1>3, <1>5, <1>6

\* One route more.
LEMMA AnnotateIsSound ==
    ASSUME NEW C, IsFiniteSet(C), Comparable(C), Paired(C), \A c \in C : CandidateClearsGates(c),
           NEW t, Sound(t, C), NEW path \in Eligible
    PROVE  Sound(Annotate(C, t, path), C)
<1> DEFINE choices == Ordered({c \in C : CandidateClearsGates(c) /\ path \in {c.pair[1], c.pair[2]}})
           w == choices[1]
           other == Companion(w, path)
           a == [route |-> path, companion |-> other]
           u == Append(t, a)
<1>0. CASE Annotate(C, t, path) = t
  BY <1>0
<1>1. CASE Annotate(C, t, path) # t
  <2>1. /\ ~ Len(t) >= FutureAnnotations /\ path \notin Named(t) /\ choices # <<>>
        /\ ~ (Len(choices) > 1 /\ choices[1].support < choices[2].support + RunnerUpMargin)
        /\ other \notin Named(t) /\ Annotate(C, t, path) = u
    BY <1>1 DEF Annotate, Named
  <2>2. /\ w \in C /\ path \in Ends(w)
        /\ \A d \in C \ {w} : path \in Ends(d) => w.support >= d.support + RunnerUpMargin
    BY <2>1, WinnerLeads
  <2> HIDE DEF choices
  <2> HIDE DEF w
  <2>3. other \in Eligible /\ other # path /\ Ends(w) = {path, other}
    BY <2>2 DEF Paired, Ends, Companion
  <2> HIDE DEF other
  <2>4. a \in Note /\ a.route = path /\ a.companion = other
    BY <2>3 DEF Note
  <2>5. Leads(a, C)
    BY <2>2, <2>3, <2>4 DEF Leads
  <2> HIDE DEF a
  <2>6. /\ t \in Seq(Note) /\ Len(t) \in Nat /\ IsFiniteSet(Named(t)) /\ Cardinality(Named(t)) = 2 * Len(t)
        /\ \A i \in 1..Len(t) : Leads(t[i], C)
    BY LenProperties DEF Sound
  <2>7. IsFiniteSet(Named(u)) /\ Cardinality(Named(u)) = Cardinality(Named(t)) + 2
    BY <2>1, <2>3, <2>4, <2>6, NamedIs
  <2>8. u \in Seq(Note) /\ Len(u) = Len(t) + 1 /\ u[Len(t) + 1] = a /\ \A i \in 1..Len(t) : u[i] = t[i]
    BY <2>4, <2>6, AppendProperties
  <2> HIDE DEF u
  <2>9. Len(u) <= FutureAnnotations
    <3>1. FutureAnnotations \in Nat
      BY ShadowAssumption
    <3>2. ~ Len(t) >= FutureAnnotations
      BY <2>1
    <3> QED BY <2>6, <2>8, <3>1, <3>2
  <2>10. \A i \in 1..Len(u) : Leads(u[i], C)
    <3> TAKE i \in 1..Len(u)
    <3>1. i = Len(t) + 1 \/ i \in 1..Len(t)
      BY <2>6, <2>8
    <3> QED BY <2>5, <2>6, <2>8, <3>1
  <2>11. Cardinality(Named(u)) = 2 * Len(u)
    BY <2>6, <2>7, <2>8
  <2>12. Sound(u, C)
    BY <2>7, <2>8, <2>9, <2>10, <2>11 DEF Sound
  <2> QED BY <2>1, <2>12
<1> QED BY <1>0, <1>1

\* Nothing is annotated at the start.
LEMMA NothingIsSound == \A C : Sound(<<>>, C)
<1>1. <<>> \in Seq(Note) /\ Len(<<>>) = 0 /\ ToSet(<<>>) = {}
  BY DEF ToSet
<1>2. Named(<<>>) = {}
  BY <1>1 DEF Named
<1>3. IsFiniteSet(Named(<<>>)) /\ Cardinality(Named(<<>>)) = 2 * Len(<<>>)
  BY <1>1, <1>2, FS_EmptySet
<1>4. 0 <= FutureAnnotations
  BY ShadowAssumption
<1> QED BY <1>1, <1>3, <1>4 DEF Sound

Annotates(f, routes, C) ==
    f = [i \in 0..Len(routes) |-> IF i = 0 THEN <<>> ELSE Annotate(C, f[i - 1], routes[i])]

\* Whatever the routes and their order, the annotations are sound.
LEMMA AnnotationsAreSound ==
    ASSUME NEW C, IsFiniteSet(C), Comparable(C), Paired(C), \A c \in C : CandidateClearsGates(c),
           NEW n \in Nat, NEW routes \in [1..n -> Eligible], Len(routes) = n
    PROVE  Sound(SelectFutureAnnotations(routes, C), C)
<1> DEFINE S == {t \in Seq(Note) : Sound(t, C)}
           g == [p \in (1..n) \X S |-> Annotate(C, p[2], routes[p[1]])]
<1>1. \A i \in 1..n : \A t \in S : g[<<i, t>>] = Annotate(C, t, routes[i]) /\ Annotate(C, t, routes[i]) \in S
  <2> TAKE i \in 1..n
  <2> TAKE t \in S
  <2>1. <<i, t>> \in (1..n) \X S /\ <<i, t>>[1] = i /\ <<i, t>>[2] = t /\ routes[i] \in Eligible
    OBVIOUS
  <2>2. Sound(t, C)
    OBVIOUS
  <2>3. g[<<i, t>>] = Annotate(C, t, routes[i])
    BY <2>1
  <2> HIDE DEF g, S
  <2>4. Sound(Annotate(C, t, routes[i]), C)
    BY <2>1, <2>2, AnnotateIsSound
  <2>5. Annotate(C, t, routes[i]) \in S
    BY <2>4 DEF S, Sound
  <2> QED BY <2>3, <2>5
<1>2. g = [p \in (1..n) \X S |-> g[p]]
  OBVIOUS
<1>3. \A p \in (1..n) \X S : p = <<p[1], p[2]>> /\ p[1] \in 1..n /\ p[2] \in S
  OBVIOUS
<1>4. <<>> \in S
  BY NothingIsSound DEF Sound
<1>s. \A t \in S : Sound(t, C)
  OBVIOUS
<1> HIDE DEF S, g
<1>5. \A p \in (1..n) \X S : g[p] \in S
  BY <1>1, <1>3
<1>6. g \in [(1..n) \X S -> S]
  BY <1>2, <1>5
<1>7. PICK h \in [1..n + 1 -> S] : Runs(h, n, <<>>, g)
  BY <1>4, <1>6, RunsExist
<1> DEFINE f == [i \in 0..n |-> h[i + 1]]
<1>8. \A i \in 0..n : f[i] = h[i + 1] /\ f[i] \in S
  OBVIOUS
<1>9. f[0] = <<>> /\ \A i \in 1..n : f[i] = Annotate(C, f[i - 1], routes[i])
  <2>1. f[0] = <<>>
    BY <1>7 DEF Runs
  <2>2. \A i \in 1..n : f[i] = Annotate(C, f[i - 1], routes[i])
    <3> TAKE i \in 1..n
    <3>1. i - 1 \in 0..n /\ (i - 1) + 1 = i /\ i \in 0..n
      OBVIOUS
    <3> HIDE DEF f
    <3>2. f[i - 1] = h[i] /\ h[i] \in S /\ f[i] = h[i + 1]
      BY <1>8, <3>1
    <3>3. h[i + 1] = g[<<i, h[i]>>]
      BY <1>7 DEF Runs
    <3> QED BY <1>1, <3>2, <3>3
  <2> QED BY <2>1, <2>2
<1>10. f = [i \in 0..n |-> f[i]]
  OBVIOUS
<1> HIDE DEF f
<1>11. Annotates(f, routes, C)
  <2>1. \A i \in 0..n : f[i] = IF i = 0 THEN <<>> ELSE Annotate(C, f[i - 1], routes[i])
    <3> TAKE i \in 0..n
    <3>1. i # 0 => i \in 1..n
      OBVIOUS
    <3> QED BY <1>9, <3>1
  <2> QED BY <1>10, <2>1 DEF Annotates
<1> DEFINE F == CHOOSE u : Annotates(u, routes, C)
<1>12. Annotates(F, routes, C)
  BY <1>11
<1>13. SelectFutureAnnotations(routes, C) = F[Len(routes)]
  BY DEF SelectFutureAnnotations, Annotates
<1> HIDE DEF F
<1>14. F[0] = <<>> /\ \A i \in 1..n : F[i] = Annotate(C, F[i - 1], routes[i])
  <2>1. F = [i \in 0..n |-> IF i = 0 THEN <<>> ELSE Annotate(C, F[i - 1], routes[i])]
    BY <1>12 DEF Annotates
  <2>2. \A i \in 0..n : F[i] = IF i = 0 THEN <<>> ELSE Annotate(C, F[i - 1], routes[i])
    BY <2>1
  <2>3. 0 \in 0..n /\ \A i \in 1..n : i \in 0..n /\ i # 0
    OBVIOUS
  <2> QED BY <2>2, <2>3
<1>15. \A i \in 0..n : F[i] \in S
  <2> DEFINE T == {i \in 0..n : F[i] \notin S}
  <2> SUFFICES ASSUME T # {} PROVE FALSE
    OBVIOUS
  <2>1. PICK i \in T : \A j \in T : i <= j
    <3>1. T \subseteq Nat
      OBVIOUS
    <3> HIDE DEF T
    <3> QED BY <3>1, LeastNumber
  <2>2. i \in 0..n /\ F[i] \notin S
    OBVIOUS
  <2>3. i # 0
    BY <1>4, <1>14, <2>2
  <2>4. i \in 1..n /\ i - 1 \in 0..n /\ ~ i <= i - 1
    BY <2>2, <2>3
  <2>5. i - 1 \notin T
    <3> HIDE DEF T
    <3> QED BY <2>1, <2>4
  <2>6. F[i - 1] \in S
    BY <2>4, <2>5
  <2>7. F[i] \in S
    BY <1>1, <1>14, <2>4, <2>6
  <2> QED BY <2>2, <2>7
<1> QED BY <1>s, <1>13, <1>15

\* The qualified pairs of a history, for any order of three routes.
LEMMA QualifiedAnnotationsAreSound ==
    ASSUME HistoryIs, NEW mode \in Mode, NEW routes \in Routes
    PROVE  LET q == Qualified(RetainEligibleEvents(history), mode)
           IN Sound(SelectFutureAnnotations(routes, q), q)
<1> DEFINE q == Qualified(RetainEligibleEvents(history), mode)
<1>1. IsSequence(history)
  BY SeqIsSequence DEF HistoryIs
<1>2. Events(RetainEligibleEvents(history))
  BY <1>1, RetainedAreEvents
<1>3. IsFiniteSet(q) /\ Comparable(q)
  BY <1>2, QualifiedIs DEF Mode
<1>4. Paired(q) /\ \A c \in q : CandidateClearsGates(c)
  BY <1>2, QualifiedArePaired
<1>5. routes \in [1..3 -> Eligible]
  BY DEF Routes
<1>6. routes = [i \in 1..3 |-> routes[i]]
  BY <1>5
<1>7. Len(routes) = 3
  BY <1>6, FunctionIsSequence
<1> HIDE DEF q
<1>8. Sound(SelectFutureAnnotations(routes, q), q)
  BY <1>3, <1>4, <1>5, <1>7, AnnotationsAreSound
<1> QED BY <1>8 DEF q

LEMMA AnnotationsAreDisjoint == HistoryIs => AnnotationsReuseNoPath
<1> SUFFICES ASSUME HistoryIs, NEW mode \in Mode, NEW routes \in Routes
             PROVE  LET t == SelectFutureAnnotations(routes, Qualified(RetainEligibleEvents(history), mode))
                    IN Len(t) <= FutureAnnotations /\ Cardinality(Named(t)) = 2 * Len(t)
  BY DEF AnnotationsReuseNoPath, Named
<1> QED BY QualifiedAnnotationsAreSound DEF Sound

LEMMA AnnotationsHaveTheMargin == HistoryIs => AnnotationsLead
<1> SUFFICES ASSUME HistoryIs, NEW mode \in Mode, NEW routes \in Routes,
                    NEW a \in ToSet(SelectFutureAnnotations(routes, Qualified(RetainEligibleEvents(history), mode)))
             PROVE  Leads(a, Qualified(RetainEligibleEvents(history), mode))
  BY DEF AnnotationsLead, Leads, Ends
<1> DEFINE q == Qualified(RetainEligibleEvents(history), mode)
           t == SelectFutureAnnotations(routes, q)
<1>1. Sound(t, q)
  BY QualifiedAnnotationsAreSound
<1>2. a \in ToSet(t)
  OBVIOUS
<1> HIDE DEF q, t
<1>3. t \in Seq(Note) /\ \A i \in 1..Len(t) : Leads(t[i], q)
  BY <1>1 DEF Sound
<1>4. \A i \in DOMAIN t : i \in 1..Len(t)
  BY <1>3, LenProperties
<1>5. Leads(a, q)
  BY <1>2, <1>3, <1>4 DEF ToSet
<1> QED BY <1>5 DEF q

\* selectFutureAnnotations names no path twice, whatever the routes and their order:
\* "no reused path".
THEOREM AnnotationsNeverReuse == ShadowSpec => []AnnotationsReuseNoPath
BY HistoryInvariant, AnnotationsAreDisjoint, PTL

\* An annotation's companion has the margin over every other qualified pair of its route.
THEOREM AnnotationsKeepTheMargin == ShadowSpec => []AnnotationsLead
BY HistoryInvariant, AnnotationsHaveTheMargin, PTL
=============================================================================
