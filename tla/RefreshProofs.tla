---------------------------- MODULE RefreshProofs ----------------------------
(***************************************************************************)
(* Proofs about RepoRefresh: for any number of refreshes, of commits, of   *)
(* edits and of faults, a refresh that reports "up-to-date" has read an    *)
(* index that the bot wrote last, and no bot commit follows another.       *)
(*                                                                         *)
(* Neither is inductive.  hasSourceCommitsSinceIndex decides from the last *)
(* marker and the last commit of the index, so the proofs need what every  *)
(* history in the checkout, on the remote and in a refresh has in common:  *)
(* a person's commit touches a path, the bot's at most the index, and no   *)
(* marker comes before the index exists.  On such histories the decision   *)
(* is exact: it is negative iff the last commit is the bot's.              *)
(*                                                                         *)
(* The types (second half) are about ids and the lock: every history is    *)
(* one there was before, or one of them with a commit of a new id.         *)
(***************************************************************************)
EXTENDS RepoRefresh, SequenceTheorems, FiniteSetTheorems, WellFoundedInduction, TLAPS

Branch == {"main", "other"}

GoodCommit(c) ==
    /\ c.by \in {"human", "bot"}
    /\ c.by = "human" => c.paths # {}
    /\ c.paths \subseteq Path
    /\ c.by = "bot" => c.paths \subseteq {"README"}

\* The marker at i is not the first commit of a history without an index.
IndexBefore(h, i) == \E j \in 1..i : "README" \in h[j].paths

Alternates(h) == \A i \in 2..Len(h) : h[i].by = "bot" => h[i - 1].by = "human"

History(h) ==
    /\ h \in Seq(Commits(h))
    /\ \A i \in 1..Len(h) : GoodCommit(h[i])
    /\ \A i \in 1..Len(h) : h[i].by = "bot" => IndexBefore(h, i)
    /\ Alternates(h)

CheckoutGood ==
    /\ heads = [b \in Branch |-> heads[b]] /\ branch \in Branch
    /\ dirty \subseteq Path
    /\ \A b \in Branch : History(heads[b])

RemoteGood == History(remote)

\* The record of a call's locals, field by field.
JobRecord(pc, source, touched, writer, result) ==
    [pc |-> pc, source |-> source, touched |-> touched, writer |-> writer, result |-> result]

IsJob(j) == j = JobRecord(j.pc, j.source, j.touched, j.writer, j.result)

JobShape == job = [p \in Process |-> job[p]] /\ \A p \in Process : IsJob(job[p])

JobGood(j) ==
    /\ History(j.source) /\ History(j.writer)
    /\ j.touched \subseteq Path
    /\ j.pc \in {"model", "validate"} => ~Fresh(j.source)
    /\ j.result = "up-to-date" => Fresh(j.source)

JobsGood == \A p \in Process : JobGood(job[p])

RefreshInv == CheckoutGood /\ RemoteGood /\ JobShape /\ JobsGood

----------------------------------------------------------------------------
(* The last position with a property                                       *)

\* A set of positions up to n that is not empty has a greatest one.
LEMMA GreatestExists ==
    ASSUME NEW n \in Nat, NEW S, S \subseteq 0..n, S # {}
    PROVE  \E x \in S : \A y \in S : x >= y
<1> DEFINE T == {i \in 0..n : n - i \in S}
<1>1. T # {}
  <2>1. PICK s \in S : TRUE
    OBVIOUS
  <2>2. n - s \in 0..n /\ n - (n - s) = s
    OBVIOUS
  <2> QED BY <2>1, <2>2
<1>2. T \subseteq Nat
  OBVIOUS
<1> HIDE DEF T
<1>3. PICK x \in T : \A y \in T : <<y, x>> \notin OpToRel(<, Nat)
  BY <1>1, <1>2, NatLessThanWellFounded, WFMin
<1>4. \A y \in T : x <= y
  <2>1. \A y \in T : ~(y < x)
    BY <1>2, <1>3 DEF OpToRel
  <2> QED BY <1>2, <2>1
<1>5. n - x \in S
  BY <1>3 DEF T
<1>6. \A y \in S : n - y \in T
  BY DEF T
<1>7. \A y \in S : n - x >= y
  <2> SUFFICES ASSUME NEW y \in S PROVE n - x >= y
    OBVIOUS
  <2>1. x <= n - y /\ y \in Nat /\ x \in Nat
    BY <1>2, <1>4, <1>6
  <2> QED BY <2>1
<1> QED BY <1>5, <1>7

\* Max of such a set is in it and bounds it.
LEMMA GreatestIsMax ==
    ASSUME NEW n \in Nat, NEW S, S \subseteq 0..n, S # {}
    PROVE  Max(S) \in S /\ \A y \in S : Max(S) >= y
BY GreatestExists DEF Max

\* LatestReadme is the last commit of the index, 0 if it has none.
LEMMA LatestReadmeIs ==
    ASSUME NEW h, History(h)
    PROVE  /\ LatestReadme(h) \in 0..Len(h)
           /\ LatestReadme(h) # 0 => "README" \in h[LatestReadme(h)].paths
           /\ \A i \in 1..Len(h) : "README" \in h[i].paths => i <= LatestReadme(h)
<1> DEFINE S == {0} \cup {i \in DOMAIN h : "README" \in h[i].paths}
<1>1. Len(h) \in Nat /\ DOMAIN h = 1..Len(h)
  BY LenProperties DEF History
<1>2. S \subseteq 0..Len(h) /\ S # {}
  BY <1>1
<1>3. LatestReadme(h) = Max(S)
  BY DEF LatestReadme, LastIndex
<1>4. Max(S) \in S /\ \A y \in S : Max(S) >= y
  <2> HIDE DEF S
  <2> QED BY <1>1, <1>2, GreatestIsMax
<1> QED BY <1>1, <1>2, <1>3, <1>4

\* The same for the bot's markers.
LatestMarker(h) == LastIndex(h, LAMBDA c : c.by = "bot")

LEMMA LatestMarkerIs ==
    ASSUME NEW h, History(h)
    PROVE  /\ LatestMarker(h) \in 0..Len(h)
           /\ LatestMarker(h) # 0 => h[LatestMarker(h)].by = "bot"
           /\ \A i \in 1..Len(h) : h[i].by = "bot" => i <= LatestMarker(h)
<1> DEFINE S == {0} \cup {i \in DOMAIN h : h[i].by = "bot"}
<1>1. Len(h) \in Nat /\ DOMAIN h = 1..Len(h)
  BY LenProperties DEF History
<1>2. S \subseteq 0..Len(h) /\ S # {}
  BY <1>1
<1>3. LatestMarker(h) = Max(S)
  BY DEF LatestMarker, LastIndex
<1>4. Max(S) \in S /\ \A y \in S : Max(S) >= y
  <2> HIDE DEF S
  <2> QED BY <1>1, <1>2, GreatestIsMax
<1> QED BY <1>1, <1>2, <1>3, <1>4

----------------------------------------------------------------------------
(* The decision of a refresh                                               *)

LEMMA LatestIndexCommitIs ==
    ASSUME NEW h
    PROVE  LatestIndexCommit(h) =
               IF /\ LatestMarker(h) # 0 /\ LatestReadme(h) # 0
                  /\ \/ LatestReadme(h) = LatestMarker(h)
                     \/ LatestReadme(h) < LatestMarker(h) /\ h[LatestMarker(h)].paths = {}
               THEN LatestMarker(h) ELSE 0
BY DEF LatestIndexCommit, LatestMarker

\* A person's commit after the last marker touches a source, or is a later
\* commit of the index, which the marker does not cover.
LEMMA NegativeIsFresh ==
    ASSUME NEW h, History(h), ~HasSourceCommitsSinceIndex(h)
    PROVE  Fresh(h)
<1> DEFINE m == LatestMarker(h)
           r == LatestReadme(h)
<1>1. Len(h) \in Nat
  BY LenProperties DEF History
<1>2. /\ r # 0 /\ LatestIndexCommit(h) # 0
      /\ \A i \in LatestIndexCommit(h) + 1..Len(h) : h[i].paths \subseteq {"README"}
  BY DEF HasSourceCommitsSinceIndex
<1>3. LatestIndexCommit(h) = m /\ m # 0 /\ (r = m \/ r < m)
  BY <1>2, LatestIndexCommitIs
<1>4. m \in 1..Len(h) /\ h[m].by = "bot" /\ r \in 1..Len(h)
  BY <1>1, <1>2, <1>3, LatestMarkerIs, LatestReadmeIs
<1>5. ASSUME m < Len(h)
      PROVE  FALSE
  <2> DEFINE i == Len(h)
  <2>1. i \in 1..Len(h) /\ i \in m + 1..Len(h) /\ i > m
    BY <1>1, <1>4, <1>5
  <2>2. h[i].by # "bot"
    BY <1>4, <2>1, LatestMarkerIs
  <2>3. h[i].paths # {}
    BY <2>1, <2>2 DEF History, GoodCommit
  <2>4. h[i].paths \subseteq {"README"}
    BY <1>2, <1>3, <2>1
  <2>5. i <= r
    BY <2>1, <2>3, <2>4, LatestReadmeIs
  <2> QED BY <1>1, <1>3, <1>4, <2>1, <2>5
<1>6. m = Len(h)
  BY <1>1, <1>4, <1>5
<1>7. h # <<>>
  BY <1>4, <1>6, EmptySeq
<1> QED BY <1>4, <1>6, <1>7 DEF Fresh, Last

\* A marker at the end covers the history: the index exists, and the marker
\* wrote it or left it as it was.
LEMMA FreshIsNegative ==
    ASSUME NEW h, History(h), Fresh(h)
    PROVE  ~HasSourceCommitsSinceIndex(h)
<1> DEFINE n == Len(h)
           r == LatestReadme(h)
<1>1. n \in Nat /\ n # 0
  BY LenProperties, EmptySeq DEF History, Fresh
<1>2. h[n].by = "bot"
  BY DEF Fresh, Last
<1>3. LatestMarker(h) = n
  BY <1>1, <1>2, LatestMarkerIs
<1>4. IndexBefore(h, n)
  BY <1>1, <1>2 DEF History
<1>5. r \in 1..n
  BY <1>1, <1>4, LatestReadmeIs DEF IndexBefore
<1>6. h[n].paths \subseteq {"README"}
  BY <1>1, <1>2 DEF History, GoodCommit
<1>7. r = n \/ (r < n /\ h[n].paths = {})
  <2>1. CASE "README" \in h[n].paths
    BY <1>1, <1>5, <2>1, LatestReadmeIs
  <2>2. CASE "README" \notin h[n].paths
    <3>1. h[n].paths = {}
      BY <1>6, <2>2
    <3>2. r = n \/ r < n
      BY <1>1, <1>5
    <3> QED BY <3>1, <3>2
  <2> QED BY <2>1, <2>2
<1>8. LatestIndexCommit(h) = n
  BY <1>1, <1>3, <1>5, <1>7, LatestIndexCommitIs
<1>9. n + 1..Len(h) = {}
  BY <1>1
<1> QED BY <1>1, <1>5, <1>8, <1>9 DEF HasSourceCommitsSinceIndex

\* hasSourceCommitsSinceIndex is exact on the histories that can occur: a
\* refresh runs the model iff the last commit is not the bot's.
THEOREM DecisionIsExact ==
    ASSUME NEW h, History(h)
    PROVE  HasSourceCommitsSinceIndex(h) <=> ~Fresh(h)
BY NegativeIsFresh, FreshIsNegative

----------------------------------------------------------------------------
(* The commits that are made                                               *)

LEMMA AppendSeq ==
    ASSUME NEW h, h \in Seq(Commits(h)), NEW c
    PROVE  LET a == Append(h, c)
           IN /\ a \in Seq(Commits(a)) /\ Len(a) = Len(h) + 1 /\ Len(h) \in Nat
              /\ \A i \in 1..Len(h) : a[i] = h[i]
              /\ a[Len(h) + 1] = c
<1> DEFINE a == Append(h, c)
           S == Commits(h) \cup {c}
<1>1. h \in Seq(S) /\ c \in S
  BY SeqMonotonic
<1> HIDE DEF S
<1>2. /\ a \in Seq(S) /\ Len(a) = Len(h) + 1 /\ Len(h) \in Nat
      /\ \A i \in 1..Len(h) : a[i] = h[i]
      /\ a[Len(h) + 1] = c
  BY <1>1, AppendProperties, LenProperties
<1> HIDE DEF a
<1>3. a = [i \in 1..Len(a) |-> a[i]] /\ DOMAIN a = 1..Len(a) /\ Len(a) \in Nat
  BY <1>2, LenProperties
<1>4. \A i \in 1..Len(a) : a[i] \in Commits(a)
  BY <1>3 DEF Commits
<1>5. a \in [1..Len(a) -> Commits(a)]
  BY <1>3, <1>4
<1>6. a \in Seq(Commits(a))
  BY <1>3, <1>5, SeqDef
<1> QED BY <1>2, <1>6 DEF a

\* A good commit extends a history, a marker only one that needs it.
LEMMA AppendHistory ==
    ASSUME NEW h, History(h), NEW c, GoodCommit(c),
           c.by = "bot" => /\ ~Fresh(h)
                           /\ LatestReadme(h) # 0 \/ "README" \in c.paths
    PROVE  History(Append(h, c))
<1> DEFINE a == Append(h, c)
           n == Len(h)
<1>1. /\ a \in Seq(Commits(a)) /\ Len(a) = n + 1 /\ n \in Nat
      /\ \A i \in 1..n : a[i] = h[i]
      /\ a[n + 1] = c
  BY AppendSeq DEF History
<1> HIDE DEF a
<1>2. \A i \in 1..Len(a) : GoodCommit(a[i])
  <2>1. \A i \in 1..n : GoodCommit(h[i])
    BY DEF History
  <2>2. \A i \in 1..Len(a) : i \in 1..n \/ i = n + 1
    BY <1>1
  <2> QED BY <1>1, <2>1, <2>2
<1>3. ASSUME NEW i \in 1..Len(a), a[i].by = "bot"
      PROVE  IndexBefore(a, i)
  <2>1. CASE i \in 1..n
    <3>1. IndexBefore(h, i)
      BY <1>1, <1>3, <2>1 DEF History
    <3>2. PICK j \in 1..i : "README" \in h[j].paths
      BY <3>1 DEF IndexBefore
    <3>3. a[j] = h[j]
      BY <1>1, <2>1, <3>2
    <3> QED BY <3>2, <3>3 DEF IndexBefore
  <2>2. CASE i = n + 1
    <3>1. CASE "README" \in c.paths
      BY <1>1, <2>2, <3>1 DEF IndexBefore
    <3>2. CASE LatestReadme(h) # 0
      <4>1. LatestReadme(h) \in 1..n /\ "README" \in h[LatestReadme(h)].paths
        BY <1>1, <3>2, LatestReadmeIs
      <4> QED BY <1>1, <2>2, <4>1 DEF IndexBefore
    <3> QED BY <1>1, <1>3, <2>2, <3>1, <3>2
  <2> QED BY <1>1, <2>1, <2>2
<1>4. ASSUME NEW i \in 2..Len(a), a[i].by = "bot"
      PROVE  a[i - 1].by = "human"
  <2>1. CASE i \in 2..n
    <3>1. i \in 1..n /\ i - 1 \in 1..n
      BY <1>1, <2>1
    <3>2. h[i - 1].by = "human"
      BY <1>1, <1>4, <2>1, <3>1 DEF History, Alternates
    <3> QED BY <1>1, <3>1, <3>2
  <2>2. CASE i = n + 1
    <3>1. n \in 1..n /\ i - 1 = n
      BY <1>1, <2>2
    <3>2. ~Fresh(h)
      BY <1>1, <1>4, <2>2
    <3>3. h # <<>>
      BY <1>1, <3>1, EmptySeq
    <3>4. h[n].by # "bot"
      BY <3>2, <3>3 DEF Fresh, Last
    <3>5. h[n].by = "human"
      BY <3>1, <3>4 DEF History, GoodCommit
    <3> QED BY <1>1, <3>1, <3>5
  <2> QED BY <1>1, <2>1, <2>2
<1> QED BY <1>1, <1>2, <1>3, <1>4 DEF a, History, Alternates

\* A refresh commits nothing but the index, and only where it then exists.
LEMMA MarkerHistory ==
    ASSUME NEW h, History(h), ~Fresh(h), NEW touched, Acceptable(h, touched)
    PROVE  History(Append(h, NewCommit("bot", touched)))
<1> DEFINE c == NewCommit("bot", touched)
<1>1. c.by = "bot" /\ c.paths = touched
  BY DEF NewCommit
<1>2. touched \subseteq {"README"} /\ (LatestReadme(h) # 0 \/ touched # {})
  BY DEF Acceptable
<1>3. GoodCommit(c) /\ (LatestReadme(h) # 0 \/ "README" \in c.paths)
  BY <1>1, <1>2 DEF GoodCommit, Path
<1> HIDE DEF c
<1>4. History(Append(h, c))
  BY <1>3, AppendHistory
<1> QED BY <1>4 DEF c

LEMMA HumanHistory ==
    ASSUME NEW h, History(h), NEW paths, paths \subseteq Path, paths # {}
    PROVE  History(Append(h, NewCommit("human", paths)))
<1> DEFINE c == NewCommit("human", paths)
<1>1. GoodCommit(c) /\ c.by # "bot"
  BY DEF NewCommit, GoodCommit
<1> HIDE DEF c
<1>2. History(Append(h, c))
  BY <1>1, AppendHistory
<1> QED BY <1>2 DEF c

\* The histories a repository can start with.
LEMMA EmptyHistory == History(<<>>)
<1>1. <<>> \in Seq(Commits(<<>>)) /\ Len(<<>>) = 0
  BY EmptySeq
<1> QED BY <1>1 DEF History, Alternates

\* One commit of a person, with or without one of the bot after it.
LEMMA FirstHistories ==
    ASSUME NEW first \in {{"src"}, Path}, NEW second \in {{}, {"README"}}
    PROVE  LET human == [by |-> "human", paths |-> first, id |-> 1]
               bot == [by |-> "bot", paths |-> second, id |-> 2]
           IN History(IF first = {"src"} /\ second = {} THEN <<human>> ELSE <<human, bot>>)
<1> DEFINE human == [by |-> "human", paths |-> first, id |-> 1]
           bot == [by |-> "bot", paths |-> second, id |-> 2]
<1>1. GoodCommit(human) /\ human.by = "human" /\ human.paths = first
  BY DEF GoodCommit, Path
<1>2. GoodCommit(bot) /\ bot.by = "bot" /\ bot.paths = second
  BY DEF GoodCommit, Path
<1>3. (first = {"src"} /\ second = {}) \/ "README" \in first \/ "README" \in second
  BY DEF Path
<1> HIDE DEF human, bot
<1>4. History(<<human>>)
  <2> DEFINE h == <<human>>
  <2>1. h \in Seq({human}) /\ Len(h) = 1 /\ h[1] = human /\ Commits(h) = {human}
    BY DEF Commits
  <2> HIDE DEF h
  <2>2. History(h)
    BY <1>1, <2>1 DEF History, Alternates
  <2> QED BY <2>2 DEF h
<1>5. ASSUME "README" \in first \/ "README" \in second
      PROVE  History(<<human, bot>>)
  <2> DEFINE h == <<human, bot>>
  <2>1. h \in Seq({human, bot}) /\ Len(h) = 2 /\ h[1] = human /\ h[2] = bot
    OBVIOUS
  <2>2. Commits(h) = {human, bot}
    <3>1. DOMAIN h = {1, 2}
      OBVIOUS
    <3> QED BY <2>1, <3>1 DEF Commits
  <2> HIDE DEF h
  <2>3. IndexBefore(h, 2)
    BY <1>1, <1>2, <1>5, <2>1 DEF IndexBefore
  <2>4. \A i \in 1..Len(h) : i = 1 \/ i = 2
    BY <2>1
  <2>5. \A i \in 2..Len(h) : i = 2 /\ i - 1 = 1
    BY <2>1
  <2>6. Alternates(h)
    BY <1>1, <2>1, <2>5 DEF Alternates
  <2>7. History(h)
    BY <1>1, <1>2, <2>1, <2>2, <2>3, <2>4, <2>6 DEF History
  <2> QED BY <2>7 DEF h
<1> QED BY <1>3, <1>4, <1>5 DEF human, bot

----------------------------------------------------------------------------
(* The inductive invariant                                                 *)

LEMMA RecordIsJob ==
    ASSUME NEW pc, NEW source, NEW touched, NEW writer, NEW result
    PROVE  LET j == JobRecord(pc, source, touched, writer, result)
           IN /\ IsJob(j) /\ j.pc = pc /\ j.source = source /\ j.touched = touched
              /\ j.writer = writer /\ j.result = result
BY DEF IsJob, JobRecord

\* A refresh that has not begun.
LEMMA NoJobIs ==
    /\ IsJob(NoJob) /\ NoJob.source = <<>> /\ NoJob.touched = {} /\ NoJob.writer = <<>>
    /\ NoJob.pc = "idle" /\ NoJob.result = "none" /\ JobGood(NoJob)
<1>1. NoJob = JobRecord("idle", <<>>, {}, <<>>, "none")
  BY DEF NoJob, JobRecord
<1>2. IsJob(NoJob) /\ NoJob.source = <<>> /\ NoJob.touched = {} /\ NoJob.writer = <<>>
      /\ NoJob.pc = "idle" /\ NoJob.result = "none"
  BY <1>1, RecordIsJob
<1>3. JobGood(NoJob)
  BY <1>2, EmptyHistory DEF JobGood
<1> QED BY <1>2, <1>3

LEMMA RefreshInvInit == Init => RefreshInv
<1> SUFFICES ASSUME Init PROVE RefreshInv
  OBVIOUS
<1>1. PICK h : heads = [main |-> h, other |-> h] /\ remote = h /\ History(h)
  BY FirstHistories DEF Init
<1>2. CheckoutGood /\ RemoteGood
  <2>1. heads = [b \in Branch |-> h]
    BY <1>1 DEF Branch
  <2> QED BY <1>1, <2>1 DEF Init, CheckoutGood, RemoteGood, Branch
<1>3. JobShape /\ JobsGood
  <2>1. job = [p \in Process |-> NoJob]
    BY DEF Init
  <2>2. \A p \in Process : job[p] = NoJob
    BY <2>1
  <2>3. job = [p \in Process |-> job[p]]
    BY <2>1
  <2>4. JobShape
    BY <2>2, <2>3, NoJobIs DEF JobShape
  <2>5. JobsGood
    BY <2>2, NoJobIs DEF JobsGood
  <2> QED BY <2>4, <2>5
<1> QED BY <1>2, <1>3 DEF RefreshInv

\* What a step of one refresh writes to its locals.
Becomes(p, j) == job' = [job EXCEPT ![p] = j]

LEMMA JobStep ==
    ASSUME RefreshInv, NEW p \in Process, NEW j, Becomes(p, j), JobGood(j), IsJob(j)
    PROVE  JobShape' /\ JobsGood'
<1>1. job = [q \in Process |-> job[q]]
  BY DEF RefreshInv, JobShape
<1>2. job' = [q \in Process |-> IF q = p THEN j ELSE job[q]]
  BY <1>1 DEF Becomes
<1>3. \A q \in Process : job'[q] = IF q = p THEN j ELSE job[q]
  BY <1>2
<1>4. JobShape'
  <2>1. job' = [q \in Process |-> job'[q]]
    BY <1>2
  <2>2. \A q \in Process : IsJob(job'[q])
    BY <1>3 DEF RefreshInv, JobShape
  <2> QED BY <2>1, <2>2 DEF JobShape
<1>5. JobsGood'
  BY <1>3 DEF RefreshInv, JobsGood
<1> QED BY <1>4, <1>5

LEMMA JobUpdate ==
    ASSUME NEW j, IsJob(j), NEW pc, NEW result
    PROVE  [j EXCEPT !.pc = pc, !.result = result]
               = JobRecord(pc, j.source, j.touched, j.writer, result)
<1> DEFINE k == [j EXCEPT !.pc = pc]
<1>1. k = JobRecord(pc, j.source, j.touched, j.writer, j.result)
  BY DEF IsJob, JobRecord
<1>2. [j EXCEPT !.pc = pc, !.result = result] = [k EXCEPT !.result = result]
  BY SMT
<1>3. [k EXCEPT !.result = result] = JobRecord(pc, j.source, j.touched, j.writer, result)
  <2> HIDE DEF k
  <2> QED BY <1>1 DEF JobRecord
<1> QED BY <1>2, <1>3

\* A refresh that throws, ends or crashes forgets its histories.
LEMMA ThrowStep ==
    ASSUME RefreshInv, NEW p \in Process, Throws(p) \/ Becomes(p, NoJob)
    PROVE  JobShape' /\ JobsGood'
<1> DEFINE failed == [NoJob EXCEPT !.pc = "finally", !.result = "failed"]
<1>1. failed = JobRecord("finally", NoJob.source, NoJob.touched, NoJob.writer, "failed")
  <2>1. IsJob(NoJob)
    BY NoJobIs
  <2> QED BY <2>1, JobUpdate, Zenon
<1>2. failed = JobRecord("finally", <<>>, {}, <<>>, "failed")
  <2> HIDE DEF failed
  <2> QED BY <1>1, NoJobIs
<1>3. IsJob(failed) /\ failed.source = <<>> /\ failed.touched = {} /\ failed.writer = <<>>
      /\ failed.pc = "finally" /\ failed.result = "failed"
  <2> HIDE DEF failed
  <2> QED BY <1>2, RecordIsJob
<1>4. CASE Throws(p)
  <2>1. Becomes(p, failed)
    BY <1>4 DEF Throws, Becomes
  <2> HIDE DEF failed
  <2>2. JobGood(failed)
    BY <1>3, EmptyHistory DEF JobGood
  <2> QED BY <1>3, <2>1, <2>2, JobStep
<1>5. CASE Becomes(p, NoJob)
  BY <1>5, NoJobIs, JobStep
<1> QED BY <1>4, <1>5

\* A refresh that goes on keeps what it has read; entering the model pass needs
\* the decision, and so does the report that nothing is to be done.
LEMMA GotoStep ==
    ASSUME RefreshInv, NEW p \in Process, NEW pc, NEW result,
           Becomes(p, [job[p] EXCEPT !.pc = pc, !.result = result]),
           pc = "model" => ~Fresh(job[p].source),
           pc # "validate",
           result = "up-to-date" => Fresh(job[p].source)
    PROVE  JobShape' /\ JobsGood'
<1> DEFINE j == [job[p] EXCEPT !.pc = pc, !.result = result]
<1>1. Becomes(p, j)
  OBVIOUS
<1>2. IsJob(job[p])
  BY DEF RefreshInv, JobShape
<1>3. j = JobRecord(pc, job[p].source, job[p].touched, job[p].writer, result)
  BY <1>2, JobUpdate, Zenon
<1> HIDE DEF j
<1>4. IsJob(j) /\ j.source = job[p].source /\ j.touched = job[p].touched
      /\ j.writer = job[p].writer /\ j.pc = pc /\ j.result = result
  BY <1>3, RecordIsJob
<1>5. JobGood(j)
  BY <1>4 DEF RefreshInv, JobsGood, JobGood
<1> QED BY <1>1, <1>4, <1>5, JobStep

LEMMA EndsStep ==
    ASSUME RefreshInv, NEW p \in Process, NEW result, Ends(p, result),
           result = "up-to-date" => Fresh(job[p].source)
    PROVE  JobShape' /\ JobsGood'
<1> DEFINE pc == "finally"
<1>1. Becomes(p, [job[p] EXCEPT !.pc = pc, !.result = result])
  BY DEF Ends, Becomes
<1>2. pc # "model" /\ pc # "validate"
  OBVIOUS
<1> HIDE DEF pc
<1> QED BY <1>1, <1>2, GotoStep

LEMMA PlainGoto ==
    ASSUME RefreshInv, NEW p \in Process, NEW pc, Goto(p, pc),
           pc = "model" => ~Fresh(job[p].source), pc # "validate"
    PROVE  JobShape' /\ JobsGood'
<1>1. IsJob(job[p])
  BY DEF RefreshInv, JobShape
<1>2. [job[p] EXCEPT !.pc = pc] = [job[p] EXCEPT !.pc = pc, !.result = job[p].result]
  BY <1>1 DEF IsJob, JobRecord
<1>3. Becomes(p, [job[p] EXCEPT !.pc = pc])
  BY DEF Goto, Becomes
<1>4. job[p].result = "up-to-date" => Fresh(job[p].source)
  BY DEF RefreshInv, JobsGood, JobGood
<1> QED BY <1>2, <1>3, <1>4, GotoStep

----------------------------------------------------------------------------
(* Every step keeps the invariant                                          *)

\* The steps of a refresh leave the checkout and the remote as they were, but
\* for the merge, the push and the reset.
LEMMA PlaceStays ==
    ASSUME RefreshInv, UNCHANGED checkout, UNCHANGED remote
    PROVE  CheckoutGood' /\ RemoteGood'
BY DEF RefreshInv, CheckoutGood, RemoteGood, checkout

LEMMA JobsStay ==
    ASSUME RefreshInv, UNCHANGED job
    PROVE  JobShape' /\ JobsGood'
BY DEF RefreshInv, JobShape, JobsGood

\* A branch that takes a good history.
LEMMA HeadStep ==
    ASSUME RefreshInv, NEW b \in Branch, NEW h, History(h), heads' = [heads EXCEPT ![b] = h],
           UNCHANGED branch, dirty' \subseteq Path
    PROVE  CheckoutGood'
<1>1. heads = [c \in Branch |-> heads[c]]
  BY DEF RefreshInv, CheckoutGood
<1>2. heads' = [c \in Branch |-> IF c = b THEN h ELSE heads[c]]
  BY <1>1
<1>3. heads' = [c \in Branch |-> heads'[c]]
  BY <1>2
<1>4. \A c \in Branch : History(heads'[c])
  BY <1>2 DEF RefreshInv, CheckoutGood
<1> QED BY <1>3, <1>4 DEF RefreshInv, CheckoutGood

LEMMA PeopleStep ==
    ASSUME RefreshInv, (\E path \in Path : Edit(path)) \/ Switch \/ Commit \/ Pull \/ OthersPush
    PROVE  RefreshInv'
<1>1. UNCHANGED job
  BY DEF Edit, Switch, Commit, Pull, OthersPush, checkout
<1>2. JobShape' /\ JobsGood'
  BY <1>1, JobsStay
<1>3. CheckoutGood' /\ RemoteGood'
  <2>1. CASE \E path \in Path : Edit(path)
    BY <2>1 DEF RefreshInv, CheckoutGood, RemoteGood, Edit
  <2>2. CASE Switch
    BY <2>2 DEF RefreshInv, CheckoutGood, RemoteGood, Switch, Branch
  <2>3. CASE Commit
    <3>1. History(heads[branch]) /\ dirty \subseteq Path /\ dirty # {} /\ branch \in Branch
      BY <2>3 DEF RefreshInv, CheckoutGood, Commit
    <3>2. History(Append(heads[branch], NewCommit("human", dirty)))
      BY <3>1, HumanHistory
    <3>3. heads' = [heads EXCEPT ![branch] = Append(heads[branch], NewCommit("human", dirty))]
          /\ dirty' = {} /\ UNCHANGED <<branch, remote>>
      BY <2>3 DEF Commit
    <3>4. CheckoutGood'
      BY <3>1, <3>2, <3>3, HeadStep
    <3> QED BY <3>3, <3>4 DEF RefreshInv, RemoteGood
  <2>4. CASE Pull
    <3>1. heads' = [heads EXCEPT !["main"] = remote] /\ UNCHANGED <<branch, dirty, remote>>
      BY <2>4 DEF Pull
    <3>2. "main" \in Branch /\ History(remote) /\ dirty \subseteq Path
      BY DEF RefreshInv, CheckoutGood, RemoteGood, Branch
    <3>3. CheckoutGood'
      BY <3>1, <3>2, HeadStep
    <3> QED BY <3>1, <3>3 DEF RefreshInv, RemoteGood
  <2>5. CASE OthersPush
    <3>1. UNCHANGED checkout /\ remote' = Append(remote, NewCommit("human", {"src"}))
      BY <2>5 DEF OthersPush
    <3>2. {"src"} \subseteq Path /\ {"src"} # {}
      BY DEF Path
    <3>3. History(remote')
      BY <3>1, <3>2, HumanHistory DEF RefreshInv, RemoteGood
    <3> QED BY <3>1, <3>3 DEF RefreshInv, RemoteGood, CheckoutGood, checkout
  <2> QED BY <2>1, <2>2, <2>3, <2>4, <2>5
<1> QED BY <1>2, <1>3 DEF RefreshInv

\* A refresh starts from main, which is a good history.
LEMMA BeginStep ==
    ASSUME RefreshInv, NEW p \in Process, Begin(p)
    PROVE  RefreshInv'
<1>1. UNCHANGED checkout /\ UNCHANGED remote
  BY DEF Begin, checkout
<1>2. JobShape' /\ JobsGood'
  <2>1. CASE UNCHANGED job
    BY <2>1, JobsStay
  <2>2. CASE job' # job
    <3> DEFINE j == [NoJob EXCEPT !.pc = "lock", !.source = Main]
    <3>1. Becomes(p, j)
      BY <2>2 DEF Begin, Becomes
    <3>2. j = JobRecord("lock", Main, {}, <<>>, "none")
      <4> DEFINE k == [NoJob EXCEPT !.pc = "lock"]
      <4>1. k = JobRecord("lock", NoJob.source, NoJob.touched, NoJob.writer, NoJob.result)
        <5>1. IsJob(NoJob)
          BY NoJobIs
        <5> QED BY <5>1 DEF IsJob, JobRecord
      <4>2. j = [k EXCEPT !.source = Main]
        BY SMT
      <4>3. [k EXCEPT !.source = Main] = JobRecord("lock", Main, {}, <<>>, "none")
        <5> HIDE DEF k
        <5>1. k = JobRecord("lock", <<>>, {}, <<>>, "none")
          BY <4>1, NoJobIs
        <5> QED BY <5>1 DEF JobRecord
      <4> QED BY <4>2, <4>3
    <3> HIDE DEF j
    <3>3. IsJob(j) /\ j.pc = "lock" /\ j.source = Main /\ j.touched = {} /\ j.writer = <<>>
          /\ j.result = "none"
      BY <3>2, RecordIsJob
    <3>4. History(Main)
      BY DEF RefreshInv, CheckoutGood, Branch, Main
    <3>5. JobGood(j)
      BY <3>3, <3>4, EmptyHistory DEF JobGood
    <3> QED BY <3>1, <3>3, <3>5, JobStep
  <2> QED BY <2>1, <2>2
<1> QED BY <1>1, <1>2, PlaceStays DEF RefreshInv

\* The model pass and the commit: the decision still stands.
LEMMA ModelStep ==
    ASSUME RefreshInv, NEW p \in Process, ModelPass(p)
    PROVE  RefreshInv'
<1>1. UNCHANGED checkout /\ UNCHANGED remote
  BY DEF ModelPass, checkout
<1>2. PICK touched \in SUBSET Path :
         job' = [job EXCEPT ![p].pc = "validate", ![p].touched = touched]
  BY DEF ModelPass
<1>3. JobShape' /\ JobsGood'
  <2> DEFINE j == [job[p] EXCEPT !.pc = "validate", !.touched = touched]
             k == [job[p] EXCEPT !.pc = "validate"]
  <2>1. Becomes(p, j)
    BY <1>2 DEF Becomes
  <2>2. IsJob(job[p])
    BY DEF RefreshInv, JobShape
  <2>3. k = JobRecord("validate", job[p].source, job[p].touched, job[p].writer, job[p].result)
    BY <2>2 DEF IsJob, JobRecord
  <2>4. j = [k EXCEPT !.touched = touched]
    BY SMT
  <2>5. j = JobRecord("validate", job[p].source, touched, job[p].writer, job[p].result)
    <3> HIDE DEF k, j
    <3> QED BY <2>3, <2>4 DEF JobRecord
  <2> HIDE DEF k, j
  <2>6. IsJob(j) /\ j.pc = "validate" /\ j.source = job[p].source /\ j.touched = touched
        /\ j.writer = job[p].writer /\ j.result = job[p].result
    BY <2>5, RecordIsJob
  <2>7. job[p].pc = "model" /\ JobGood(job[p])
    BY DEF ModelPass, RefreshInv, JobsGood
  <2>8. JobGood(j)
    BY <2>6, <2>7 DEF JobGood
  <2> QED BY <2>1, <2>6, <2>8, JobStep
<1> QED BY <1>1, <1>3, PlaceStays DEF RefreshInv

LEMMA ValidateStep ==
    ASSUME RefreshInv, NEW p \in Process, ValidateAndCommit(p)
    PROVE  RefreshInv'
<1>1. UNCHANGED checkout /\ UNCHANGED remote
  BY DEF ValidateAndCommit, checkout
<1>2. JobShape' /\ JobsGood'
  <2>1. CASE ~Acceptable(job[p].source, job[p].touched)
    <3>1. Throws(p)
      BY <2>1 DEF ValidateAndCommit
    <3> QED BY <3>1, ThrowStep
  <2>2. CASE Acceptable(job[p].source, job[p].touched)
    <3> DEFINE w == Append(job[p].source, NewCommit("bot", job[p].touched))
    <3>1. History(w)
      <4>1. History(job[p].source) /\ ~Fresh(job[p].source)
        BY DEF ValidateAndCommit, RefreshInv, JobsGood, JobGood
      <4> QED BY <2>2, <4>1, MarkerHistory
    <3>2. job' = [job EXCEPT ![p].pc = "precheck", ![p].touched = {}, ![p].writer = w]
      BY <2>2 DEF ValidateAndCommit
    <3> HIDE DEF w
    <3> DEFINE j == [job[p] EXCEPT !.pc = "precheck", !.touched = {}, !.writer = w]
               k == [job[p] EXCEPT !.pc = "precheck"]
               l == [k EXCEPT !.touched = {}]
    <3>3. Becomes(p, j)
      BY <3>2 DEF Becomes
    <3>4. IsJob(job[p])
      BY DEF RefreshInv, JobShape
    <3>5. k = JobRecord("precheck", job[p].source, job[p].touched, job[p].writer, job[p].result)
      BY <3>4 DEF IsJob, JobRecord
    <3>6. j = [l EXCEPT !.writer = w]
      BY SMT
    <3>7. l = JobRecord("precheck", job[p].source, {}, job[p].writer, job[p].result)
      <4> HIDE DEF k
      <4> QED BY <3>5 DEF JobRecord
    <3>8. j = JobRecord("precheck", job[p].source, {}, w, job[p].result)
      <4> HIDE DEF l, j
      <4> QED BY <3>6, <3>7 DEF JobRecord
    <3> HIDE DEF j, k, l
    <3>9. IsJob(j) /\ j.pc = "precheck" /\ j.source = job[p].source /\ j.touched = {}
          /\ j.writer = w /\ j.result = job[p].result
      BY <3>8, RecordIsJob
    <3>10. JobGood(j)
      BY <3>1, <3>9 DEF RefreshInv, JobsGood, JobGood
    <3> QED BY <3>3, <3>9, <3>10, JobStep
  <2> QED BY <2>1, <2>2
<1> QED BY <1>1, <1>2, PlaceStays DEF RefreshInv

\* hasSourceCommitsSinceIndex decides between the model pass and the report.
LEMMA DecideStep ==
    ASSUME RefreshInv, NEW p \in Process, Decide(p)
    PROVE  RefreshInv'
<1>1. UNCHANGED checkout /\ UNCHANGED remote
  BY DEF Decide, checkout
<1>2. HasSourceCommitsSinceIndex(job[p].source) <=> ~Fresh(job[p].source)
  BY DecisionIsExact DEF RefreshInv, JobsGood, JobGood
<1>3. JobShape' /\ JobsGood'
  <2>1. CASE HasSourceCommitsSinceIndex(job[p].source)
    <3>1. Goto(p, "model")
      BY <2>1 DEF Decide
    <3> QED BY <1>2, <2>1, <3>1, PlainGoto
  <2>2. CASE ~HasSourceCommitsSinceIndex(job[p].source)
    <3>1. Ends(p, "up-to-date")
      BY <2>2 DEF Decide
    <3> QED BY <1>2, <2>2, <3>1, EndsStep
  <2> QED BY <2>1, <2>2
<1> QED BY <1>1, <1>3, PlaceStays DEF RefreshInv

\* The merge, the push and the reset move good histories around.
LEMMA PublishStep ==
    ASSUME RefreshInv, NEW p \in Process, Merge(p) \/ Push(p) \/ PushFails(p) \/ Reset(p)
    PROVE  RefreshInv'
<1>1. /\ History(job[p].writer) /\ History(job[p].source) /\ branch \in Branch
      /\ History(Main) /\ dirty \subseteq Path
  BY DEF RefreshInv, JobsGood, JobGood, CheckoutGood, Branch, Main
<1>2. CASE Merge(p)
  <2>1. UNCHANGED <<branch, dirty, remote>>
    BY <1>2 DEF Merge
  <2>2. CASE heads' = heads /\ Throws(p)
    <3>1. UNCHANGED checkout
      BY <2>1, <2>2 DEF checkout
    <3> QED BY <2>1, <2>2, <3>1, ThrowStep, PlaceStays DEF RefreshInv
  <2>3. CASE heads' = [heads EXCEPT ![branch] = job[p].writer] /\ Goto(p, "push")
    <3>1. CheckoutGood'
      BY <1>1, <2>1, <2>3, HeadStep
    <3>2. JobShape' /\ JobsGood'
      BY <2>3, PlainGoto
    <3> QED BY <2>1, <3>1, <3>2 DEF RefreshInv, RemoteGood
  <2> QED BY <1>2, <2>2, <2>3 DEF Merge
<1>3. CASE Push(p) \/ PushFails(p)
  <2>1. UNCHANGED checkout
    BY <1>3 DEF Push, PushFails, checkout
  <2>2. remote' \in {remote, Main}
    BY <1>3 DEF Push, PushFails
  <2>3. Ends(p, "published") \/ Goto(p, "inspect")
    BY <1>3 DEF Push, PushFails
  <2>4. JobShape' /\ JobsGood'
    <3>1. CASE Ends(p, "published")
      <4>1. "published" # "up-to-date"
        OBVIOUS
      <4> QED BY <3>1, <4>1, EndsStep
    <3>2. CASE Goto(p, "inspect")
      BY <3>2, PlainGoto
    <3> QED BY <2>3, <3>1, <3>2
  <2>5. CheckoutGood'
    BY <2>1 DEF RefreshInv, CheckoutGood, checkout
  <2>6. RemoteGood'
    BY <1>1, <2>2 DEF RefreshInv, RemoteGood
  <2> QED BY <2>4, <2>5, <2>6 DEF RefreshInv
<1>4. CASE Reset(p)
  <2>1. /\ heads' = [heads EXCEPT ![branch] = job[p].source] /\ dirty' = {}
        /\ Throws(p) /\ UNCHANGED <<branch, remote>>
    BY <1>4 DEF Reset
  <2>2. CheckoutGood'
    BY <1>1, <2>1, HeadStep
  <2>3. JobShape' /\ JobsGood'
    BY <2>1, ThrowStep
  <2> QED BY <2>1, <2>2, <2>3 DEF RefreshInv, RemoteGood
<1> QED BY <1>2, <1>3, <1>4

\* The other steps of a refresh go on, throw or end.
Advances(p) ==
    \/ UNCHANGED job \/ Throws(p) \/ Becomes(p, NoJob)
    \/ \E pc \in {"recheck", "clone", "decide", "fetch", "check", "merge", "reset"} : Goto(p, pc)

LEMMA AdvanceStep ==
    ASSUME RefreshInv, NEW p \in Process, Advances(p), UNCHANGED checkout, UNCHANGED remote
    PROVE  RefreshInv'
<1>1. CASE \E pc \in {"recheck", "clone", "decide", "fetch", "check", "merge", "reset"} : Goto(p, pc)
  <2>1. PICK pc \in {"recheck", "clone", "decide", "fetch", "check", "merge", "reset"} : Goto(p, pc)
    BY <1>1
  <2>2. pc # "model" /\ pc # "validate"
    OBVIOUS
  <2>3. JobShape' /\ JobsGood'
    BY <2>1, <2>2, PlainGoto
  <2> QED BY <2>3, PlaceStays DEF RefreshInv
<1>2. CASE UNCHANGED job \/ Throws(p) \/ Becomes(p, NoJob)
  <2>1. JobShape' /\ JobsGood'
    BY <1>2, JobsStay, ThrowStep
  <2> QED BY <2>1, PlaceStays DEF RefreshInv
<1> QED BY <1>1, <1>2 DEF Advances

\* Which steps those are.
Others(p) ==
    \/ AcquireLock(p) \/ Clone(p) \/ Check(p, "recheck", "clone") \/ Check(p, "precheck", "fetch")
    \/ Check(p, "check", "merge") \/ Fetch(p) \/ Inspect(p) \/ Finally(p)
    \/ CommandFails(p) \/ Crash(p) \/ LockHelperDies(p)

LEMMA OthersStep ==
    ASSUME RefreshInv, NEW p \in Process, Others(p)
    PROVE  RefreshInv'
<1>1. UNCHANGED checkout /\ UNCHANGED remote
  BY DEF Others, AcquireLock, Clone, Check, Fetch, Inspect, Finally, CommandFails, Crash,
         LockHelperDies, checkout
<1>2. CASE AcquireLock(p)
  BY <1>1, <1>2, AdvanceStep DEF AcquireLock, Advances, Becomes
<1>3. CASE Clone(p)
  BY <1>1, <1>3, AdvanceStep DEF Clone, Advances
<1>4. CASE Check(p, "recheck", "clone")
  BY <1>1, <1>4, AdvanceStep DEF Check, Advances
<1>5. CASE Check(p, "precheck", "fetch")
  BY <1>1, <1>5, AdvanceStep DEF Check, Advances
<1>6. CASE Check(p, "check", "merge")
  BY <1>1, <1>6, AdvanceStep DEF Check, Advances
<1>7. CASE Fetch(p)
  BY <1>1, <1>7, AdvanceStep DEF Fetch, Advances
<1>8. CASE Inspect(p)
  BY <1>1, <1>8, AdvanceStep DEF Inspect, Advances
<1>9. CASE Finally(p)
  BY <1>1, <1>9, AdvanceStep DEF Finally, Advances, Becomes
<1>10. CASE CommandFails(p)
  BY <1>1, <1>10, AdvanceStep DEF CommandFails, Advances
<1>11. CASE Crash(p)
  BY <1>1, <1>11, AdvanceStep DEF Crash, Advances, Becomes
<1>12. CASE LockHelperDies(p)
  BY <1>1, <1>12, AdvanceStep DEF LockHelperDies, Advances
<1> QED BY <1>2, <1>3, <1>4, <1>5, <1>6, <1>7, <1>8, <1>9, <1>10, <1>11, <1>12 DEF Others

LEMMA RefreshInvStep == RefreshInv /\ [Next]_vars => RefreshInv'
<1> SUFFICES ASSUME RefreshInv, [Next]_vars PROVE RefreshInv'
  OBVIOUS
<1>1. CASE UNCHANGED vars
  <2>1. UNCHANGED checkout /\ UNCHANGED remote /\ UNCHANGED job
    BY <1>1 DEF vars
  <2> QED BY <2>1, PlaceStays, JobsStay DEF RefreshInv
<1>2. CASE (\E path \in Path : Edit(path)) \/ Switch \/ Commit \/ Pull \/ OthersPush
  BY <1>2, PeopleStep
<1>3. ASSUME NEW p \in Process, Step(p) \/ PushFails(p) \/ CommandFails(p) \/ Crash(p) \/ LockHelperDies(p)
      PROVE  RefreshInv'
  <2>1. \/ Begin(p) \/ ModelPass(p) \/ ValidateAndCommit(p) \/ Decide(p) \/ Others(p)
        \/ Merge(p) \/ Push(p) \/ PushFails(p) \/ Reset(p)
    BY <1>3 DEF Step, Others
  <2> QED BY <2>1, BeginStep, ModelStep, ValidateStep, DecideStep, PublishStep, OthersStep
<1> QED BY <1>1, <1>2, <1>3 DEF Next

\* The histories of the checkout, the remote and the refreshes stay good, and a
\* refresh that goes on to the model pass has read one that needs it.
THEOREM RefreshInvariant == Spec => []RefreshInv
<1> QED BY RefreshInvInit, RefreshInvStep, PTL DEF Spec

----------------------------------------------------------------------------
(* The theorems                                                            *)

\* A refresh that reports "up-to-date" read a history that ends in the bot's
\* commit, whatever people, other clones and other refreshes did meanwhile.
THEOREM UpToDateMeansFresh == Spec => []UpToDateIsFresh
<1>1. RefreshInv => UpToDateIsFresh
  BY DEF RefreshInv, JobsGood, JobGood, UpToDateIsFresh
<1> QED BY <1>1, RefreshInvariant, PTL

\* No bot commit follows another, on any branch or on the remote, even when a
\* lock helper dies and two refreshes run at once.
THEOREM NeverRefreshedTwice == Spec => []NoRedundantRefresh
<1>1. RefreshInv => NoRedundantRefresh
  BY DEF RefreshInv, CheckoutGood, RemoteGood, History, Alternates, Branch, NoRedundantRefresh
<1> QED BY <1>1, RefreshInvariant, PTL

----------------------------------------------------------------------------
(* Types, ids and the lock                                                 *)

Pc ==
    {"idle", "lock", "recheck", "clone", "decide", "model", "validate", "precheck",
     "fetch", "check", "merge", "push", "inspect", "reset", "finally"}
Result == {"none", "failed", "up-to-date", "published"}
CommitType == [by : {"human", "bot"}, paths : SUBSET Path, id : Nat]

\* A history whose commits have different ids.
Numbered(h) ==
    /\ \A i \in 1..Len(h) : h[i] \in CommitType
    /\ \A i, j \in 1..Len(h) : h[i].id = h[j].id => i = j

\* The histories there are.
Held(h) ==
    \/ h = <<>> \/ h = remote
    \/ \E b \in Branch : h = heads[b]
    \/ \E p \in Process : h = job[p].source \/ h = job[p].writer

\* One of them with one more commit.
Grown(h) ==
    \E by \in {"human", "bot"}, paths \in SUBSET Path : \E g : Held(g) /\ h = Append(g, NewCommit(by, paths))

IdsDiffer ==
    /\ Numbered(remote) /\ \A b \in Branch : Numbered(heads[b])
    /\ \A p \in Process : Numbered(job[p].source) /\ Numbered(job[p].writer)

LockShape ==
    /\ lock \subseteq Process /\ \A p, q \in lock : p = q
    /\ \A p \in lock : job[p].pc \notin {"idle", "lock"}

JobTypes == \A p \in Process : job[p].pc \in Pc /\ job[p].result \in Result

TypeInv == IdsDiffer /\ LockShape /\ JobTypes

LEMMA HeldIs ==
    ASSUME RefreshInv, IdsDiffer, NEW h, Held(h)
    PROVE  History(h) /\ Numbered(h)
<1>1. Numbered(<<>>)
  <2>1. Len(<<>>) = 0
    OBVIOUS
  <2> QED BY <2>1 DEF Numbered
<1> QED BY <1>1, EmptyHistory DEF Held, RefreshInv, CheckoutGood, RemoteGood, JobsGood, JobGood, IdsDiffer

\* The commits of a history are known, and they are finitely many.
LEMMA CommitsAreFinite ==
    ASSUME NEW h, History(h)
    PROVE  IsFiniteSet(Commits(h))
<1> DEFINE n == Len(h)
           S == Commits(h)
           g == [i \in 1..n |-> h[i]]
<1>1. n \in Nat /\ DOMAIN h = 1..n
  BY LenProperties DEF History
<1>2. IsFiniteSet(1..n)
  <2> HIDE DEF n
  <2> QED BY <1>1, FS_Interval
<1>3. g \in Surjection(1..n, S)
  <2>1. S = {h[i] : i \in 1..n}
    BY <1>1 DEF Commits
  <2> HIDE DEF S, n
  <2> QED BY <2>1 DEF Surjection
<1> HIDE DEF g, S, n
<1> QED BY <1>2, <1>3, FS_Surjection DEF S

LEMMA KnownIsFinite ==
    ASSUME RefreshInv
    PROVE  IsFiniteSet(Known)
<1> DEFINE B == {Commits(heads[b]) : b \in DOMAIN heads}
           P == {Commits(job[p].source) \cup Commits(job[p].writer) : p \in Process}
           All == B \cup {Commits(remote)} \cup P
<1>1. DOMAIN heads = Branch
  BY DEF RefreshInv, CheckoutGood
<1>2. B = {Commits(heads["main"]), Commits(heads["other"])}
  BY <1>1 DEF Branch
<1>3. IsFiniteSet(B) /\ \A T \in B : IsFiniteSet(T)
  <2>1. IsFiniteSet(Commits(heads["main"])) /\ IsFiniteSet(Commits(heads["other"]))
    BY CommitsAreFinite DEF RefreshInv, CheckoutGood, Branch
  <2>2. IsFiniteSet({Commits(heads["main"])})
    BY FS_Singleton
  <2>3. IsFiniteSet({Commits(heads["other"])})
    BY FS_Singleton
  <2>4. B = {Commits(heads["main"])} \cup {Commits(heads["other"])}
    BY <1>2
  <2>5. IsFiniteSet({Commits(heads["main"])} \cup {Commits(heads["other"])})
    BY <2>2, <2>3, FS_Union
  <2> QED BY <1>2, <2>1, <2>4, <2>5
<1>4. IsFiniteSet(P)
  <2> DEFINE g == [p \in Process |-> Commits(job[p].source) \cup Commits(job[p].writer)]
  <2>1. g \in Surjection(Process, P)
    BY DEF Surjection
  <2> HIDE DEF g, P
  <2> QED BY <2>1, RefreshAssumption, FS_Surjection
<1>5. \A T \in P : IsFiniteSet(T)
  <2> SUFFICES ASSUME NEW p \in Process
               PROVE  IsFiniteSet(Commits(job[p].source) \cup Commits(job[p].writer))
    OBVIOUS
  <2>1. IsFiniteSet(Commits(job[p].source)) /\ IsFiniteSet(Commits(job[p].writer))
    BY CommitsAreFinite DEF RefreshInv, JobsGood, JobGood
  <2> QED BY <2>1, FS_Union
<1>6. IsFiniteSet(Commits(remote)) /\ IsFiniteSet({Commits(remote)})
  BY CommitsAreFinite, FS_Singleton DEF RefreshInv, RemoteGood
<1>7. Known = UNION All
  BY DEF Known
<1> HIDE DEF B, P
<1>8. IsFiniteSet(B \cup {Commits(remote)})
  BY <1>3, <1>6, FS_Union
<1>9. IsFiniteSet(All)
  BY <1>4, <1>8, FS_Union
<1>10. \A T \in All : IsFiniteSet(T)
  BY <1>3, <1>5, <1>6
<1> HIDE DEF All
<1> QED BY <1>7, <1>9, <1>10, FS_UNION

\* There is a number left that no known commit has.
LEMMA NewIdIsNew ==
    ASSUME RefreshInv
    PROVE  NewId \in Nat /\ \A c \in Known : c.id # NewId
<1> DEFINE K == Known
           n == Cardinality(K)
           m == n + 1
           I == {c.id : c \in K}
           T == (1..m) \ I
<1>1. IsFiniteSet(K)
  BY KnownIsFinite
<1>2. NewId = Min(T)
  BY DEF NewId
<1> HIDE DEF K
<1>3. n \in Nat
  BY <1>1, FS_CardinalityType
<1>4. IsFiniteSet(I) /\ Cardinality(I) <= n
  <2> DEFINE g == [c \in K |-> c.id]
  <2>1. g \in Surjection(K, I)
    BY DEF Surjection
  <2> HIDE DEF g, I
  <2> QED BY <1>1, <2>1, FS_Surjection
<1>5. Cardinality(I) \in Nat
  <2> HIDE DEF I
  <2> QED BY <1>4, FS_CardinalityType
<1>6. \A c \in K : c.id \in I
  OBVIOUS
<1> HIDE DEF n, I
<1>7. T # {}
  <2> SUFFICES ASSUME T = {} PROVE FALSE
    OBVIOUS
  <2>1. 1..m \subseteq I
    OBVIOUS
  <2>2. Cardinality(1..m) = m
    <3>1. m \in Nat /\ 1 <= m
      BY <1>3
    <3> HIDE DEF m
    <3>2. Cardinality(1..m) = IF 1 > m THEN 0 ELSE m - 1 + 1
      BY <3>1, FS_Interval
    <3> QED BY <3>1, <3>2
  <2>3. Cardinality(1..m) <= Cardinality(I)
    <3> HIDE DEF m
    <3> QED BY <1>4, <2>1, FS_Subset
  <2> QED BY <1>3, <1>4, <1>5, <2>2, <2>3
<1>8. T \subseteq Nat
  BY <1>3
<1>9. T \cap I = {}
  OBVIOUS
<1> HIDE DEF T
<1>10. PICK x \in T : \A y \in T : x <= y
  <2>1. PICK x \in T : \A y \in T : <<y, x>> \notin OpToRel(<, Nat)
    BY <1>7, <1>8, NatLessThanWellFounded, WFMin
  <2>2. \A y \in T : ~(y < x)
    BY <1>8, <2>1 DEF OpToRel
  <2> QED BY <1>8, <2>2
<1>11. Min(T) \in T
  BY <1>10 DEF Min
<1> QED BY <1>2, <1>6, <1>8, <1>9, <1>11 DEF K

LEMMA GrownIs ==
    ASSUME RefreshInv, IdsDiffer, NEW h, Grown(h)
    PROVE  Numbered(h)
<1>1. PICK by \in {"human", "bot"}, paths \in SUBSET Path :
         \E g : Held(g) /\ h = Append(g, NewCommit(by, paths))
  BY DEF Grown
<1>2. PICK g : Held(g) /\ h = Append(g, NewCommit(by, paths))
  BY <1>1
<1> DEFINE c == NewCommit(by, paths)
           n == Len(g)
<1>3. c.id = NewId /\ c \in CommitType
  BY NewIdIsNew DEF NewCommit, CommitType
<1>4. Numbered(g) /\ g \in Seq(Commits(g))
  BY <1>2, HeldIs DEF History
<1>5. \A i \in 1..n : g[i].id # NewId
  <2>1. n \in Nat /\ DOMAIN g = 1..n
    BY <1>4, LenProperties
  <2>2. \A i \in 1..n : g[i] \in Commits(g)
    BY <2>1 DEF Commits
  <2>3. Commits(g) \subseteq Known
    <3>1. CASE g = <<>>
      BY <3>1 DEF Commits
    <3>2. CASE g = remote
      BY <3>2 DEF Known
    <3>3. CASE \E b \in Branch : g = heads[b]
      <4>1. DOMAIN heads = Branch
        BY DEF RefreshInv, CheckoutGood
      <4> QED BY <3>3, <4>1 DEF Known
    <3>4. ASSUME NEW p \in Process, g = job[p].source \/ g = job[p].writer
          PROVE  Commits(g) \subseteq Known
      <4>1. Commits(g) \subseteq Commits(job[p].source) \cup Commits(job[p].writer)
        BY <3>4
      <4> QED BY <4>1 DEF Known
    <3> QED BY <1>2, <3>1, <3>2, <3>3, <3>4 DEF Held
  <2> QED BY <2>2, <2>3, NewIdIsNew
<1> HIDE DEF c
<1>6. /\ Len(h) = n + 1 /\ n \in Nat /\ h[n + 1] = c
      /\ \A i \in 1..n : h[i] = g[i]
  <2>1. h = Append(g, c)
    BY <1>2 DEF c
  <2> QED BY <1>4, <2>1, AppendSeq
<1> HIDE DEF n
<1>7. \A i \in 1..Len(h) : i \in 1..n \/ i = n + 1
  BY <1>6
<1>8. /\ \A i \in 1..n : g[i] \in CommitType
      /\ \A i, j \in 1..n : g[i].id = g[j].id => i = j
  BY <1>4 DEF Numbered, n
<1>9. \A i \in 1..Len(h) : h[i] \in CommitType
  BY <1>3, <1>6, <1>7, <1>8
<1>10. ASSUME NEW i \in 1..Len(h), NEW j \in 1..Len(h), h[i].id = h[j].id PROVE i = j
  <2>1. CASE i \in 1..n /\ j \in 1..n
    BY <1>6, <1>8, <1>10, <2>1
  <2>2. CASE i = n + 1 /\ j \in 1..n
    BY <1>3, <1>5, <1>6, <1>10, <2>2
  <2>3. CASE i \in 1..n /\ j = n + 1
    BY <1>3, <1>5, <1>6, <1>10, <2>3
  <2> QED BY <1>7, <2>1, <2>2, <2>3
<1> QED BY <1>9, <1>10 DEF Numbered

LEMMA HeldOrGrown ==
    ASSUME RefreshInv, IdsDiffer, NEW h, Held(h) \/ Grown(h)
    PROVE  Numbered(h)
BY HeldIs, GrownIs

\* What a step writes to the branches and the remote.
Places ==
    /\ \A b \in Branch : Held(heads'[b]) \/ Grown(heads'[b])
    /\ Held(remote') \/ Grown(remote')

\* What a step of p writes to its locals, and to the lock.
Went(p, pc) ==
    /\ \A q \in Process \ {p} : job'[q] = job[q]
    /\ job'[p].pc = pc /\ pc \in Pc /\ job'[p].result \in Result
    /\ Held(job'[p].source) /\ (Held(job'[p].writer) \/ Grown(job'[p].writer))

Locks(p, pc) ==
    /\ lock' = lock \/ lock' = lock \ {p} \/ (lock = {} /\ lock' = {p})
    /\ p \in lock' => pc \notin {"idle", "lock"}

LEMMA TypeStep ==
    ASSUME RefreshInv, TypeInv, Places, NEW p \in Process, NEW pc, Went(p, pc), Locks(p, pc)
    PROVE  TypeInv'
<1>1. \A q \in Process : q = p \/ job'[q] = job[q]
  BY DEF Went
<1>2. Numbered(remote') /\ \A b \in Branch : Numbered(heads'[b])
  BY HeldOrGrown DEF Places, TypeInv
<1>3. Numbered(job'[p].source) /\ Numbered(job'[p].writer)
  BY HeldOrGrown DEF Went, TypeInv
<1>4. IdsDiffer'
  BY <1>1, <1>2, <1>3 DEF TypeInv, IdsDiffer
<1>5. JobTypes'
  BY <1>1 DEF Went, TypeInv, JobTypes
<1>6. LockShape'
  <2>1. lock' \subseteq Process /\ \A q, r \in lock' : q = r
    BY DEF Locks, TypeInv, LockShape
  <2>2. ASSUME NEW q \in lock' PROVE job'[q].pc \notin {"idle", "lock"}
    <3>1. CASE q = p
      BY <2>2, <3>1 DEF Locks, Went
    <3>2. CASE q # p
      BY <1>1, <2>1, <2>2, <3>2 DEF Locks, TypeInv, LockShape
    <3> QED BY <3>1, <3>2
  <2> QED BY <2>1, <2>2 DEF LockShape
<1> QED BY <1>4, <1>5, <1>6 DEF TypeInv

----------------------------------------------------------------------------
(* The branches and the remote                                             *)

LEMMA SamePlaces ==
    ASSUME UNCHANGED heads, UNCHANGED remote
    PROVE  Places
BY DEF Places, Held

LEMMA HeadPlaces ==
    ASSUME RefreshInv, NEW b \in Branch, NEW h, heads' = [heads EXCEPT ![b] = h], Held(h) \/ Grown(h),
           UNCHANGED remote
    PROVE  Places
<1>1. heads = [c \in Branch |-> heads[c]]
  BY DEF RefreshInv, CheckoutGood
<1>2. \A c \in Branch : heads'[c] = IF c = b THEN h ELSE heads[c]
  BY <1>1
<1>3. \A c \in Branch : Held(heads[c])
  BY DEF Held
<1>4. Held(remote')
  BY DEF Held
<1> QED BY <1>2, <1>3, <1>4 DEF Places

LEMMA PeoplePlaces ==
    ASSUME RefreshInv, (\E path \in Path : Edit(path)) \/ Switch \/ Commit \/ Pull \/ OthersPush
    PROVE  Places /\ UNCHANGED <<job, lock>>
<1>1. branch \in Branch /\ "main" \in Branch /\ dirty \subseteq Path
  BY DEF RefreshInv, CheckoutGood, Branch
<1>2. UNCHANGED <<job, lock>>
  BY DEF Edit, Switch, Commit, Pull, OthersPush, checkout
<1>3. CASE (\E path \in Path : Edit(path)) \/ Switch
  <2>1. UNCHANGED heads /\ UNCHANGED remote
    BY <1>3 DEF Edit, Switch
  <2> QED BY <1>2, <2>1, SamePlaces
<1>4. CASE Commit
  <2> DEFINE h == Append(heads[branch], NewCommit("human", dirty))
  <2>1. heads' = [heads EXCEPT ![branch] = h] /\ UNCHANGED remote
    BY <1>4 DEF Commit
  <2>2. Held(heads[branch])
    BY <1>1 DEF Held
  <2>3. Grown(h)
    BY <1>1, <2>2 DEF Grown
  <2> HIDE DEF h
  <2> QED BY <1>1, <1>2, <2>1, <2>3, HeadPlaces
<1>5. CASE Pull
  <2>1. heads' = [heads EXCEPT !["main"] = remote] /\ UNCHANGED remote
    BY <1>5 DEF Pull
  <2>2. Held(remote)
    BY DEF Held
  <2> QED BY <1>1, <1>2, <2>1, <2>2, HeadPlaces
<1>6. CASE OthersPush
  <2>1. UNCHANGED heads /\ remote' = Append(remote, NewCommit("human", {"src"}))
    BY <1>6 DEF OthersPush, checkout
  <2>2. Held(remote) /\ \A b \in Branch : Held(heads[b])
    BY DEF Held
  <2>3. {"src"} \in SUBSET Path
    BY DEF Path
  <2>4. Grown(remote')
    BY <2>1, <2>2, <2>3 DEF Grown
  <2> QED BY <1>2, <2>1, <2>2, <2>4 DEF Places
<1> QED BY <1>3, <1>4, <1>5, <1>6

LEMMA PublishPlaces ==
    ASSUME RefreshInv, NEW p \in Process, Merge(p) \/ Push(p) \/ PushFails(p) \/ Reset(p)
    PROVE  Places
<1>1. branch \in Branch /\ "main" \in Branch
  BY DEF RefreshInv, CheckoutGood, Branch
<1>2. /\ Held(job[p].writer) /\ Held(job[p].source) /\ Held(Main) /\ Held(remote)
      /\ \A b \in Branch : Held(heads[b])
  BY <1>1 DEF Held, Main
<1>3. CASE Merge(p)
  <2>1. UNCHANGED remote /\ (UNCHANGED heads \/ heads' = [heads EXCEPT ![branch] = job[p].writer])
    BY <1>3 DEF Merge
  <2> QED BY <1>1, <1>2, <2>1, SamePlaces, HeadPlaces
<1>4. CASE Push(p) \/ PushFails(p)
  <2>1. UNCHANGED heads /\ remote' \in {remote, Main}
    BY <1>4 DEF Push, PushFails, checkout
  <2> QED BY <1>2, <2>1 DEF Places
<1>5. CASE Reset(p)
  <2>1. UNCHANGED remote /\ heads' = [heads EXCEPT ![branch] = job[p].source]
    BY <1>5 DEF Reset
  <2> QED BY <1>1, <1>2, <2>1, HeadPlaces
<1> QED BY <1>3, <1>4, <1>5

----------------------------------------------------------------------------
(* The locals of a refresh                                                 *)

LEMMA WroteIs ==
    ASSUME RefreshInv, NEW p \in Process, NEW j, Becomes(p, j), j.pc \in Pc, j.result \in Result,
           Held(j.source), Held(j.writer) \/ Grown(j.writer)
    PROVE  Went(p, j.pc)
<1>1. job = [q \in Process |-> job[q]]
  BY DEF RefreshInv, JobShape
<1>2. \A q \in Process : job'[q] = IF q = p THEN j ELSE job[q]
  BY <1>1 DEF Becomes
<1> QED BY <1>2 DEF Went

LEMMA StaysIs ==
    ASSUME TypeInv, NEW p \in Process, UNCHANGED job
    PROVE  Went(p, job[p].pc)
<1>1. Held(job[p].source) /\ Held(job[p].writer)
  BY DEF Held
<1> QED BY <1>1 DEF Went, TypeInv, JobTypes

LEMMA UpdateIs ==
    ASSUME RefreshInv, NEW p \in Process, NEW pc \in Pc, NEW result \in Result,
           Becomes(p, [job[p] EXCEPT !.pc = pc, !.result = result])
    PROVE  Went(p, pc)
<1> DEFINE j == [job[p] EXCEPT !.pc = pc, !.result = result]
<1>1. Becomes(p, j)
  OBVIOUS
<1>2. IsJob(job[p])
  BY DEF RefreshInv, JobShape
<1>3. j = JobRecord(pc, job[p].source, job[p].touched, job[p].writer, result)
  BY <1>2, JobUpdate, Zenon
<1> HIDE DEF j
<1>4. j.source = job[p].source /\ j.writer = job[p].writer /\ j.pc = pc /\ j.result = result
  BY <1>3, RecordIsJob
<1>5. Held(j.source) /\ Held(j.writer)
  BY <1>4 DEF Held
<1> QED BY <1>1, <1>4, <1>5, WroteIs

LEMMA GotoIs ==
    ASSUME RefreshInv, TypeInv, NEW p \in Process, NEW pc \in Pc, Goto(p, pc)
    PROVE  Went(p, pc)
<1>1. IsJob(job[p]) /\ job[p].result \in Result
  BY DEF RefreshInv, JobShape, TypeInv, JobTypes
<1>2. [job[p] EXCEPT !.pc = pc] = [job[p] EXCEPT !.pc = pc, !.result = job[p].result]
  BY <1>1 DEF IsJob, JobRecord
<1>3. Becomes(p, [job[p] EXCEPT !.pc = pc])
  BY DEF Goto, Becomes
<1> QED BY <1>1, <1>2, <1>3, UpdateIs

LEMMA EndsIs ==
    ASSUME RefreshInv, NEW p \in Process, NEW result \in Result, Ends(p, result)
    PROVE  Went(p, "finally")
<1> DEFINE pc == "finally"
<1>1. Becomes(p, [job[p] EXCEPT !.pc = pc, !.result = result]) /\ pc \in Pc
  BY DEF Ends, Becomes, Pc
<1> HIDE DEF pc
<1>2. Went(p, pc)
  BY <1>1, UpdateIs
<1> QED BY <1>2 DEF pc

LEMMA ThrowsIs ==
    ASSUME RefreshInv, NEW p \in Process, Throws(p)
    PROVE  Went(p, "finally")
<1> DEFINE failed == [NoJob EXCEPT !.pc = "finally", !.result = "failed"]
<1>1. failed = JobRecord("finally", NoJob.source, NoJob.touched, NoJob.writer, "failed")
  <2>1. IsJob(NoJob)
    BY NoJobIs
  <2> QED BY <2>1, JobUpdate, Zenon
<1>2. Becomes(p, failed)
  BY DEF Throws, Becomes
<1> HIDE DEF failed
<1>3. failed.source = <<>> /\ failed.writer = <<>> /\ failed.pc = "finally" /\ failed.result = "failed"
  BY <1>1, NoJobIs, RecordIsJob
<1>4. Held(failed.source) /\ Held(failed.writer) /\ failed.pc \in Pc /\ failed.result \in Result
  BY <1>3 DEF Held, Pc, Result
<1> QED BY <1>2, <1>3, <1>4, WroteIs

LEMMA ForgetsIs ==
    ASSUME RefreshInv, NEW p \in Process, Becomes(p, NoJob)
    PROVE  Went(p, "idle")
<1>1. NoJob.source = <<>> /\ NoJob.writer = <<>> /\ NoJob.pc = "idle" /\ NoJob.result = "none"
  BY NoJobIs
<1>2. Held(NoJob.source) /\ Held(NoJob.writer) /\ NoJob.pc \in Pc /\ NoJob.result \in Result
  BY <1>1 DEF Held, Pc, Result
<1> QED BY <1>1, <1>2, WroteIs

LEMMA BeginsIs ==
    ASSUME RefreshInv, TypeInv, NEW p \in Process, Begin(p)
    PROVE  Went(p, "lock") \/ Went(p, "idle")
<1>1. CASE UNCHANGED job
  <2>1. job[p].pc = "idle"
    BY DEF Begin
  <2> QED BY <1>1, <2>1, StaysIs
<1>2. CASE job' # job
  <2> DEFINE j == [NoJob EXCEPT !.pc = "lock", !.source = Main]
             k == [NoJob EXCEPT !.pc = "lock"]
  <2>1. Becomes(p, j)
    BY <1>2 DEF Begin, Becomes
  <2>2. k = JobRecord("lock", NoJob.source, NoJob.touched, NoJob.writer, NoJob.result)
    <3>1. IsJob(NoJob)
      BY NoJobIs
    <3> QED BY <3>1 DEF IsJob, JobRecord
  <2>3. j = [k EXCEPT !.source = Main]
    BY SMT
  <2>4. j = JobRecord("lock", Main, NoJob.touched, NoJob.writer, NoJob.result)
    <3> HIDE DEF k, j
    <3> QED BY <2>2, <2>3 DEF JobRecord
  <2> HIDE DEF k, j
  <2>5. j.pc = "lock" /\ j.source = Main /\ j.writer = <<>> /\ j.result = "none"
    BY <2>4, RecordIsJob, NoJobIs
  <2>6. Held(j.source) /\ Held(j.writer) /\ j.pc \in Pc /\ j.result \in Result
    BY <2>5 DEF Held, Pc, Result, Main, Branch
  <2> QED BY <2>1, <2>5, <2>6, WroteIs
<1> QED BY <1>1, <1>2

LEMMA ModelIs ==
    ASSUME RefreshInv, TypeInv, NEW p \in Process, ModelPass(p)
    PROVE  Went(p, "validate")
<1>1. PICK touched \in SUBSET Path :
         job' = [job EXCEPT ![p].pc = "validate", ![p].touched = touched]
  BY DEF ModelPass
<1> DEFINE j == [job[p] EXCEPT !.pc = "validate", !.touched = touched]
           k == [job[p] EXCEPT !.pc = "validate"]
<1>2. Becomes(p, j)
  BY <1>1 DEF Becomes
<1>3. k = JobRecord("validate", job[p].source, job[p].touched, job[p].writer, job[p].result)
  <2>1. IsJob(job[p])
    BY DEF RefreshInv, JobShape
  <2> QED BY <2>1 DEF IsJob, JobRecord
<1>4. j = [k EXCEPT !.touched = touched]
  BY SMT
<1>5. j = JobRecord("validate", job[p].source, touched, job[p].writer, job[p].result)
  <2> HIDE DEF k, j
  <2> QED BY <1>3, <1>4 DEF JobRecord
<1> HIDE DEF k, j
<1>6. j.pc = "validate" /\ j.source = job[p].source /\ j.writer = job[p].writer /\ j.result = job[p].result
  BY <1>5, RecordIsJob
<1>7. Held(j.source) /\ Held(j.writer) /\ j.pc \in Pc /\ j.result \in Result
  BY <1>6 DEF Held, Pc, TypeInv, JobTypes
<1> QED BY <1>2, <1>6, <1>7, WroteIs

LEMMA CommitsIs ==
    ASSUME RefreshInv, TypeInv, NEW p \in Process, ValidateAndCommit(p)
    PROVE  Went(p, "precheck") \/ Went(p, "finally")
<1>1. CASE ~ Acceptable(job[p].source, job[p].touched)
  <2>1. Throws(p)
    BY <1>1 DEF ValidateAndCommit
  <2> QED BY <2>1, ThrowsIs
<1>2. CASE Acceptable(job[p].source, job[p].touched)
  <2> DEFINE w == Append(job[p].source, NewCommit("bot", job[p].touched))
  <2>1. job' = [job EXCEPT ![p].pc = "precheck", ![p].touched = {}, ![p].writer = w]
    BY <1>2 DEF ValidateAndCommit
  <2>2. Grown(w)
    <3>1. job[p].touched \in SUBSET Path
      BY DEF RefreshInv, JobsGood, JobGood
    <3>2. Held(job[p].source)
      BY DEF Held
    <3> QED BY <3>1, <3>2 DEF Grown
  <2> HIDE DEF w
  <2> DEFINE j == [job[p] EXCEPT !.pc = "precheck", !.touched = {}, !.writer = w]
             k == [job[p] EXCEPT !.pc = "precheck"]
             l == [k EXCEPT !.touched = {}]
  <2>3. Becomes(p, j)
    BY <2>1 DEF Becomes
  <2>4. k = JobRecord("precheck", job[p].source, job[p].touched, job[p].writer, job[p].result)
    <3>1. IsJob(job[p])
      BY DEF RefreshInv, JobShape
    <3> QED BY <3>1 DEF IsJob, JobRecord
  <2>5. j = [l EXCEPT !.writer = w]
    BY SMT
  <2>6. l = JobRecord("precheck", job[p].source, {}, job[p].writer, job[p].result)
    <3> HIDE DEF k
    <3> QED BY <2>4 DEF JobRecord
  <2>7. j = JobRecord("precheck", job[p].source, {}, w, job[p].result)
    <3> HIDE DEF l, j
    <3> QED BY <2>5, <2>6 DEF JobRecord
  <2> HIDE DEF j, k, l
  <2>8. j.pc = "precheck" /\ j.source = job[p].source /\ j.writer = w /\ j.result = job[p].result
    BY <2>7, RecordIsJob
  <2>9. Held(j.source) /\ Grown(j.writer) /\ j.pc \in Pc /\ j.result \in Result
    BY <2>2, <2>8 DEF Held, Pc, TypeInv, JobTypes
  <2> QED BY <2>3, <2>8, <2>9, WroteIs
<1> QED BY <1>1, <1>2

----------------------------------------------------------------------------
(* Every step keeps the types                                              *)

\* Where a step of p leads.
Leads(p) == \E pc \in Pc : Went(p, pc) /\ Locks(p, pc)

LEMMA OwnStep ==
    ASSUME RefreshInv, TypeInv, NEW p \in Process, UNCHANGED lock, job[p].pc \notin {"idle", "lock"},
           NEW pc \in Pc \ {"idle", "lock"}, Went(p, pc)
    PROVE  Leads(p)
<1>1. Locks(p, pc)
  BY DEF Locks
<1> QED BY <1>1 DEF Leads

\* Who does not run yet does not hold the lock.
LEMMA WaitsOutside ==
    ASSUME TypeInv, NEW p \in Process, job[p].pc \in {"idle", "lock"}
    PROVE  p \notin lock
BY DEF TypeInv, LockShape

LEMMA EarlyLeads ==
    ASSUME RefreshInv, TypeInv, NEW p \in Process, Begin(p) \/ AcquireLock(p)
    PROVE  Leads(p)
<1>1. {"idle", "lock", "recheck"} \subseteq Pc
  BY DEF Pc
<1>2. CASE Begin(p)
  <2>1. p \notin lock /\ lock' = lock
    BY <1>2, WaitsOutside DEF Begin
  <2>2. Locks(p, "lock") /\ Locks(p, "idle")
    BY <2>1 DEF Locks
  <2> QED BY <1>1, <1>2, <2>2, BeginsIs DEF Leads
<1>3. CASE AcquireLock(p)
  <2>1. p \notin lock
    BY <1>3, WaitsOutside DEF AcquireLock
  <2>2. CASE lock = {}
    <3>1. lock' = {p} /\ Goto(p, "recheck")
      BY <1>3, <2>2 DEF AcquireLock
    <3>2. Went(p, "recheck")
      BY <1>1, <3>1, GotoIs
    <3>3. Locks(p, "recheck")
      BY <2>2, <3>1 DEF Locks
    <3> QED BY <1>1, <3>2, <3>3 DEF Leads
  <2>3. CASE lock # {}
    <3>1. lock' = lock /\ Becomes(p, NoJob)
      BY <1>3, <2>3 DEF AcquireLock, Becomes
    <3>2. Locks(p, "idle")
      BY <2>1, <3>1 DEF Locks
    <3> QED BY <1>1, <3>1, <3>2, ForgetsIs DEF Leads
  <2> QED BY <2>2, <2>3
<1> QED BY <1>2, <1>3

LEMMA MiddleLeads ==
    ASSUME RefreshInv, TypeInv, NEW p \in Process,
           \/ Clone(p) \/ Decide(p) \/ ModelPass(p) \/ ValidateAndCommit(p) \/ Fetch(p) \/ Inspect(p)
           \/ Check(p, "recheck", "clone") \/ Check(p, "precheck", "fetch") \/ Check(p, "check", "merge")
           \/ Merge(p) \/ Push(p) \/ PushFails(p) \/ Reset(p) \/ CommandFails(p)
    PROVE  Leads(p)
<1>1. UNCHANGED lock /\ job[p].pc \notin {"idle", "lock"}
  BY DEF Clone, Decide, ModelPass, ValidateAndCommit, Fetch, Inspect, Check, Merge, Push, PushFails,
         Reset, CommandFails
<1>2. {"clone", "decide", "model", "validate", "precheck", "fetch", "check", "merge", "push", "inspect",
       "reset", "finally"} \subseteq Pc \ {"idle", "lock"}
  BY DEF Pc
<1>3. \/ \E pc \in {"clone", "decide", "model", "fetch", "check", "merge", "push", "inspect", "reset"} : Goto(p, pc)
      \/ Throws(p) \/ Ends(p, "up-to-date") \/ Ends(p, "published") \/ ModelPass(p) \/ ValidateAndCommit(p)
  BY DEF Clone, Decide, Fetch, Inspect, Check, Merge, Push, PushFails, Reset, CommandFails
<1>4. ASSUME NEW pc \in {"clone", "decide", "model", "fetch", "check", "merge", "push", "inspect", "reset"}, Goto(p, pc)
      PROVE  Leads(p)
  <2>1. pc \in Pc \ {"idle", "lock"}
    BY <1>2
  <2>2. Went(p, pc)
    BY <1>4, <2>1, GotoIs
  <2> QED BY <1>1, <2>1, <2>2, OwnStep
<1>5. CASE Throws(p)
  <2>1. Went(p, "finally")
    BY <1>5, ThrowsIs
  <2> QED BY <1>1, <1>2, <2>1, OwnStep
<1>6. CASE Ends(p, "up-to-date") \/ Ends(p, "published")
  <2>1. "up-to-date" \in Result /\ "published" \in Result
    BY DEF Result
  <2>2. Went(p, "finally")
    BY <1>6, <2>1, EndsIs
  <2> QED BY <1>1, <1>2, <2>2, OwnStep
<1>7. CASE ModelPass(p)
  <2>1. Went(p, "validate")
    BY <1>7, ModelIs
  <2> QED BY <1>1, <1>2, <2>1, OwnStep
<1>8. CASE ValidateAndCommit(p)
  <2>1. Went(p, "precheck") \/ Went(p, "finally")
    BY <1>8, CommitsIs
  <2> QED BY <1>1, <1>2, <2>1, OwnStep
<1> QED BY <1>3, <1>4, <1>5, <1>6, <1>7, <1>8

\* The lock is given back before a refresh is idle again.
LEMMA LateLeads ==
    ASSUME RefreshInv, TypeInv, NEW p \in Process, Finally(p) \/ Crash(p) \/ LockHelperDies(p)
    PROVE  Leads(p)
<1>1. lock' = lock \ {p}
  BY DEF Finally, Crash, LockHelperDies
<1>2. \A pc : Locks(p, pc)
  BY <1>1 DEF Locks
<1>3. CASE Becomes(p, NoJob)
  <2>1. "idle" \in Pc
    BY DEF Pc
  <2> QED BY <1>2, <1>3, <2>1, ForgetsIs DEF Leads
<1>4. CASE UNCHANGED job
  <2>1. job[p].pc \in Pc
    BY DEF TypeInv, JobTypes
  <2> QED BY <1>2, <1>4, <2>1, StaysIs DEF Leads
<1> QED BY <1>3, <1>4 DEF Finally, Crash, LockHelperDies, Becomes

LEMMA RefreshPlaces ==
    ASSUME RefreshInv, NEW p \in Process,
           Step(p) \/ PushFails(p) \/ CommandFails(p) \/ Crash(p) \/ LockHelperDies(p)
    PROVE  Places
<1>1. CASE Merge(p) \/ Push(p) \/ PushFails(p) \/ Reset(p)
  BY <1>1, PublishPlaces
<1>2. CASE ~ (Merge(p) \/ Push(p) \/ PushFails(p) \/ Reset(p))
  <2>1. UNCHANGED heads /\ UNCHANGED remote
    BY <1>2 DEF Step, Begin, AcquireLock, Clone, Decide, ModelPass, ValidateAndCommit, Check, Fetch, Inspect,
                Finally, CommandFails, Crash, LockHelperDies, checkout
  <2> QED BY <2>1, SamePlaces
<1> QED BY <1>1, <1>2

LEMMA TypeInvStep == RefreshInv /\ TypeInv /\ [Next]_vars => TypeInv'
<1> SUFFICES ASSUME RefreshInv, TypeInv, [Next]_vars PROVE TypeInv'
  OBVIOUS
<1>1. ASSUME Places, UNCHANGED <<job, lock>> PROVE TypeInv'
  <2>1. Numbered(remote') /\ \A b \in Branch : Numbered(heads'[b])
    BY <1>1, HeldOrGrown DEF Places, TypeInv
  <2> QED BY <1>1, <2>1 DEF TypeInv, IdsDiffer, LockShape, JobTypes
<1>2. CASE UNCHANGED vars
  <2>1. UNCHANGED heads /\ UNCHANGED remote /\ UNCHANGED <<job, lock>>
    BY <1>2 DEF vars, checkout
  <2> QED BY <1>1, <2>1, SamePlaces
<1>3. CASE (\E path \in Path : Edit(path)) \/ Switch \/ Commit \/ Pull \/ OthersPush
  BY <1>1, <1>3, PeoplePlaces
<1>4. ASSUME NEW p \in Process, Step(p) \/ PushFails(p) \/ CommandFails(p) \/ Crash(p) \/ LockHelperDies(p)
      PROVE  TypeInv'
  <2>1. Places
    BY <1>4, RefreshPlaces
  <2>2. Leads(p)
    BY <1>4, EarlyLeads, MiddleLeads, LateLeads DEF Step
  <2>3. PICK pc \in Pc : Went(p, pc) /\ Locks(p, pc)
    BY <2>2 DEF Leads
  <2> QED BY <2>1, <2>3, TypeStep
<1> QED BY <1>2, <1>3, <1>4 DEF Next

LEMMA TypeInvInit == Init => TypeInv
<1> SUFFICES ASSUME Init PROVE TypeInv
  OBVIOUS
<1>1. PICK first \in {{"src"}, Path}, second \in {{}, {"README"}} :
         LET human == [by |-> "human", paths |-> first, id |-> 1]
             bot == [by |-> "bot", paths |-> second, id |-> 2]
             history == IF first = {"src"} /\ second = {} THEN <<human>> ELSE <<human, bot>>
         IN heads = [main |-> history, other |-> history] /\ remote = history
  BY DEF Init
<1> DEFINE human == [by |-> "human", paths |-> first, id |-> 1]
           bot == [by |-> "bot", paths |-> second, id |-> 2]
           history == IF first = {"src"} /\ second = {} THEN <<human>> ELSE <<human, bot>>
<1>2. human \in CommitType /\ bot \in CommitType /\ human.id = 1 /\ bot.id = 2
  BY DEF CommitType, Path
<1>3. heads = [main |-> history, other |-> history] /\ remote = history
  BY <1>1
<1> HIDE DEF human, bot
<1>4. Numbered(<<human>>) /\ Numbered(<<human, bot>>)
  <2>1. Numbered(<<human>>)
    BY <1>2 DEF Numbered
  <2> DEFINE h == <<human, bot>>
  <2>2. Len(h) = 2 /\ h[1] = human /\ h[2] = bot /\ \A i \in 1..2 : i = 1 \/ i = 2
    OBVIOUS
  <2> HIDE DEF h
  <2>3. Numbered(h)
    BY <1>2, <2>2 DEF Numbered
  <2> QED BY <2>1, <2>3 DEF h
<1>5. Numbered(history) /\ Numbered(<<>>)
  <2>1. Len(<<>>) = 0
    OBVIOUS
  <2> QED BY <1>4, <2>1 DEF Numbered
<1> HIDE DEF history
<1>6. \A p \in Process : job[p] = NoJob
  BY DEF Init
<1>7. IdsDiffer
  BY <1>3, <1>5, <1>6, NoJobIs DEF IdsDiffer, Branch
<1>8. JobTypes
  BY <1>6, NoJobIs DEF JobTypes, Pc, Result
<1>9. LockShape
  BY DEF Init, LockShape
<1> QED BY <1>7, <1>8, <1>9 DEF TypeInv

\* As many commits as positions.
LEMMA NumberedIs ==
    ASSUME NEW h, History(h), Numbered(h)
    PROVE  IsHistory(h)
<1> DEFINE n == Len(h)
           S == Commits(h)
           g == [i \in 1..n |-> h[i]]
<1>1. n \in Nat /\ DOMAIN h = 1..n /\ h \in Seq(S)
  BY LenProperties DEF History
<1>2. IsFiniteSet(1..n) /\ Cardinality(1..n) = n
  <2> HIDE DEF n
  <2>1. 1 \in Int /\ n \in Int /\ (1 > n => n = 0) /\ n - 1 + 1 = n
    BY <1>1
  <2>2. IsFiniteSet(1..n) /\ Cardinality(1..n) = IF 1 > n THEN 0 ELSE n - 1 + 1
    BY <2>1, FS_Interval
  <2> QED BY <2>1, <2>2
<1>3. g \in Surjection(1..n, S)
  <2>1. S = {h[i] : i \in 1..n}
    BY <1>1 DEF Commits
  <2> HIDE DEF S, n
  <2> QED BY <2>1 DEF Surjection
<1>4. \A i, j \in 1..n : g[i] = g[j] => i = j
  <2>1. \A i, j \in 1..n : h[i].id = h[j].id => i = j
    BY DEF Numbered
  <2>2. \A i \in 1..n : g[i] = h[i]
    OBVIOUS
  <2> QED BY <2>1, <2>2
<1>5. S \subseteq CommitType
  BY <1>1 DEF Commits, Numbered
<1> HIDE DEF g, S, n
<1>6. g \in Injection(1..n, S)
  BY <1>3, <1>4 DEF Surjection, Injection, IsInjective
<1>7. Cardinality(S) = n
  BY <1>2, <1>3, <1>6, FS_Surjection
<1>8. h \in Seq(CommitType)
  BY <1>1, <1>5, SeqMonotonic
<1> QED BY <1>7, <1>8 DEF IsHistory, CommitType, S, n

\* The types of a refresh, whatever people, other clones, crashes and dying lock
\* helpers do: no commit is twice in a history, one refresh at most holds the lock
\* and it is running.
THEOREM RefreshTypes == Spec => []RefreshTypeOK
<1>1. RefreshInv /\ TypeInv => RefreshTypeOK
  <2> SUFFICES ASSUME RefreshInv, TypeInv PROVE RefreshTypeOK
    OBVIOUS
  <2>1. IsHistory(remote) /\ \A b \in {"main", "other"} : IsHistory(heads[b])
    BY NumberedIs DEF RefreshInv, CheckoutGood, RemoteGood, TypeInv, IdsDiffer, Branch
  <2>2. Cardinality(lock) <= 1
    <3>1. CASE lock = {}
      BY <3>1, FS_EmptySet
    <3>2. CASE lock # {}
      <4>1. PICK p \in lock : lock = {p}
        BY <3>2 DEF TypeInv, LockShape
      <4> QED BY <4>1, FS_Singleton
    <3> QED BY <3>1, <3>2
  <2>3. branch \in {"main", "other"} /\ dirty \subseteq Path
    BY DEF RefreshInv, CheckoutGood, Branch
  <2>4. \A p \in Process : job[p].pc \in Pc /\ job[p].touched \subseteq Path /\ job[p].result \in Result
    BY DEF RefreshInv, JobsGood, JobGood, TypeInv, JobTypes
  <2> QED BY <2>1, <2>2, <2>3, <2>4 DEF RefreshTypeOK, TypeInv, LockShape, Pc, Result
<1>2. Spec => []TypeInv
  BY TypeInvInit, TypeInvStep, RefreshInvariant, PTL DEF Spec
<1> QED BY <1>1, <1>2, RefreshInvariant, PTL
=============================================================================
