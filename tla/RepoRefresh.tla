----------------------------- MODULE RepoRefresh -----------------------------
(***************************************************************************)
(* refreshRepository of refresh.mjs: writes the README index of a          *)
(* repository in an isolated clone and publishes it as a bot commit on     *)
(* main.  Several refreshes of one repository may run (a timer, a person   *)
(* with --repo), people keep working in the checkout, other clones push to *)
(* the remote, processes crash and the lock helper may die.                *)
(*                                                                         *)
(* A revision is the sequence of commits up to it.  A commit is its author,*)
(* the paths it touches (the index, or the sources) and an id.             *)
(* requireMainAndClean is one step; git commands are steps of their own.   *)
(* Left out: removing the temporary clone fails at the end.  The lock is   *)
(* then kept by a process that does not exit, until it is killed, by the   *)
(* service at the latest when it times out: a Crash that takes longer.     *)
(***************************************************************************)
EXTENDS Naturals, Sequences, SequencesExt, FiniteSetsExt

CONSTANTS
    Process,        \* refreshes of the repository
    MaxChanges,     \* bound: commits of people, here and elsewhere
    MaxEdits,       \* bound: edits and branch switches in the checkout
    MaxFaults       \* bound: crashes and failing commands

ASSUME RefreshAssumption ==
    IsFiniteSet(Process) /\ MaxChanges \in Nat /\ MaxEdits \in Nat /\ MaxFaults \in Nat

VARIABLES
    heads, branch, dirty,   \* the checkout: branch tips, the one checked out, edited paths
    remote,                 \* main of origin
    lock,                   \* set of processes whose lock helper holds the flock
    job,                    \* process -> the locals of its refreshRepository call
    changes, edits, faults

checkout == <<heads, branch, dirty>>
bounds == <<changes, edits, faults>>
vars == <<checkout, remote, lock, job, bounds>>

Path == {"README", "src"}
Main == heads["main"]
Head_ == heads[branch]
NoJob == [pc |-> "idle", source |-> <<>>, touched |-> {}, writer |-> <<>>, result |-> "none"]

Commits(h) == {h[i] : i \in DOMAIN h}
Known == UNION ({Commits(heads[b]) : b \in DOMAIN heads} \cup {Commits(remote)}
                \cup {Commits(job[p].source) \cup Commits(job[p].writer) : p \in Process})
NewId == Min((1..Cardinality(Known) + 1) \ {c.id : c \in Known})
NewCommit(by, paths) == [by |-> by, paths |-> paths, id |-> NewId]

\* A repository the bot has not seen, or one it has refreshed before.
Init ==
    /\ \E first \in {{"src"}, Path}, second \in {{}, {"README"}} :
          LET human == [by |-> "human", paths |-> first, id |-> 1]
              bot == [by |-> "bot", paths |-> second, id |-> 2]
              history == IF first = {"src"} /\ second = {} THEN <<human>> ELSE <<human, bot>>
          IN heads = [main |-> history, other |-> history] /\ remote = history
    /\ branch = "main" /\ dirty = {} /\ lock = {} /\ job = [p \in Process |-> NoJob]
    /\ changes = 0 /\ edits = 0 /\ faults = 0

Fault == faults < MaxFaults /\ faults' = faults + 1

----------------------------------------------------------------------------
(* People                                                                  *)

Editing == edits < MaxEdits /\ edits' = edits + 1
Changing == changes < MaxChanges /\ changes' = changes + 1

Edit(path) ==
    /\ Editing /\ path \notin dirty /\ dirty' = dirty \cup {path}
    /\ UNCHANGED <<heads, branch, remote, lock, job, changes, faults>>

Switch ==
    /\ Editing /\ dirty = {} /\ branch' = IF branch = "main" THEN "other" ELSE "main"
    /\ UNCHANGED <<heads, dirty, remote, lock, job, changes, faults>>

Commit ==
    /\ Changing /\ dirty # {}
    /\ heads' = [heads EXCEPT ![branch] = Append(@, NewCommit("human", dirty))] /\ dirty' = {}
    /\ UNCHANGED <<branch, remote, lock, job, edits, faults>>

Pull ==
    /\ dirty = {} /\ branch = "main" /\ IsStrictPrefix(Main, remote)
    /\ heads' = [heads EXCEPT !["main"] = remote]
    /\ UNCHANGED <<branch, dirty, remote, lock, job, bounds>>

OthersPush ==
    /\ Changing /\ remote' = Append(remote, NewCommit("human", {"src"}))
    /\ UNCHANGED <<checkout, lock, job, edits, faults>>

----------------------------------------------------------------------------
(* hasSourceCommitsSinceIndex                                              *)

LastIndex(h, P(_)) == Max({0} \cup {i \in DOMAIN h : P(h[i])})
LatestReadme(h) == LastIndex(h, LAMBDA c : "README" \in c.paths)

\* Mutant: only commits that touch the index are searched for the marker.
PathLimitedIndexCommit(h) ==
    LET marker == LastIndex(h, LAMBDA c : c.by = "bot" /\ "README" \in c.paths)
    IN IF marker = LatestReadme(h) THEN marker ELSE 0

\* Mutant: any marker of the bot blesses what people wrote after it.
AnyIndexCommit(h) == LastIndex(h, LAMBDA c : c.by = "bot")

\* latestIndexCommit: position of the commit up to which the index is known to
\* be written, 0 for null.
LatestIndexCommit(h) ==
    LET marker == LastIndex(h, LAMBDA c : c.by = "bot")
    IN IF marker # 0 /\ LatestReadme(h) # 0
          /\ (LatestReadme(h) = marker \/ (LatestReadme(h) < marker /\ h[marker].paths = {}))
       THEN marker ELSE 0

HasSourceCommitsSinceIndex(h) ==
    \/ LatestReadme(h) = 0
    \/ LatestIndexCommit(h) = 0
    \/ \E i \in LatestIndexCommit(h) + 1..Len(h) : h[i].paths \ {"README"} # {}

----------------------------------------------------------------------------
(* refreshRepository                                                       *)

Goto(p, pc) == job' = [job EXCEPT ![p].pc = pc]
Ends(p, result) == job' = [job EXCEPT ![p].pc = "finally", ![p].result = result]
Throws(p) == job' = [job EXCEPT ![p] = [NoJob EXCEPT !.pc = "finally", !.result = "failed"]]

\* requireMainAndClean with an expected revision
MainAndClean(revision) == branch = "main" /\ dirty = {} /\ Main = revision

Begin(p) ==
    /\ job[p].pc = "idle"
    /\ IF branch = "main" /\ dirty = {}
       THEN job' = [job EXCEPT ![p] = [NoJob EXCEPT !.pc = "lock", !.source = Main]]
       ELSE job' = job
    /\ UNCHANGED <<checkout, remote, lock, bounds>>

\* acquireLock
AcquireLock(p) ==
    /\ job[p].pc = "lock"
    /\ IF lock = {}
       THEN lock' = {p} /\ Goto(p, "recheck")
       ELSE lock' = lock /\ job' = [job EXCEPT ![p] = NoJob]
    /\ UNCHANGED <<checkout, remote, bounds>>

\* The checks after the lock, and the two before and after the fetch.
Check(p, from, to) ==
    /\ job[p].pc = from
    /\ IF MainAndClean(job[p].source) THEN Goto(p, to) ELSE Throws(p)
    /\ UNCHANGED <<checkout, remote, lock, bounds>>

Clone(p) ==
    /\ job[p].pc = "clone"
    /\ IF Main = job[p].source THEN Goto(p, "decide") ELSE Throws(p)
    /\ UNCHANGED <<checkout, remote, lock, bounds>>

Decide(p) ==
    /\ job[p].pc = "decide"
    /\ IF HasSourceCommitsSinceIndex(job[p].source) THEN Goto(p, "model") ELSE Ends(p, "up-to-date")
    /\ UNCHANGED <<checkout, remote, lock, bounds>>

\* requireIndexOnlyWorktree and requireReadableIndex for the paths the model touched
Acceptable(h, touched) == touched \subseteq {"README"} /\ (LatestReadme(h) # 0 \/ touched # {})

\* harvest and model pass; a result that will be refused counts as a fault.
ModelPass(p) ==
    /\ job[p].pc = "model"
    /\ \E touched \in SUBSET Path :
          /\ IF Acceptable(job[p].source, touched) THEN UNCHANGED faults ELSE Fault
          /\ job' = [job EXCEPT ![p].pc = "validate", ![p].touched = touched]
    /\ UNCHANGED <<checkout, remote, lock, changes, edits>>

\* commitIndex: the commit is empty when the model left the index as it was.
ValidateAndCommit(p) ==
    /\ job[p].pc = "validate"
    /\ IF Acceptable(job[p].source, job[p].touched)
       THEN job' = [job EXCEPT ![p].pc = "precheck", ![p].touched = {},
                        ![p].writer = Append(job[p].source, NewCommit("bot", job[p].touched))]
       ELSE Throws(p)
    /\ UNCHANGED <<checkout, remote, lock, bounds>>

Fetch(p) ==
    /\ job[p].pc = "fetch" /\ Goto(p, "check")
    /\ UNCHANGED <<checkout, remote, lock, bounds>>

\* git merge --ff-only acts on whatever is checked out.
Merge(p) ==
    /\ job[p].pc = "merge"
    /\ IF IsPrefix(Head_, job[p].writer) /\ dirty \cap Last(job[p].writer).paths = {}
       THEN heads' = [heads EXCEPT ![branch] = job[p].writer] /\ Goto(p, "push")
       ELSE heads' = heads /\ Throws(p)
    /\ UNCHANGED <<branch, dirty, remote, lock, bounds>>

\* git push origin main
Push(p) ==
    /\ job[p].pc = "push"
    /\ IF IsPrefix(remote, Main)
       THEN remote' = Main /\ Ends(p, "published")
       ELSE remote' = remote /\ Goto(p, "inspect")
    /\ UNCHANGED <<checkout, lock, bounds>>

\* The push reports an error; the remote may have taken the commits.
PushFails(p) ==
    /\ job[p].pc = "push" /\ Fault
    /\ Goto(p, "inspect")
    /\ remote' \in {remote} \cup {h \in {Main} : IsPrefix(remote, h)}
    /\ UNCHANGED <<checkout, lock, changes, edits>>

Inspect(p) ==
    /\ job[p].pc = "inspect"
    /\ IF Head_ = job[p].writer /\ dirty = {} THEN Goto(p, "reset") ELSE Throws(p)
    /\ UNCHANGED <<checkout, remote, lock, bounds>>

\* git reset --hard
Reset(p) ==
    /\ job[p].pc = "reset"
    /\ heads' = [heads EXCEPT ![branch] = job[p].source] /\ dirty' = {} /\ Throws(p)
    /\ UNCHANGED <<branch, remote, lock, bounds>>

\* A command between the lock and the merge, or the reset, fails.
CommandFails(p) ==
    /\ job[p].pc \in {"recheck", "clone", "decide", "model", "validate", "precheck", "fetch", "check",
                      "merge", "reset"}
    /\ Fault /\ Throws(p)
    /\ UNCHANGED <<checkout, remote, lock, changes, edits>>

\* Mutant: the lock is released only by a refresh that did not throw.
FinallyIfReturned(p) ==
    /\ job[p].pc = "finally"
    /\ lock' = (IF job[p].result = "failed" THEN lock ELSE lock \ {p})
    /\ job' = [job EXCEPT ![p] = NoJob]
    /\ UNCHANGED <<checkout, remote, bounds>>

\* The finally block; the next tick starts from the beginning.
Finally(p) ==
    /\ job[p].pc = "finally"
    /\ lock' = lock \ {p} /\ job' = [job EXCEPT ![p] = NoJob]
    /\ UNCHANGED <<checkout, remote, bounds>>

\* The helper that holds the flock ends with its process.
Crash(p) ==
    /\ job[p].pc # "idle" /\ Fault
    /\ lock' = lock \ {p} /\ job' = [job EXCEPT ![p] = NoJob]
    /\ UNCHANGED <<checkout, remote, changes, edits>>

LockHelperDies(p) ==
    /\ p \in lock /\ Fault
    /\ lock' = lock \ {p}
    /\ UNCHANGED <<checkout, remote, job, changes, edits>>

----------------------------------------------------------------------------

Step(p) ==
    \/ Begin(p) \/ AcquireLock(p) \/ Clone(p) \/ Decide(p) \/ ModelPass(p) \/ ValidateAndCommit(p)
    \/ Check(p, "recheck", "clone") \/ Check(p, "precheck", "fetch") \/ Check(p, "check", "merge")
    \/ Fetch(p) \/ Merge(p) \/ Push(p) \/ Inspect(p) \/ Reset(p) \/ Finally(p)

Next ==
    \/ \E path \in Path : Edit(path)
    \/ Switch \/ Commit \/ Pull \/ OthersPush
    \/ \E p \in Process :
          Step(p) \/ PushFails(p) \/ CommandFails(p) \/ Crash(p) \/ LockHelperDies(p)

Spec == Init /\ [][Next]_vars

\* The timer ticks and commands end.
LiveSpec == Spec /\ \A p \in Process : WF_vars(Step(p))

----------------------------------------------------------------------------
(* Properties                                                              *)

IsHistory(h) ==
    h \in Seq([by : {"human", "bot"}, paths : SUBSET Path, id : Nat]) /\ Cardinality(Commits(h)) = Len(h)

\* Types of the repository's and the refreshes' state; no commit appears twice
\* in a history, and only a refresh that runs holds the lock.
RefreshTypeOK ==
    /\ \A b \in {"main", "other"} : IsHistory(heads[b])
    /\ branch \in {"main", "other"} /\ dirty \subseteq Path /\ IsHistory(remote)
    /\ lock \subseteq Process /\ Cardinality(lock) <= 1
    /\ \A p \in lock : job[p].pc \notin {"idle", "lock"}
    /\ \A p \in Process :
          /\ job[p].pc \in {"idle", "lock", "recheck", "clone", "decide", "model", "validate", "precheck",
                            "fetch", "check", "merge", "push", "inspect", "reset", "finally"}
          /\ job[p].touched \subseteq Path
          /\ job[p].result \in {"none", "failed", "up-to-date", "published"}

\* The index of a history is fresh when the bot wrote it last, or left it as it
\* was, and nothing but the index could have changed since.
Fresh(h) == h # <<>> /\ Last(h).by = "bot"

\* A refresh that returns "up-to-date" read a main on which the model had seen
\* every source commit and nobody had rewritten the index since.
UpToDateIsFresh == \A p \in Process : job[p].result = "up-to-date" => Fresh(job[p].source)

\* No bot commit follows another, on any branch or at the remote: no index and no
\* marker is published on top of one, whatever two refreshes, crashes and a lost
\* lock do.  The model may run twice for a revision, if the first result was rolled
\* back or lost to another refresh.
NoRedundantRefresh ==
    \A h \in {heads["main"], heads["other"], remote} :
        \A i \in 2..Len(h) : h[i].by = "bot" => h[i - 1].by = "human"

Undisturbed == branch = "main" /\ dirty = {} /\ IsPrefix(remote, Main)

\* When people leave the checkout alone, on a clean main that is not behind the
\* remote, the index of main becomes and stays fresh.
EventuallyFresh == <>[]Undisturbed => <>[]Fresh(Main)

HumanCommits == {c \in UNION {Commits(heads[b]) : b \in DOMAIN heads} : c.by = "human"}

\* "Move live main": a commit or an edit that a person makes during a refresh
\* is still there when the refresh gives up.
HumanWorkKept ==
    [][/\ HumanCommits \subseteq HumanCommits'
       /\ dirty \subseteq dirty' \cup UNION {c.paths : c \in HumanCommits' \ HumanCommits}]_vars

\* "Refresh and mechanically publish": an index that is reported up to date has
\* been published, or nobody could have published it.
UpToDateIsPublished ==
    \A p \in Process :
        (job[p].pc = "finally" /\ job[p].result = "up-to-date" /\ IsPrefix(remote, job[p].source))
            => Last(job[p].source) \in Commits(remote)

\* A refresh that returns "published" has put its commit on main of origin.
PublishedIsThere ==
    \A p \in Process : (job[p].pc = "finally" /\ job[p].result = "published")
        => Last(job[p].writer) \in Commits(remote)
=============================================================================
