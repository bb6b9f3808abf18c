---------------------------- MODULE JobTreeProofs ----------------------------
(***************************************************************************)
(* The tree of ChildJobs implements that of JobTreeContract.               *)
(***************************************************************************)
EXTENDS ChildJobsProofs

-----------------------------------------------------------------------------
(* The tree only grows.                                                    *)

LEMMA JobsKeepTheirPlace ==
  ASSUME TypeOK, LocksOK, PendingOK, [Next]_vars, NEW j \in Jobs, Exists(j)
  PROVE  Exists(j)' /\ job'[j].parent = job[j].parent /\ job'[j].seed = job[j].seed
  <1>1. CASE \E w \in Workers : CommitPage(w)
    BY <1>1, CommitKeepsJobs
  <1>2. CASE \A w \in Workers : ~CommitPage(w)
    BY <1>2, OnlyCommitsAdd DEF Framed
  <1> QED
    BY <1>1, <1>2

LEMMA JobTreeGrows ==
  ASSUME TypeOK, LocksOK, PendingOK, [Next]_vars, NEW root
  PROVE  JobTree(root) \subseteq JobTree(root)'
  <1> SUFFICES ASSUME NEW j \in JobTree(root), NEW tree \in SUBSET Jobs, root \in tree,
                      \A c \in Jobs : Exists(c)' /\ job'[c].parent \in tree => c \in tree
               PROVE  j \in tree
    BY DEF JobTree, Exists
  <1>1. \A c \in Jobs : Exists(c) /\ job[c].parent \in tree => c \in tree
    BY JobsKeepTheirPlace
  <1> QED
    BY <1>1 DEF JobTree

-----------------------------------------------------------------------------
(* The rows of an open transaction.                                        *)

RowsMayGrow(w) ==
  /\ worker'[w].job = worker[w].job \/ worker[w].rows = {}
  /\ \A r \in worker'[w].rows \ worker[w].rows : r[1] = worker'[w].job \/ Spawns(r[2])

LEMMA LinksInsertRows ==
  ASSUME TypeOK, LocksOK, NEW w \in Workers, FollowLink(w) \/ JoinChild(w) \/ SpawnChild(w)
  PROVE  RowsMayGrow(w)
  <1> DEFINE p == Head(worker[w].left)
  <1>0. /\ Linking(w) /\ HoldsItsRow(w) /\ worker[w].left # <<>>
        /\ worker[w].job \in Jobs /\ worker \in [Workers -> WorkerState]
    BY DEF FollowLink, JoinChild, SpawnChild, LocksOK, HoldsItsRow, Linking, TypeOK
  <1>1. CASE FollowLink(w)
    <2>1. LocalRow(worker[w].job, p) \in SUBSET (Jobs \X Pages)
      BY <1>0, TreeAssumption DEF LocalRow
    <2>2. DoneWith(w, LocalRow(worker[w].job, p), NoJob)
      BY <1>0, <2>1, LinkDoneFields
    <2>3. worker'[w] = LinkDone(w, LocalRow(worker[w].job, p), NoJob)
      BY <1>0, <1>1 DEF FollowLink
    <2>4. \A r \in LocalRow(worker[w].job, p) : r[1] = worker[w].job
      BY DEF LocalRow
    <2> HIDE DEF p
    <2> QED
      BY <2>2, <2>3, <2>4 DEF DoneWith, RowsMayGrow
  <1>2. CASE JoinChild(w) \/ SpawnChild(w)
    <2>1. Spawns(p) /\ p \in Pages
      BY <1>2, TreeAssumption DEF JoinChild, SpawnChild, Spawns
    <2>2. PICK c \in Jobs : \/ worker'[w] = LinkDone(w, SeedRow(c, p), c)
                            \/ worker'[w] = [LinkDone(w, SeedRow(c, p), c)
                                               EXCEPT !.spawned = @ \cup {<<c, p>>}]
      BY <1>0, <1>2 DEF JoinChild, SpawnChild, ChildrenFound
    <2>3. SeedRow(c, p) = {<<c, p>>} /\ SeedRow(c, p) \in SUBSET (Jobs \X Pages)
      BY <2>1 DEF SeedRow
    <2>4. DoneWith(w, SeedRow(c, p), c)
      BY <1>0, <2>3, LinkDoneFields
    <2> HIDE DEF p
    <2> DEFINE done == LinkDone(w, SeedRow(c, p), c)
    <2>5. /\ done \in WorkerState /\ done.job = worker[w].job
          /\ done.rows = worker[w].rows \cup {<<c, p>>}
      BY <2>3, <2>4 DEF DoneWith
    <2>6. worker'[w] = done \/ worker'[w] = [done EXCEPT !.spawned = @ \cup {<<c, p>>}]
      BY <2>2
    <2> HIDE DEF done
    <2>7. worker'[w].job = worker[w].job /\ worker'[w].rows = worker[w].rows \cup {<<c, p>>}
      BY <2>5, <2>6 DEF WorkerState
    <2> QED
      BY <2>1, <2>7 DEF RowsMayGrow
  <1> QED
    BY <1>1, <1>2

LEMMA RowsOfTransactions ==
  ASSUME TypeOK, LocksOK, RowsHaveTheirJob, [Next]_vars
  PROVE  RowsHaveTheirJob'
  <1> SUFFICES ASSUME NEW w \in Workers PROVE RowsMayGrow(w) \/ worker'[w].rows = {}
    BY DEF RowsHaveTheirJob, RowsMayGrow, Spawns
  <1>0. worker \in [Workers -> WorkerState]
    BY DEF TypeOK
  <1>1. CASE worker'[w] = worker[w]
    BY <1>1 DEF RowsMayGrow
  <1>2. CASE FollowLink(w) \/ JoinChild(w) \/ SpawnChild(w)
    BY <1>2, LinksInsertRows
  <1>3. CASE \E j \in Jobs, p \in Pages : Claim(w, j, p)
    <2>1. worker'[w].rows = worker[w].rows
      BY <1>0, <1>3 DEF Claim, WorkerState
    <2> QED
      BY <1>3, <2>1 DEF Claim, LocksOK, HoldsItsRow, Linking
  <1>4. CASE LockJob(w) \/ LockKey(w)
    <2>1. \/ worker'[w] = [worker[w] EXCEPT !.pc = "linking", !.left = Links[worker[w].page]]
          \/ \E keys : worker'[w] = [worker[w] EXCEPT !.keys = keys]
      BY <1>0, <1>4 DEF LockJob, LockKey
    <2> QED
      BY <1>0, <2>1 DEF RowsMayGrow, WorkerState
  <1>5. CASE CommitPage(w) \/ GiveUp(w)
    BY <1>0, <1>5 DEF CommitPage, GiveUp, IdleWorker
  <1>6. ASSUME NEW v \in Workers \ {w}, Record(v) \/ \E j \in Jobs, p \in Pages : Claim(v, j, p)
        PROVE  worker'[w] = worker[w]
    BY <1>0, <1>6 DEF Record, LockJob, FollowLink, JoinChild, LockKey, SpawnChild, CommitPage,
                      GiveUp, Claim
  <1>7. CASE UNCHANGED worker
    BY <1>1, <1>7
  <1>8. UNCHANGED vars \/ (\E j \in Jobs : ReadTree(j)) \/ WriteJobs \/ CommitCancel
          \/ AbortCancel \/ Tick => UNCHANGED worker
    BY DEF vars, ReadTree, WriteJobs, CommitCancel, AbortCancel, Tick
  <1> QED
    BY <1>1, <1>2, <1>3, <1>4, <1>5, <1>6, <1>7, <1>8 DEF Next, Record

(* What the commit of a page does to a row. *)
RowOfCommit(w, j, p) ==
  \/ row'[j][p] = row[j][p]
  \/ /\ j = worker[w].job /\ p = worker[w].page
     /\ row[j][p] = "active" /\ row'[j][p] = "done"
  \/ /\ row[j][p] = "absent" /\ row'[j][p] = "queued"
     /\ j = worker[w].job \/ <<j, p>> \in worker[w].spawned

LEMMA CommitOfRows ==
  ASSUME IInv, RowsHaveTheirJob, NEW w \in Workers, CommitPage(w), NEW j \in Jobs, NEW p \in Pages
  PROVE  RowOfCommit(w, j, p)
  <1>1. CASE j = worker[w].job /\ p = worker[w].page
    <2>1. row[j][p] = "active"
      BY <1>1 DEF IInv, LocksOK, HoldsItsRow, CommitPage, Linking
    <2> QED
      BY <1>1, <2>1 DEF CommitPage, RowOfCommit
  <1>2. CASE <<j, p>> \in worker[w].rows /\ row[j][p] = "absent" /\ j # worker[w].job
    <2>1. Spawns(p)
      BY <1>2, Zenon DEF RowsHaveTheirJob
    <2>2. Exists(j) => job[j].seed = p
      BY <1>2, <2>1 DEF IInv, PendingOK, RowsFollowTheRules
    <2>3. ~Exists(j)
      BY <1>2, <2>2 DEF IInv, CommittedOK, JobsHaveTheirSeed
    <2>4. <<j, p>> \in worker[w].spawned
      BY <1>2, <2>3 DEF IInv, PendingOK, RowsFollowTheRules
    <2>5. row'[j][p] = "queued"
      BY <1>2 DEF CommitPage
    <2> QED
      BY <1>2, <2>4, <2>5 DEF RowOfCommit
  <1>3. CASE /\ ~(j = worker[w].job /\ p = worker[w].page)
             /\ j = worker[w].job \/ ~(<<j, p>> \in worker[w].rows /\ row[j][p] = "absent")
    BY <1>3 DEF CommitPage, RowOfCommit
  <1> QED
    BY <1>1, <1>2, <1>3

-----------------------------------------------------------------------------
(* The rest of the invariant.                                              *)

LEMMA DoneJobsStaySettled ==
  ASSUME IInv, RowsHaveTheirJob, DoneJobsAreSettled, [Next]_vars
  PROVE  DoneJobsAreSettled'
  <1> DEFINE Final(status) == status \in {"completed", "canceled"}
             AtRest(status) == status \in Settled \cup {"absent"}
  <1> SUFFICES ASSUME NEW j \in Jobs, Final(job'[j].status), NEW p \in Pages
               PROVE  AtRest(row'[j][p])
    BY DEF DoneJobsAreSettled
  <1>0. Final(job[j].status) => AtRest(row[j][p])
    BY DEF DoneJobsAreSettled
  <1>1. /\ row \in [Jobs -> [Pages -> RowStatuses]] /\ job[j] \in Job
        /\ AtRest(row[j][p]) => row[j][p] \notin {"queued", "active"}
    BY DEF IInv, TypeOK, Settled
  <1>2. CASE UNCHANGED <<job, row>>
    BY <1>0, <1>2
  <1>3. ASSUME NEW w \in Workers, NEW k \in Jobs, NEW q \in Pages, Claim(w, k, q)
        PROVE  AtRest(row'[j][p])
    <2>1. job' = job /\ j # k
      BY <1>3 DEF Claim, Running
    <2> QED
      BY <1>0, <1>1, <1>3, <2>1 DEF Claim
  <1>4. ASSUME NEW w \in Workers, CommitPage(w)
        PROVE  AtRest(row'[j][p])
    <2>1. ~Born(w, j) /\ job'[j] = job[j]
      <3>1. ASSUME NEW q \in Pages, <<j, q>> \in worker[w].spawned PROVE FALSE
        <4>1. job'[j] = BornJob(w, q)
          BY <1>4, <3>1, JobsOfCommit DEF IInv
        <4> QED
          BY <4>1 DEF BornJob
      <3>2. ~Born(w, j)
        BY <3>1 DEF Born
      <3> QED
        BY <1>4, <3>2, JobsOfCommit DEF IInv
    <2>2. worker[w].job # j
      BY <1>4, <2>1 DEF IInv, LocksOK, HoldsItsRow, CommitPage, Running
    <2>3. RowOfCommit(w, j, p)
      BY <1>4, CommitOfRows
    <2> QED
      BY <1>0, <2>1, <2>2, <2>3 DEF RowOfCommit, Born
  <1>5. ASSUME NEW w \in Workers, GiveUp(w)
        PROVE  AtRest(row'[j][p])
    <2>1. /\ worker[w].job \in Jobs /\ worker[w].page \in Pages
          /\ row[worker[w].job][worker[w].page] = "active"
      BY <1>5 DEF GiveUp, IInv, LocksOK, HoldsItsRow
    <2>2. job' = job /\ worker[w].job # j
      BY <1>5, <2>1 DEF GiveUp, DoneJobsAreSettled, Settled
    <2> QED
      BY <1>0, <1>1, <1>5, <2>1, <2>2 DEF GiveUp
  <1>6. CASE CommitCancel
    <2>1. Final(job[j].status)
      BY <1>1, <1>6 DEF CommitCancel, Job
    <2> QED
      BY <1>0, <1>1, <1>6, <2>1 DEF CommitCancel, WaitingCanceled
  <1>7. CASE Tick
    <2>1. CASE AtRest(row[j][p])
      BY <1>1, <1>7, <2>1 DEF Tick, WaitingCanceled
    <2>2. CASE ~AtRest(row[j][p])
      BY <1>0, <1>7, <2>2 DEF Tick
    <2> QED
      BY <2>1, <2>2
  <1> HIDE DEF Final, AtRest
  <1>8. CASE \E w \in Workers : LockJob(w) \/ FollowLink(w) \/ JoinChild(w) \/ LockKey(w) \/ SpawnChild(w)
    BY <1>2, <1>8 DEF LockJob, FollowLink, JoinChild, LockKey, SpawnChild
  <1>9. CASE (\E k \in Jobs : ReadTree(k)) \/ WriteJobs \/ AbortCancel \/ UNCHANGED vars
    BY <1>2, <1>9 DEF ReadTree, WriteJobs, AbortCancel, vars
  <1> QED
    BY <1>3, <1>4, <1>5, <1>6, <1>7, <1>8, <1>9 DEF Next, Record

(* A child born after the snapshot is missed by it, never the reverse. *)
LEMMA SnapshotStaysBelow ==
  ASSUME IInv, SnapshotIsBelow, [Next]_vars
  PROVE  SnapshotIsBelow'
  <1>0. cancel \in Cancel
    BY DEF IInv, TypeOK
  <1>1. CASE cancel' = cancel \/ WriteJobs
    <2>1. /\ cancel'.root = cancel.root /\ cancel'.tree = cancel.tree
          /\ cancel'.pc = "idle" <=> cancel.pc = "idle"
      BY <1>0, <1>1 DEF WriteJobs, Cancel
    <2>2. CASE cancel.pc = "idle"
      BY <2>1, <2>2 DEF SnapshotIsBelow
    <2>3. CASE cancel.pc # "idle"
      <3>1. PICK root \in Jobs : /\ root = cancel.root /\ Exists(root)
                                 /\ cancel.tree \subseteq JobTree(root)
        BY <2>3 DEF SnapshotIsBelow
      <3>2. Exists(root)' /\ JobTree(root) \subseteq JobTree(root)'
        BY <3>1, JobsKeepTheirPlace, JobTreeGrows DEF IInv
      <3>3. JobTree(root)' = JobTree(cancel.root)'
        BY <2>1, <3>1 DEF JobTree, Exists
      <3> QED
        BY <2>1, <2>3, <3>1, <3>2, <3>3 DEF SnapshotIsBelow, Exists
    <2> QED
      BY <2>2, <2>3
  <1>2. ASSUME NEW k \in Jobs, ReadTree(k) PROVE SnapshotIsBelow'
    BY <1>2 DEF ReadTree, SnapshotIsBelow, JobTree, Exists
  <1>3. CASE CommitCancel \/ AbortCancel
    BY <1>3 DEF CommitCancel, AbortCancel, NoCancel, SnapshotIsBelow
  <1>4. CASE UNCHANGED vars \/ Tick \/ (\E w \in Workers : Record(w))
             \/ \E w \in Workers, k \in Jobs, p \in Pages : Claim(w, k, p)
    BY <1>1, <1>4 DEF vars, Tick, Record, LockJob, FollowLink, JoinChild, LockKey, SpawnChild,
                      CommitPage, GiveUp, Claim
  <1> QED
    BY <1>1, <1>2, <1>3, <1>4 DEF Next

LEMMA TreeInvAtStart == Init => TreeInv
  BY InvariantAtStart
     DEF Init, TreeInv, RowsHaveTheirJob, DoneJobsAreSettled, SnapshotIsBelow, IdleWorker, NoCancel

LEMMA TreeInvKept == TreeInv /\ [Next]_vars => TreeInv'
  BY InvariantKept, RowsOfTransactions, DoneJobsStaySettled, SnapshotStaysBelow DEF TreeInv, IInv

(* Besides IInv, in every reachable state: a completed or canceled job has nothing
   to do, and a cancel's snapshot holds no job that is not below its root. *)
THEOREM TreeInvHolds == Spec => []TreeInv
  BY TreeInvAtStart, TreeInvKept, PTL DEF Spec

-----------------------------------------------------------------------------
(* The changes of a job and of its rows that its operator can see.         *)

(* A cancel of the tree that the job is in commits. *)
Covers(j) == cancel.root # NoJob /\ cancel'.root = NoJob /\ j \in JobTree(cancel.root)

(* A page of the job is recorded. *)
Recorded(j) ==
  /\ job[j].status = "running" /\ job'[j].status = "running"
  /\ \E p \in Pages : row[j][p] = "active" /\ row'[j][p] = "done"

Begins(j) ==
  /\ ~Exists(j) /\ Running(j)'
  /\ job'[j].parent \in Jobs /\ Recorded(job'[j].parent)
  /\ \A p \in Pages : row'[j][p] = IF p = job'[j].seed THEN "queued" ELSE "absent"
  /\ \A c \in Jobs \ {j} :
       Exists(c)' /\ job'[c].parent = job'[j].parent => job'[c].seed # job'[j].seed

AtRestAfter(j) == \A p \in Pages : row'[j][p] \in Settled \cup {"absent"}

StatusChange(j, from, to) ==
  /\ job[j].status = from /\ job'[j].status = to
  /\ job'[j].parent = job[j].parent /\ job'[j].seed = job[j].seed

JobChange(j) ==
  \/ job'[j] = job[j]
  \/ Begins(j)
  \/ StatusChange(j, "running", "canceling") /\ Covers(j)
  \/ StatusChange(j, "canceling", "canceled") /\ AtRestAfter(j)
  \/ StatusChange(j, "running", "completed") /\ AtRestAfter(j)

RowMoves(j, p, from, to) == row[j][p] = from /\ row'[j][p] = to

RowChange(j, p) ==
  \/ row'[j][p] = row[j][p]
  \/ RowMoves(j, p, "queued", "active") \/ RowMoves(j, p, "active", "queued")
  \/ RowMoves(j, p, "absent", "queued") /\ (Begins(j) \/ Recorded(j))
  \/ RowMoves(j, p, "active", "done") /\ Recorded(j)
  \/ RowMoves(j, p, "active", "failed") /\ job[j].status \in {"running", "canceling"}
  \/ /\ RowMoves(j, p, "queued", "canceled")
     /\ \/ job[j].status = "canceling"
        \/ job[j].status = "running" /\ Covers(j)

(* A job with an open row is neither absent nor finished. *)
LEMMA OpenRowsHaveOpenJobs ==
  ASSUME TreeInv, NEW j \in Jobs, NEW p \in Pages, row[j][p] \in {"queued", "active"}
  PROVE  job[j].status \in {"running", "canceling"}
  <1>1. job[j] \in Job
    BY DEF TreeInv, IInv, TypeOK
  <1>2. Exists(j)
    BY DEF TreeInv, IInv, CommittedOK, TreeOK
  <1>3. job[j].status \notin {"completed", "canceled"}
    BY DEF TreeInv, DoneJobsAreSettled, Settled
  <1> QED
    BY <1>1, <1>2, <1>3 DEF Exists, Job

LEMMA ClaimAndGiveUpChange ==
  ASSUME TreeInv, NEW w \in Workers, GiveUp(w) \/ \E k \in Jobs, q \in Pages : Claim(w, k, q),
         NEW j \in Jobs, NEW p \in Pages
  PROVE  JobChange(j) /\ RowChange(j, p)
  <1>0. row \in [Jobs -> [Pages -> RowStatuses]]
    BY DEF TreeInv, IInv, TypeOK
  <1>1. JobChange(j)
    BY DEF GiveUp, Claim, JobChange
  <1>2. CASE GiveUp(w)
    <2>1. /\ worker[w].job \in Jobs /\ worker[w].page \in Pages
          /\ row[worker[w].job][worker[w].page] = "active"
      BY <1>2 DEF GiveUp, TreeInv, IInv, LocksOK, HoldsItsRow
    <2>2. row'[j][p] = row[j][p] \/ (row[j][p] = "active" /\ row'[j][p] \in {"queued", "failed"})
      BY <1>0, <1>2, <2>1 DEF GiveUp
    <2>3. row[j][p] = "active" => job[j].status \in {"running", "canceling"}
      BY OpenRowsHaveOpenJobs
    <2> QED
      BY <1>1, <2>2, <2>3 DEF RowChange, RowMoves
  <1>3. ASSUME NEW k \in Jobs, NEW q \in Pages, Claim(w, k, q) PROVE RowChange(j, p)
    BY <1>0, <1>3 DEF Claim, RowChange, RowMoves
  <1> QED
    BY <1>1, <1>2, <1>3

LEMMA CommitPageRecords ==
  ASSUME TreeInv, NEW w \in Workers, CommitPage(w)
  PROVE  Recorded(worker[w].job)
  <1>1. /\ worker[w].job \in Jobs /\ worker[w].page \in Pages
        /\ row[worker[w].job][worker[w].page] = "active" /\ Running(worker[w].job)
    BY DEF CommitPage, Linking, TreeInv, IInv, LocksOK, HoldsItsRow
  <1>2. row'[worker[w].job][worker[w].page] = "done"
    BY <1>1 DEF CommitPage
  <1>3. job'[worker[w].job] = job[worker[w].job]
    BY <1>1, CommitKeepsJobs DEF TreeInv, IInv, Running, Exists
  <1> QED
    BY <1>1, <1>2, <1>3 DEF Recorded, Running

LEMMA ChildrenBegin ==
  ASSUME TreeInv, TreeInv', NEW w \in Workers, CommitPage(w),
         NEW j \in Jobs, NEW seed \in Pages, <<j, seed>> \in worker[w].spawned
  PROVE  Begins(j)
  <1>1. TypeOK /\ LocksOK /\ PendingOK /\ CommittedOK /\ ChildJobsUnique'
    BY DEF TreeInv, IInv, CommittedOK
  <1>2. ~Exists(j) /\ Exists(j)' /\ job'[j] = BornJob(w, seed) /\ worker[w].job \in Jobs
        /\ Exists(worker[w].job)
    BY <1>1, JobsOfCommit
  <1>3. Running(j)' /\ job'[j].parent = worker[w].job /\ job'[j].seed = seed
    BY <1>2 DEF BornJob, Running
  <1>4. \A c \in Jobs \ {j} :
          Exists(c)' /\ job'[c].parent = job'[j].parent => job'[c].seed # job'[j].seed
    BY <1>1, <1>2 DEF ChildJobsUnique, Exists
  <1>5. ASSUME NEW p \in Pages
        PROVE  row'[j][p] = IF p = seed THEN "queued" ELSE "absent"
    <2>1. row[j][p] = "absent" /\ j # worker[w].job
      BY <1>1, <1>2 DEF CommittedOK, TreeOK
    <2>2. <<j, p>> \in worker[w].rows <=> <<j, p>> \in worker[w].spawned
      BY <1>1, <1>2 DEF PendingOK, RowsFollowTheRules, ChildrenAreNew
    <2>3. <<j, p>> \in worker[w].spawned <=> p = seed
      <3>1. ASSUME <<j, p>> \in worker[w].spawned PROVE p = seed
        <4>1. <<j, p>>[1] = <<j, seed>>[1] <=> <<j, p>>[2] = <<j, seed>>[2]
          BY <1>1, <3>1, Zenon DEF PendingOK, ChildrenAreNew
        <4> QED
          BY <4>1
      <3> QED
        BY <3>1
    <2> QED
      BY <2>1, <2>2, <2>3 DEF CommitPage
  <1> QED
    BY <1>2, <1>3, <1>4, <1>5, CommitPageRecords DEF Begins

LEMMA CommitPageChanges ==
  ASSUME TreeInv, TreeInv', NEW w \in Workers, CommitPage(w), NEW j \in Jobs, NEW p \in Pages
  PROVE  JobChange(j) /\ RowChange(j, p)
  <1>1. JobChange(j)
    <2>1. CASE Born(w, j)
      BY <2>1, ChildrenBegin DEF Born, JobChange
    <2>2. CASE ~Born(w, j)
      BY <2>2, JobsOfCommit DEF JobChange, TreeInv, IInv
    <2> QED
      BY <2>1, <2>2
  <1>2. RowOfCommit(w, j, p)
    BY CommitOfRows DEF TreeInv
  <1>3. <<j, p>> \in worker[w].spawned => Begins(j)
    BY ChildrenBegin
  <1>4. RowChange(j, p)
    BY <1>2, <1>3, CommitPageRecords DEF RowOfCommit, RowChange, RowMoves
  <1> QED
    BY <1>1, <1>4

LEMMA CommitCancelChanges ==
  ASSUME TreeInv, CommitCancel, NEW j \in Jobs, NEW p \in Pages
  PROVE  JobChange(j) /\ RowChange(j, p)
  <1>1. /\ cancel.root \in Jobs /\ cancel.root # NoJob /\ cancel'.root = NoJob
        /\ cancel.tree \subseteq JobTree(cancel.root)
    BY TreeAssumption DEF CommitCancel, TreeInv, SnapshotIsBelow, NoCancel
  <1>2. JobChange(j)
    <2>1. CASE j \in cancel.tree /\ Running(j)
      <3>1. job[j] \in Job
        BY DEF TreeInv, IInv, TypeOK
      <3>2. job'[j] = [job[j] EXCEPT !.status = "canceling"]
        BY <2>1 DEF CommitCancel
      <3>3. StatusChange(j, "running", "canceling")
        BY <2>1, <3>1, <3>2 DEF StatusChange, Running, Job
      <3> QED
        BY <1>1, <2>1, <3>3 DEF JobChange, Covers
    <2>2. CASE ~(j \in cancel.tree /\ Running(j))
      BY <2>2 DEF CommitCancel, JobChange
    <2> QED
      BY <2>1, <2>2
  <1>3. RowChange(j, p)
    <2>1. CASE j \in JobTree(cancel.root) /\ row[j][p] = "queued"
      <3>1. row'[j][p] = "canceled"
        BY <2>1 DEF CommitCancel, WaitingCanceled
      <3> QED
        BY <1>1, <2>1, <3>1, OpenRowsHaveOpenJobs DEF RowChange, RowMoves, Covers
    <2>2. CASE ~(j \in JobTree(cancel.root) /\ row[j][p] = "queued")
      BY <2>2 DEF CommitCancel, WaitingCanceled, RowChange
    <2> QED
      BY <2>1, <2>2
  <1> QED
    BY <1>2, <1>3

LEMMA TickChanges ==
  ASSUME TreeInv, Tick, NEW j \in Jobs, NEW p \in Pages
  PROVE  JobChange(j) /\ RowChange(j, p)
  <1>1. JobChange(j)
    <2>0. job[j] \in Job
      BY DEF TreeInv, IInv, TypeOK
    <2>1. \/ job'[j] = job[j]
          \/ /\ AtRestAfter(j)
             /\ \/ /\ job[j].status = "canceling"
                   /\ job'[j] = [job[j] EXCEPT !.status = "canceled"]
                \/ Running(j) /\ job'[j] = [job[j] EXCEPT !.status = "completed"]
      BY DEF Tick, AtRestAfter
    <2> QED
      BY <2>0, <2>1 DEF JobChange, StatusChange, Running, Job
  <1>2. RowChange(j, p)
    BY DEF Tick, WaitingCanceled, RowChange, RowMoves
  <1> QED
    BY <1>1, <1>2

LEMMA EveryStepChanges ==
  ASSUME TreeInv, TreeInv', [Next]_vars, NEW j \in Jobs, NEW p \in Pages
  PROVE  JobChange(j) /\ RowChange(j, p)
  <1>1. CASE UNCHANGED <<job, row>>
    BY <1>1 DEF JobChange, RowChange
  <1>2. CASE \/ UNCHANGED vars \/ (\E k \in Jobs : ReadTree(k)) \/ WriteJobs \/ AbortCancel
             \/ \E w \in Workers : \/ LockJob(w) \/ FollowLink(w) \/ JoinChild(w)
                                   \/ LockKey(w) \/ SpawnChild(w)
    BY <1>1, <1>2 DEF vars, ReadTree, WriteJobs, AbortCancel, LockJob, FollowLink, JoinChild,
                      LockKey, SpawnChild
  <1> QED
    BY <1>2, ClaimAndGiveUpChange, CommitPageChanges, CommitCancelChanges, TickChanges
       DEF Next, Record

-----------------------------------------------------------------------------
(* The contract.                                                           *)

Status == [j \in Jobs |-> job[j].status]
Parent == [j \in Jobs |-> job[j].parent]
Seed == [j \in Jobs |-> job[j].seed]
Outcome == [j \in Jobs |-> [p \in Pages |-> OutcomeOf(row[j][p])]]

LEMMA InitKeepsTree == Init => Contract!Init
  BY TreeAssumption DEF Init, Contract!Init, OutcomeOf, NoCancel

LEMMA BelowIsJobTree == ASSUME NEW root PROVE Contract!Below(root) = JobTree(root)
  <1>1. \A c \in Jobs : Status[c] # "absent" <=> Exists(c)
    BY DEF Status, Exists
  <1>2. \A c \in Jobs : Parent[c] = job[c].parent
    BY DEF Parent
  <1> QED
    BY <1>1, <1>2, Zenon DEF Contract!Below, JobTree, Status, Parent, Exists

LEMMA RequestsKeepContract ==
  ASSUME TreeInv, [Next]_vars
  PROVE  Contract!RequestStep
  <1>1. CASE cancel'.root = cancel.root
    BY <1>1 DEF Contract!RequestStep
  <1>2. ASSUME NEW j \in Jobs, ReadTree(j) PROVE Contract!RequestStep
    <2>1. cancel.root = NoJob /\ cancel'.root = j /\ Exists(j)
      BY <1>2 DEF ReadTree, TreeInv, SnapshotIsBelow
    <2> QED
      BY <2>1 DEF Contract!RequestStep, Exists
  <1>3. CASE CommitCancel \/ AbortCancel
    BY <1>3 DEF CommitCancel, AbortCancel, NoCancel, Contract!RequestStep
  <1>4. CASE WriteJobs
    BY <1>1, <1>4 DEF WriteJobs, TreeInv, IInv, TypeOK, Cancel
  <1>5. CASE UNCHANGED vars \/ Tick \/ (\E w \in Workers : Record(w))
             \/ \E w \in Workers, k \in Jobs, p \in Pages : Claim(w, k, p)
    BY <1>1, <1>5 DEF vars, Tick, Record, LockJob, FollowLink, JoinChild, LockKey, SpawnChild,
                      CommitPage, GiveUp, Claim
  <1> QED
    BY <1>2, <1>3, <1>4, <1>5 DEF Next

(* The contract's conditions on a job, for the state they are read from. *)
LEMMA ConditionsKeepContract ==
  ASSUME TreeInv, NEW j \in Jobs
  PROVE  /\ Covers(j) => Contract!Covered(j)
         /\ Recorded(j) => Contract!PageDone(j)
         /\ Begins(j) => Contract!Spawned(j)
         /\ AtRestAfter(j) => Contract!SettledAfter(j)
  <1>1. Covers(j) => Contract!Covered(j)
    BY BelowIsJobTree DEF Covers, Contract!Covered
  <1>2. ASSUME NEW k \in Jobs, Recorded(k) PROVE Contract!PageDone(k)
    BY <1>2 DEF Recorded, Contract!PageDone, OutcomeOf
  <1>3. Begins(j) => Contract!Spawned(j)
    <2> SUFFICES ASSUME Begins(j) PROVE Contract!Spawned(j)
      OBVIOUS
    <2>1. PICK k \in Jobs : k = job'[j].parent /\ Recorded(k)
      BY DEF Begins
    <2>2. Contract!PageDone(k)
      BY <1>2, <2>1
    <2>3. Parent'[j] = k
      BY <2>1 DEF Parent
    <2>4. Status[j] = "absent" /\ Status'[j] = "running"
      BY DEF Begins, Exists, Running, Status
    <2>5. \A p \in Pages : Outcome'[j][p] = IF p = Seed'[j] THEN "open" ELSE "absent"
      BY DEF Begins, Outcome, Seed, OutcomeOf
    <2>6. \A c \in Jobs \ {j} :
            Status'[c] # "absent" /\ Parent'[c] = Parent'[j] => Seed'[c] # Seed'[j]
      BY DEF Begins, Exists, Status, Parent, Seed
    <2>7. Parent'[j] \in Jobs /\ Contract!PageDone(Parent'[j])
      BY <2>2, <2>3 DEF Contract!PageDone
    <2> QED
      BY <2>4, <2>5, <2>6, <2>7 DEF Contract!Spawned, Status, Parent, Seed, Outcome
  <1>4. AtRestAfter(j) => Contract!SettledAfter(j)
    BY DEF AtRestAfter, Contract!SettledAfter, OutcomeOf, Settled
  <1> QED
    BY <1>1, <1>2, <1>3, <1>4

LEMMA ChangesKeepContract ==
  ASSUME TreeInv, NEW j \in Jobs, NEW p \in Pages, JobChange(j), RowChange(j, p)
  PROVE  Contract!JobStep(j) /\ Contract!RowStep(j, p)
  <1>1. Contract!JobStep(j)
    BY ConditionsKeepContract DEF JobChange, StatusChange, Contract!JobStep, Contract!JobMoves
  <1>2. Contract!RowStep(j, p)
    BY ConditionsKeepContract
       DEF RowChange, RowMoves, OutcomeOf, Contract!RowStep, Contract!Settles
  <1> QED
    BY <1>1, <1>2

(* Workers, cancels and ticks together implement the tree of JobTreeContract:
   every step of theirs is a step of it, or changes nothing it speaks of. *)
THEOREM TreeKeepsContract == Spec => KeepsContract
  <1>1. TreeInv /\ TreeInv' /\ [Next]_vars => Contract!Next
    <2> SUFFICES ASSUME TreeInv, TreeInv', [Next]_vars,
                        NEW j \in Jobs
                 PROVE  Contract!JobStep(j) /\ \A p \in Pages : Contract!RowStep(j, p)
      BY RequestsKeepContract DEF Contract!Next
    <2>1. \A p \in Pages : Contract!JobStep(j) /\ Contract!RowStep(j, p)
      BY EveryStepChanges, ChangesKeepContract
    <2> QED
      BY <2>1, TreeAssumption
  <1> QED
    BY <1>1, InitKeepsTree, TreeInvHolds, PTL DEF Spec, KeepsContract, Contract!Spec
=============================================================================
