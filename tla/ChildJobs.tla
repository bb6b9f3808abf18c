------------------------------ MODULE ChildJobs ------------------------------
(***************************************************************************)
(* The tree of jobs.  A worker that records a page follows its links: a    *)
(* link of the job's own host becomes a row of the job, or, when a child   *)
(* rule matches it, the seed of a child job that inherits the rules.  A    *)
(* cancel covers the tree below its job, as its statements see the tree.   *)
(*                                                                         *)
(* The life of a row is that of CrawlLifecycle without leases and          *)
(* ownership: it waits, is active while a worker has it, and is settled    *)
(* or given back.  The transaction that records a page is taken apart      *)
(* here, because it holds its job's row locked while cancels read the tree.*)
(***************************************************************************)
EXTENDS Integers, Sequences, FiniteSets

CONSTANTS
  Jobs,        \* ids of crawl_jobs; bound: no more jobs than these are spawned
  Root,        \* the job the API created
  Pages,       \* normalized URLs
  RootSeed,    \* its seed URL
  SameHost,    \* the pages of the seed's host, which every job of the tree shares
  Matching,    \* the pages that a child rule matches
  Links,       \* the links of a page, in the order of its anchors
  Workers,
  NoJob,       \* parent_job_id or spawned_child_job_id IS NULL
  NoPage,      \* no page
  MaxCancels   \* bound: cancel requests

ASSUME TreeAssumption ==
  /\ Root \in Jobs /\ NoJob \notin Jobs
  /\ RootSeed \in SameHost /\ NoPage \notin Pages
  /\ SameHost \subseteq Pages /\ Matching \subseteq Pages
  /\ Links \in [Pages -> Seq(Pages)]
  /\ MaxCancels \in Nat

VARIABLES
  job,          \* job[j]: status, parent_job_id and seed_url of the row of crawl_jobs
  row,          \* row[j][p]: the row of crawl_urls of page p in job j
  discoveries,  \* the rows of discovered_links
  worker,       \* worker[w]: the row it has, and its open transaction
  cancel,       \* the cancel request in flight, at most one
  canceled      \* cancel requests so far

vars == <<job, row, discoveries, worker, cancel, canceled>>

RowStatuses == {"absent", "queued", "active", "done", "failed", "canceled"}
Settled == {"done", "failed", "canceled"}

Job == [status : {"absent", "running", "completed", "canceling", "canceled"},
        parent : Jobs \cup {NoJob},
        seed : Pages \cup {NoPage}]

Edge == [job : Jobs, source : Pages, target : Pages, child : Jobs \cup {NoJob}]

WorkerState == [pc : {"idle", "fetching", "linking"},
                job : Jobs \cup {NoJob},
                page : Pages \cup {NoPage},
                left : Seq(Pages),               \* links not followed yet
                keys : SUBSET Pages,             \* advisory locks on (job, seed)
                spawned : SUBSET (Jobs \X Pages),  \* uncommitted child jobs
                rows : SUBSET (Jobs \X Pages),     \* uncommitted rows of crawl_urls
                edges : SUBSET Edge]             \* uncommitted discovered_links

Cancel == [pc : {"idle", "reading", "written"},
           root : Jobs \cup {NoJob}, tree : SUBSET Jobs]

TypeOK ==
  /\ job \in [Jobs -> Job]
  /\ row \in [Jobs -> [Pages -> RowStatuses]]
  /\ discoveries \in SUBSET Edge
  /\ worker \in [Workers -> WorkerState]
  /\ cancel \in Cancel
  /\ canceled \in Nat

-----------------------------------------------------------------------------
Exists(j) == job[j].status # "absent"

Running(j) == job[j].status = "running"

(* The child rules look at links of the job's host only. *)
Spawns(p) == p \in SameHost /\ p \in Matching

(* Mutant: the recursive query goes from child to parent. *)
JobTreeUpwards(root) ==
  {j \in Jobs : \A tree \in SUBSET Jobs :
     /\ root \in tree
     /\ \A c \in Jobs : Exists(c) /\ c \in tree => job[c].parent \in tree \cup {NoJob}
     => j \in tree}

(* The recursive query of a cancel: the job and all its descendants, the least
   set that has the job and the children of its members. *)
JobTree(root) ==
  {j \in Jobs : \A tree \in SUBSET Jobs :
     /\ root \in tree
     /\ \A c \in Jobs : Exists(c) /\ job[c].parent \in tree => c \in tree
     => j \in tree}

(* The row of crawl_jobs is locked, FOR UPDATE or by an uncommitted write. *)
Linking(w) == worker[w].pc = "linking"
HeldByWorker(j) == \E w \in Workers : Linking(w) /\ worker[w].job = j
HeldByCancel(j) == cancel.pc = "written" /\ j \in cancel.tree /\ Running(j)

(* ... or shared by the foreign key of an uncommitted discovered_link: such a
   lock holds up FOR UPDATE and nothing else. *)
SharedByOthers(w, j) == \E v \in Workers \ {w} : \E e \in worker[v].edges : e.child = j

(* Mutant: the lookup runs in a session of its own and misses what its caller
   has not committed. *)
CommittedChildren(w, p) ==
  {c \in Jobs : Exists(c) /\ job[c].parent = worker[w].job /\ job[c].seed = p}

(* What _find_child_job_id sees: committed jobs and the transaction's own. *)
ChildrenFound(w, p) ==
  {c \in Jobs : \/ Exists(c) /\ job[c].parent = worker[w].job /\ job[c].seed = p
                \/ <<c, p>> \in worker[w].spawned}

Unused(c) == ~Exists(c) /\ \A w \in Workers : \A p \in Pages : <<c, p>> \notin worker[w].spawned

-----------------------------------------------------------------------------
IdleWorker == [pc |-> "idle", job |-> NoJob, page |-> NoPage, left |-> <<>>,
               keys |-> {}, spawned |-> {}, rows |-> {}, edges |-> {}]

NoCancel == [pc |-> "idle", root |-> NoJob, tree |-> {}]

(* create_crawl has committed the root and its seed. *)
Init ==
  /\ job = [j \in Jobs |->
       IF j = Root THEN [status |-> "running", parent |-> NoJob, seed |-> RootSeed]
       ELSE [status |-> "absent", parent |-> NoJob, seed |-> NoPage]]
  /\ row = [j \in Jobs |-> [p \in Pages |->
       IF j = Root /\ p = RootSeed THEN "queued" ELSE "absent"]]
  /\ discoveries = {}
  /\ worker = [w \in Workers |-> IdleWorker]
  /\ cancel = NoCancel
  /\ canceled = 0

-----------------------------------------------------------------------------
(* The worker.                                                             *)

Claim(w, j, p) ==
  /\ worker[w].pc = "idle"
  /\ Running(j)
  /\ row[j][p] = "queued"
  /\ row' = [row EXCEPT ![j][p] = "active"]
  /\ worker' = [worker EXCEPT ![w] = [@ EXCEPT !.pc = "fetching", !.job = j, !.page = p]]
  /\ UNCHANGED <<job, discoveries, cancel, canceled>>

(* Mutant: the job's status is read without locking the row. *)
JobMayBeHeld(w) == Running(worker[w].job)

(* lock_running_job waits for the row and asks again for its status. *)
MayLockJob(w) ==
  /\ Running(worker[w].job)
  /\ ~HeldByWorker(worker[w].job)
  /\ ~HeldByCancel(worker[w].job)
  /\ ~SharedByOthers(w, worker[w].job)

LockJob(w) ==
  /\ worker[w].pc = "fetching"
  /\ MayLockJob(w)
  /\ worker' = [worker EXCEPT ![w] = [@ EXCEPT !.pc = "linking", !.left = Links[worker[w].page]]]
  /\ UNCHANGED <<job, row, discoveries, cancel, canceled>>

(* Mutant: the edge does not name the child. *)
ChildUntold(w, inserted, child) ==
  [worker[w] EXCEPT
     !.left = Tail(@),
     !.rows = @ \cup inserted,
     !.edges = @ \cup {[job |-> worker[w].job, source |-> worker[w].page,
                        target |-> Head(worker[w].left), child |-> NoJob]}]

(* The link at hand is dealt with: its row, if it gets one, and its edge. *)
LinkDone(w, inserted, child) ==
  [worker[w] EXCEPT
     !.left = Tail(@),
     !.rows = @ \cup inserted,
     !.edges = @ \cup {[job |-> worker[w].job, source |-> worker[w].page,
                        target |-> Head(worker[w].left), child |-> child]}]

(* Mutant: the host of a link is not asked for. *)
AnyRow(j, p) == {<<j, p>>}

(* A link of another host is recorded and not followed. *)
LocalRow(j, p) == IF p \in SameHost THEN {<<j, p>>} ELSE {}

FollowLink(w) ==
  /\ Linking(w)
  /\ worker[w].left # <<>>
  /\ LET p == Head(worker[w].left)
     IN  /\ ~Spawns(p)
         /\ worker' = [worker EXCEPT ![w] = LinkDone(w, LocalRow(worker[w].job, p), NoJob)]
  /\ UNCHANGED <<job, row, discoveries, cancel, canceled>>

(* Mutant: the child job is created and its seed left to its first worker. *)
NoSeedRow(c, p) == {}

(* The seed of a child is a row of the child. *)
SeedRow(c, p) == {<<c, p>>}

(* The child exists, at the first look or at the one under the lock. *)
JoinChild(w) ==
  /\ Linking(w)
  /\ worker[w].left # <<>>
  /\ LET p == Head(worker[w].left)
     IN  /\ Spawns(p)
         /\ \E c \in ChildrenFound(w, p) :
              ~HeldByWorker(c) /\ worker' = [worker EXCEPT ![w] = LinkDone(w, SeedRow(c, p), c)]
  /\ UNCHANGED <<job, row, discoveries, cancel, canceled>>

(* No child at the first look: pg_advisory_xact_lock on (job, seed). *)
LockKey(w) ==
  /\ Linking(w)
  /\ worker[w].left # <<>>
  /\ LET p == Head(worker[w].left)
     IN  /\ Spawns(p)
         /\ ChildrenFound(w, p) = {}
         /\ p \notin worker[w].keys
         /\ \A v \in Workers \ {w} :
              ~(worker[v].job = worker[w].job /\ p \in worker[v].keys)
         /\ worker' = [worker EXCEPT ![w] = [worker[w] EXCEPT !.keys = @ \cup {p}]]
  /\ UNCHANGED <<job, row, discoveries, cancel, canceled>>

(* No child at the second look either: create_job and its seed row. *)
SpawnChild(w) ==
  /\ Linking(w)
  /\ worker[w].left # <<>>
  /\ LET p == Head(worker[w].left)
     IN  /\ Spawns(p)
         /\ p \in worker[w].keys
         /\ ChildrenFound(w, p) = {}
         /\ \E c \in {d \in Jobs : Unused(d)} :
              worker' = [worker EXCEPT
                ![w] = [LinkDone(w, SeedRow(c, p), c) EXCEPT !.spawned = @ \cup {<<c, p>>}]]
  /\ UNCHANGED <<job, row, discoveries, cancel, canceled>>

(* Mutant: a child keeps the status that create_job gave it. *)
PendingJob(w, p) == [status |-> "pending", parent |-> worker[w].job, seed |-> p]

BornJob(w, p) == [status |-> "running", parent |-> worker[w].job, seed |-> p]

(* mark_done and the commit.  A row that exists already is left alone. *)
CommitPage(w) ==
  /\ Linking(w)
  /\ worker[w].left = <<>>
  /\ job' = [c \in Jobs |->
       IF \E p \in Pages : <<c, p>> \in worker[w].spawned
       THEN BornJob(w, CHOOSE p \in Pages : <<c, p>> \in worker[w].spawned)
       ELSE job[c]]
  /\ row' = [j \in Jobs |-> [p \in Pages |->
       IF j = worker[w].job /\ p = worker[w].page THEN "done"
       ELSE IF <<j, p>> \in worker[w].rows /\ row[j][p] = "absent" THEN "queued"
       ELSE row[j][p]]]
  /\ discoveries' = discoveries \cup worker[w].edges
  /\ worker' = [worker EXCEPT ![w] = IdleWorker]
  /\ UNCHANGED <<cancel, canceled>>

(* The page is not recorded: the fetch failed, the worker died, the job is no
   longer running.  The row is retried, taken back, or fails for good. *)
GiveUp(w) ==
  /\ worker[w].pc # "idle"
  /\ \E status \in {"queued", "failed"} :
       row' = [row EXCEPT ![worker[w].job][worker[w].page] = status]
  /\ worker' = [worker EXCEPT ![w] = IdleWorker]
  /\ UNCHANGED <<job, discoveries, cancel, canceled>>

-----------------------------------------------------------------------------
(* POST /crawls/{job_id}/cancel.                                           *)

(* The first statement takes its snapshot of the tree ... *)
ReadTree(j) ==
  /\ cancel.pc = "idle"
  /\ Exists(j)
  /\ canceled < MaxCancels
  /\ cancel' = [pc |-> "reading", root |-> j, tree |-> JobTree(j)]
  /\ canceled' = canceled + 1
  /\ UNCHANGED <<job, row, discoveries, worker>>

(* ... and writes the jobs in it once the workers have let go of them. *)
WriteJobs ==
  /\ cancel.pc = "reading"
  /\ \A j \in cancel.tree : Running(j) => ~HeldByWorker(j)
  /\ cancel' = [cancel EXCEPT !.pc = "written"]
  /\ UNCHANGED <<job, row, discoveries, worker, canceled>>

(* The rows that wait in the given jobs are canceled. *)
WaitingCanceled(jobs) ==
  [j \in Jobs |-> [p \in Pages |->
     IF j \in jobs /\ row[j][p] = "queued" THEN "canceled" ELSE row[j][p]]]

(* The second statement reads the tree again; the commit. *)
CommitCancel ==
  /\ cancel.pc = "written"
  /\ job' = [j \in Jobs |->
       IF j \in cancel.tree /\ Running(j) THEN [job[j] EXCEPT !.status = "canceling"]
       ELSE job[j]]
  /\ row' = WaitingCanceled(JobTree(cancel.root))
  /\ cancel' = NoCancel
  /\ UNCHANGED <<discoveries, worker, canceled>>

AbortCancel ==
  /\ cancel.pc # "idle"
  /\ cancel' = NoCancel
  /\ UNCHANGED <<job, row, discoveries, worker, canceled>>

-----------------------------------------------------------------------------
(* The scheduler's tick: each job on its own, children do not hold up their
   parent. *)

Tick ==
  LET swept == WaitingCanceled({j \in Jobs : job[j].status = "canceling"})
      drained == {j \in Jobs : \A p \in Pages : swept[j][p] \in Settled \cup {"absent"}}
  IN  /\ \A j \in drained : ~HeldByCancel(j)
      /\ row' = swept
      /\ job' = [j \in Jobs |->
           CASE j \in drained /\ job[j].status = "canceling" -> [job[j] EXCEPT !.status = "canceled"]
             [] j \in drained /\ Running(j) -> [job[j] EXCEPT !.status = "completed"]
             [] OTHER -> job[j]]
      /\ row' # row \/ job' # job
  /\ UNCHANGED <<discoveries, worker, cancel, canceled>>

-----------------------------------------------------------------------------
Record(w) == \/ LockJob(w) \/ FollowLink(w) \/ JoinChild(w) \/ LockKey(w) \/ SpawnChild(w)
             \/ CommitPage(w) \/ GiveUp(w)

Next == \/ \E w \in Workers : Record(w) \/ \E j \in Jobs, p \in Pages : Claim(w, j, p)
        \/ \E j \in Jobs : ReadTree(j)
        \/ WriteJobs \/ CommitCancel \/ AbortCancel
        \/ Tick

Spec == Init /\ [][Next]_vars

-----------------------------------------------------------------------------
(* Safety.                                                                 *)

(* A page spawns one child of a job, however many workers and pages of the job
   find it, and however often one page links to it.  The schema does not say
   so: two locks and the order of two look-ups do. *)
ChildJobsUnique ==
  \A c, d \in Jobs :
    (/\ Exists(c) /\ Exists(d)
     /\ job[c].parent = job[d].parent /\ job[c].seed = job[d].seed)
    => c = d

(* A job is never seen without its seed row: a tick that found it without rows
   would complete it before it started. *)
JobsHaveTheirSeed == \A j \in Jobs : Exists(j) => row[j][job[j].seed] # "absent"

(* A page that a rule matches is a row only of the jobs it is the seed of, and
   a page of another host is a row of no job. *)
FrontierFollowsTheRules ==
  \A j \in Jobs, p \in Pages :
    row[j][p] # "absent" => p \in SameHost /\ (Spawns(p) => job[j].seed = p)

(* Every recorded link tells where its target went: to the child of the job
   that it names, to a row of the job, or nowhere when its host is another. *)
LinksTellTheirTarget ==
  \A d \in discoveries :
    IF d.child # NoJob
    THEN job[d.child].parent = d.job /\ job[d.child].seed = d.target
    ELSE (d.target \in SameHost) <=> (row[d.job][d.target] # "absent")

(* A child is born of a running parent: once a cancel of the parent is
   committed no worker adds to the tree below it. *)
ParentsRunAtBirth ==
  [][\A c \in Jobs : ~Exists(c) /\ Exists(c)' => Running(job'[c].parent)]_vars

-----------------------------------------------------------------------------
(* The contract of the tree.  A row that waits or is active is open.       *)

OutcomeOf(status) == IF status \in {"queued", "active"} THEN "open" ELSE status

Contract == INSTANCE JobTreeContract WITH
  status <- [j \in Jobs |-> job[j].status],
  parent <- [j \in Jobs |-> job[j].parent],
  seed <- [j \in Jobs |-> job[j].seed],
  outcome <- [j \in Jobs |-> [p \in Pages |-> OutcomeOf(row[j][p])]],
  request <- cancel.root

(* Workers, cancels and ticks together keep the contract: jobs are born whole,
   keep their place in the tree, and nothing is canceled that no request covers,
   although a cancel reads the tree twice while workers add to it. *)
KeepsContract == Contract!Spec

-----------------------------------------------------------------------------
(* What the design document says and the code does not keep.               *)

(* docs/superpowers/specs/2026-08-20-production-site-crawler-design.md:513,
   "cascading cancellation to child jobs": the children of a canceled job are
   canceled or finished.  A child committed between the snapshot of the cancel
   and its write keeps running. *)
CancelReachesChildren ==
  \A c \in Jobs :
    Exists(c) /\ job[c].parent # NoJob
      => (job[job[c].parent].status \in {"canceling", "canceled"} => ~Running(c))

(* The same document, line 98, "If a discovered URL spawns a child job, the
   parent job should not also process that URL locally": a child's seed is not
   a row of its parent.  The child inherits the rule that spawned it, so the
   next page of it that links to its seed spawns a child of the child. *)
SpawnedPagesAreNotLocal ==
  \A c \in Jobs : Exists(c) /\ job[c].parent # NoJob =>
    row[job[c].parent][job[c].seed] = "absent"
=============================================================================
