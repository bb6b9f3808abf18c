---------------------------- MODULE ArtifactStore ----------------------------
(***************************************************************************)
(* How a fetched page becomes a row of content_artifacts and a file under  *)
(* output/.  The two are written by different means: the file is staged    *)
(* under a name of its own and renamed into place before the transaction   *)
(* that inserts the row commits, and a clean-up removes it when that       *)
(* transaction fails.  The path depends on the URL and the content only,   *)
(* so the rows of several jobs may share one file; an advisory lock on the *)
(* path, held to the end of the transaction, orders them.                  *)
(*                                                                         *)
(* The locks belong to the database session, the file operations to the    *)
(* process.  When PostgreSQL ends a transaction by itself (an error, a     *)
(* deadlock, a lost connection) the locks are gone at once, while the      *)
(* process learns of it at its next statement: session[w].tx and           *)
(* session[w].pc are the two views.  Claims, leases and retries are those  *)
(* of CrawlLifecycle, reduced to owner.                                    *)
(***************************************************************************)
EXTENDS Integers, FiniteSets

CONSTANTS
  Jobs,          \* jobs
  Pages,         \* rows of crawl_urls
  Workers,       \* crawler workers
  Urls,          \* normalized URLs
  Bodies,        \* what a site may answer: content type and bytes
  JobOf,         \* crawl_urls.job_id
  UrlOf,         \* crawl_urls.normalized_url
  LinksTo,       \* the existing child jobs a page's links spawn or find
  NoWorker,      \* claimed_by IS NULL
  NoBody,        \* no row of content_artifacts
  NoPage,        \* the worker is not processing a page
  ServerErrors   \* whether statements, connections and disks may fail

ASSUME ConstantsAssumption ==
  /\ JobOf \in [Pages -> Jobs]
  /\ UrlOf \in [Pages -> Urls]
  /\ \A p, q \in Pages : JobOf[p] = JobOf[q] /\ UrlOf[p] = UrlOf[q] => p = q
  /\ LinksTo \in [Pages -> SUBSET Jobs]
  /\ NoWorker \notin Workers
  /\ NoBody \notin Bodies
  /\ NoPage \notin Pages
  /\ ServerErrors \in BOOLEAN

VARIABLES
  record,    \* record[p]: the content of the committed artifact of row p
  owner,     \* owner[p]: crawl_urls.claimed_by
  file,      \* file[path]: the file at its final path
  staged,    \* staged[<<p, b>>]: the staging file of row p with content b
  session,   \* session[w]: where process_url is, and its transaction
  faults     \* history: whether a process or a write was interrupted half way,
             \* and whether PostgreSQL has ended a transaction by itself

vars == <<record, owner, file, staged, session, faults>>

FileStates == {"none", "partial", "complete"}

Session == [pc : {"idle", "fetched", "locked", "staged", "pathLocked",
                  "promoted", "marked", "recorded"},
            page : Pages \cup {NoPage},
            body : Bodies \cup {NoBody},
            created : BOOLEAN,
            tx : {"none", "open", "aborted"}]

TypeOK ==
  /\ record \in [Pages -> Bodies \cup {NoBody}]
  /\ owner \in [Pages -> Workers \cup {NoWorker}]
  /\ file \in [Urls \X Bodies -> FileStates]
  /\ staged \in [Pages \X Bodies -> FileStates]
  /\ session \in [Workers -> Session]
  /\ \A w \in Workers : session[w].pc # "idle"
       => session[w].page \in Pages /\ session[w].body \in Bodies
  /\ faults \in SUBSET {"interrupted", "abort"}

-----------------------------------------------------------------------------
(* build_storage_path: bucket and content hash are the body. *)
PathOf(p, b) == <<UrlOf[p], b>>

Path(w) == PathOf(session[w].page, session[w].body)
StagingPath(w) == <<session[w].page, session[w].body>>

(* The locks of a transaction that the server has not ended. *)
HoldsJob(v, j) ==
  /\ session[v].tx = "open"
  /\ JobOf[session[v].page] = j

(* Mutant: the lock on the path ends with the promotion. *)
HoldsPathToPromote(v, path) ==
  /\ session[v].tx = "open"
  /\ session[v].pc = "pathLocked"
  /\ Path(v) = path

HoldsPath(v, path) ==
  /\ session[v].tx = "open"
  /\ session[v].pc \in {"pathLocked", "promoted", "marked", "recorded"}
  /\ Path(v) = path

HoldsRow(v, p) ==
  /\ session[v].tx = "open"
  /\ session[v].pc \in {"marked", "recorded"}
  /\ session[v].page = p

(* The foreign key of discovered_links.spawned_child_job_id. *)
SharesJob(v, j) ==
  /\ session[v].tx = "open"
  /\ session[v].pc = "recorded"
  /\ j \in LinksTo[session[v].page]

(* v holds what w waits for: the job, the path, or a child job. *)
Blocks(v, w) ==
  /\ v # w
  /\ \/ /\ session[w].pc = "fetched"
        /\ LET j == JobOf[session[w].page] IN HoldsJob(v, j) \/ SharesJob(v, j)
     \/ /\ session[w].pc = "staged"
        /\ HoldsPath(v, Path(w))
     \/ /\ session[w].pc = "marked"
        /\ \E j \in LinksTo[session[w].page] : HoldsJob(v, j)

Unblocked(w) == ~ \E v \in Workers : Blocks(v, w)

(* w is one of a set of transactions that wait for each other. *)
Deadlocked(w) ==
  \E S \in SUBSET Workers :
    /\ w \in S
    /\ \A v \in S : /\ session[v].tx = "open"
                    /\ \E x \in S : Blocks(x, v)
                    /\ \E x \in S : Blocks(v, x)

-----------------------------------------------------------------------------
IdleSession == [pc |-> "idle", page |-> NoPage, body |-> NoBody,
                created |-> FALSE, tx |-> "none"]

Init ==
  /\ record = [p \in Pages |-> NoBody]
  /\ owner = [p \in Pages |-> NoWorker]
  /\ file = [path \in Urls \X Bodies |-> "none"]
  /\ staged = [path \in Pages \X Bodies |-> "none"]
  /\ session = [w \in Workers |-> IdleSession]
  /\ faults = {}

Fault(kind) == faults' = faults \cup {kind}

(* The row is claimed and its page fetched, with status 200. *)
Fetch(w, p, b) ==
  /\ session[w].pc = "idle"
  /\ record[p] = NoBody
  /\ owner[p] = NoWorker
  /\ owner' = [owner EXCEPT ![p] = w]
  /\ session' = [session EXCEPT ![w] = [IdleSession EXCEPT !.pc = "fetched",
                                                           !.page = p, !.body = b]]
  /\ UNCHANGED <<record, file, staged, faults>>

(* The lease has expired and the scheduler takes the row back. *)
LoseLease(p) ==
  /\ owner[p] # NoWorker
  /\ ~ \E w \in Workers : HoldsRow(w, p)
  /\ owner' = [owner EXCEPT ![p] = NoWorker]
  /\ UNCHANGED <<record, file, staged, session, faults>>

(* A failure that is recorded gives the row up, if it is still the worker's. *)
GivenUp(w) ==
  [p \in Pages |-> IF p = session[w].page /\ owner[p] = w THEN NoWorker ELSE owner[p]]

(* The job is not running (rolled back), or the processor refuses the
   response (a failed attempt): nothing is on disk yet. *)
StopBeforeStaging(w) ==
  /\ session[w].pc = "fetched"
  /\ owner' \in {owner, GivenUp(w)}
  /\ session' = [session EXCEPT ![w] = IdleSession]
  /\ UNCHANGED <<record, file, staged, faults>>

(* lock_running_job, FOR UPDATE. *)
LockJob(w) ==
  /\ session[w].pc = "fetched"
  /\ Unblocked(w)
  /\ session' = [session EXCEPT ![w].pc = "locked", ![w].tx = "open"]
  /\ UNCHANGED <<record, owner, file, staged, faults>>

(* stage_artifact; no statement, so an aborted transaction is not noticed. *)
Stage(w) ==
  /\ session[w].pc = "locked"
  /\ staged' = [staged EXCEPT ![StagingPath(w)] = "complete"]
  /\ session' = [session EXCEPT ![w].pc = "staged"]
  /\ UNCHANGED <<record, owner, file, faults>>

(* The write fails half way.  staged_artifact is not bound yet: the handler
   has nothing to clean up. *)
StageFails(w) ==
  /\ ServerErrors
  /\ session[w].pc = "locked"
  /\ staged' = [staged EXCEPT ![StagingPath(w)] = "partial"]
  /\ owner' = GivenUp(w)
  /\ session' = [session EXCEPT ![w] = IdleSession]
  /\ Fault("interrupted")
  /\ UNCHANGED <<record, file>>

(* lock_storage_path. *)
LockPath(w) ==
  /\ session[w].pc = "staged"
  /\ session[w].tx = "open"
  /\ Unblocked(w)
  /\ session' = [session EXCEPT ![w].pc = "pathLocked"]
  /\ UNCHANGED <<record, owner, file, staged, faults>>

(* Mutants: the staging file is kept when the file exists; the worker does not
   learn that it created the file. *)
StagedAfterRename(w) ==
  IF file[Path(w)] = "none" THEN [staged EXCEPT ![StagingPath(w)] = "none"] ELSE staged
CreatedForgotten(w) == [session[w] EXCEPT !.pc = "promoted"]

(* _promote_body renames only where no file exists, ... *)
Promotes(w) == file[Path(w)] = "none"

(* ... removes the staging file in both cases, ... *)
StagedAfterPromote(w) == [staged EXCEPT ![StagingPath(w)] = "none"]

(* ... and tells whether this transaction created the file. *)
PromotedSession(w) == [session[w] EXCEPT !.pc = "promoted", !.created = Promotes(w)]

Promote(w) ==
  /\ session[w].pc = "pathLocked"
  /\ Promotes(w) => staged[StagingPath(w)] # "none"
  /\ file' = [file EXCEPT ![Path(w)] = IF Promotes(w) THEN staged[StagingPath(w)] ELSE @]
  /\ staged' = StagedAfterPromote(w)
  /\ session' = [session EXCEPT ![w] = PromotedSession(w)]
  /\ UNCHANGED <<record, owner, faults>>

(* Mutant: the row is locked whoever owns it. *)
MarkUnasked(w) ==
  /\ session[w].pc = "promoted"
  /\ session[w].tx = "open"
  /\ session' = [session EXCEPT ![w].pc = "marked"]
  /\ UNCHANGED <<record, owner, file, staged, faults>>

(* mark_processing finds the row its own and locks it. *)
MarkProcessing(w) ==
  /\ session[w].pc = "promoted"
  /\ session[w].tx = "open"
  /\ owner[session[w].page] = w
  /\ session' = [session EXCEPT ![w].pc = "marked"]
  /\ UNCHANGED <<record, owner, file, staged, faults>>

(* The artifact, its metadata, its links and mark_done.  A link to a child job
   waits while another worker has that job locked. *)
RecordPage(w) ==
  /\ session[w].pc = "marked"
  /\ session[w].tx = "open"
  /\ Unblocked(w)
  /\ session' = [session EXCEPT ![w].pc = "recorded"]
  /\ UNCHANGED <<record, owner, file, staged, faults>>

Committed(w) == [record EXCEPT ![session[w].page] = session[w].body]

(* finish_attempt and the commit. *)
CommitArtifact(w) ==
  /\ session[w].pc = "recorded"
  /\ session[w].tx = "open"
  /\ record' = Committed(w)
  /\ owner' = [owner EXCEPT ![session[w].page] = NoWorker]
  /\ session' = [session EXCEPT ![w] = IdleSession]
  /\ UNCHANGED <<file, staged, faults>>

(* finish_attempt or the commit raises; both stand outside the handler, so
   the exception leaves process_url and the process ends. *)
CommitFails(w) ==
  /\ session[w].pc = "recorded"
  /\ session[w].tx = "aborted"
  /\ session' = [session EXCEPT ![w] = IdleSession]
  /\ UNCHANGED <<record, owner, file, staged, faults>>

(* What makes process_url clean up: a statement on a transaction that the
   server has ended, a rename without its source, a row that is no longer the
   worker's, or an exception of the processing itself. *)
MustCleanUp(w) ==
  \/ session[w].pc = "staged" /\ session[w].tx = "aborted"
  \/ session[w].pc = "pathLocked" /\ Promotes(w) /\ staged[StagingPath(w)] = "none"
  \/ session[w].pc \in {"promoted", "marked"}

(* Mutant: the file goes whoever created it. *)
RemovesAnyFile(w) == session[w].pc \in {"promoted", "marked"}

(* The file goes if this transaction created it, else the staging file. *)
RemovesFile(w) == session[w].created

RolledBack(w) == IdleSession

(* The deletion comes before the rollback, so with the locks the transaction
   still has.  The row is given up when the failure is recorded, and stays
   owned when it is not or the row was not processed. *)
CleanUp(w) ==
  /\ MustCleanUp(w)
  /\ IF RemovesFile(w)
     THEN /\ file' = [file EXCEPT ![Path(w)] = "none"]
          /\ UNCHANGED staged
     ELSE /\ staged' = [staged EXCEPT ![StagingPath(w)] = "none"]
          /\ UNCHANGED file
  /\ owner' \in {owner, GivenUp(w)}
  /\ session' = [session EXCEPT ![w] = RolledBack(w)]
  /\ UNCHANGED <<record, faults>>

(* PostgreSQL ends one of the transactions that wait for each other. *)
DeadlockAbort(w) ==
  /\ Deadlocked(w)
  /\ session' = [session EXCEPT ![w].tx = "aborted"]
  /\ Fault("abort")
  /\ UNCHANGED <<record, owner, file, staged>>

(* A statement fails in the server, or the connection is lost. *)
ServerAbort(w) ==
  /\ ServerErrors
  /\ session[w].tx = "open"
  /\ session' = [session EXCEPT ![w].tx = "aborted"]
  /\ Fault("abort")
  /\ UNCHANGED <<record, owner, file, staged>>

(* The process dies, possibly in the middle of writing the staging file. *)
Crash(w) ==
  /\ session[w].pc # "idle"
  /\ \/ UNCHANGED staged
     \/ /\ session[w].pc = "locked"
        /\ staged' = [staged EXCEPT ![StagingPath(w)] = "partial"]
  /\ session' = [session EXCEPT ![w] = IdleSession]
  /\ Fault("interrupted")
  /\ UNCHANGED <<record, owner, file>>

-----------------------------------------------------------------------------
Proceed(w) ==
  \/ StopBeforeStaging(w) \/ LockJob(w) \/ Stage(w) \/ StageFails(w) \/ LockPath(w)
  \/ Promote(w) \/ MarkProcessing(w) \/ RecordPage(w) \/ CommitArtifact(w)
  \/ CommitFails(w) \/ CleanUp(w)

Next ==
  \/ \E w \in Workers : \/ \E p \in Pages, b \in Bodies : Fetch(w, p, b)
                        \/ Proceed(w) \/ DeadlockAbort(w) \/ ServerAbort(w) \/ Crash(w)
  \/ \E p \in Pages : LoseLease(p)

Spec == Init /\ [][Next]_vars

-----------------------------------------------------------------------------
(* A committed artifact has its file, whole, at its path: no clean-up of
   another job that shares the path removes it, and no half-written file is
   renamed into place.  Needed for it: the server has not ended a transaction
   by itself. *)
RecordsHaveFiles ==
  "abort" \notin faults =>
    \A p \in Pages : record[p] # NoBody => file[PathOf(p, record[p])] = "complete"

(* Without a fault nothing stays behind: every file at its path is that of a
   committed artifact, or of a transaction that will commit it or remove it. *)
NoOrphans ==
  faults = {} =>
    \A path \in Urls \X Bodies : file[path] # "none" =>
      \/ \E p \in Pages : record[p] # NoBody /\ PathOf(p, record[p]) = path
      \/ \E w \in Workers : HoldsPath(w, path) /\ session[w].created

(* A staging file is that of a worker between staging and promotion, whether
   transactions were aborted or not, unless a process or a write was
   interrupted. *)
NoStagingLeft ==
  "interrupted" \notin faults =>
    \A p \in Pages, b \in Bodies : staged[<<p, b>>] # "none" =>
      \E w \in Workers : /\ session[w].pc \in {"staged", "pathLocked"}
                         /\ StagingPath(w) = <<p, b>>

(* A row gets its artifact once, from the worker that owns it, whose content it
   is and whose file is in place; it keeps it.  A worker whose lease was lost
   commits nothing, whether the server ends transactions or not. *)
ArtifactsAreFinal ==
  [][\A p \in Pages : record'[p] # record[p] =>
       /\ record[p] = NoBody
       /\ \E w \in Workers :
            /\ owner[p] = w /\ session[w].page = p /\ record'[p] = session[w].body
            /\ "abort" \notin faults => file'[PathOf(p, record'[p])] = "complete"]_vars

(* What the locks guarantee while the server keeps them: one worker per job and
   per path, a staging file nobody else writes, a promoted file in place, and a
   created file no committed artifact refers to. *)
Working(w) == session[w].pc \notin {"idle", "fetched"}
InPlace(w) == session[w].pc \in {"promoted", "marked", "recorded"}

LocksExclude ==
  "abort" \notin faults =>
    /\ \A w \in Workers : Working(w) => session[w].tx = "open"
    /\ \A v, w \in Workers : v # w /\ Working(v) /\ Working(w)
         => JobOf[session[v].page] # JobOf[session[w].page]
    /\ \A v, w \in Workers : v # w /\ HoldsPath(v, Path(v)) /\ HoldsPath(w, Path(w))
         => Path(v) # Path(w)

FilesReady ==
  "abort" \notin faults =>
    \A w \in Workers :
      /\ session[w].pc \in {"staged", "pathLocked"} => staged[StagingPath(w)] = "complete"
      /\ InPlace(w) => file[Path(w)] = "complete"
      /\ session[w].created => \A p \in Pages :
           record[p] # NoBody => PathOf(p, record[p]) # Path(w)

FilesWhole ==
  "abort" \notin faults => \A path \in Urls \X Bodies : file[path] # "partial"

CreatedInPlace == \A w \in Workers : session[w].created => InPlace(w)

(* An owned row has no artifact yet, and whoever has locked a row owns it. *)
OwnersOK ==
  /\ \A p \in Pages : owner[p] # NoWorker => record[p] = NoBody
  /\ \A w \in Workers, p \in Pages : HoldsRow(w, p) => owner[p] = w

IInv ==
  /\ TypeOK /\ LocksExclude /\ FilesReady /\ FilesWhole /\ CreatedInPlace
  /\ OwnersOK /\ RecordsHaveFiles

-----------------------------------------------------------------------------
(* tests/integration/test_crawl_pipeline.py:436,
   test_post_stage_cleanup_does_not_delete_committed_artifact_from_another_job:
   the clean-up of one job never removes the file of another job's committed
   artifact.  A transaction that PostgreSQL has ended to resolve a deadlock no
   longer holds the path when its clean-up runs. *)
CleanUpSparesCommittedArtifacts ==
  \A p \in Pages : record[p] # NoBody => file[PathOf(p, record[p])] # "none"
=============================================================================
