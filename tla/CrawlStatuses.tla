--------------------------- MODULE CrawlStatuses ---------------------------
(***************************************************************************)
(* The status columns of crawl_jobs and crawl_urls, and the groupings of   *)
(* URL statuses that the repositories test.  "absent" is the status of a   *)
(* row that has not been inserted.                                         *)
(***************************************************************************)

JobStatuses == {"pending", "running", "pausing", "paused",
                "canceling", "canceled", "completed", "failed"}

UrlStatuses == {"discovered", "queued", "claimed", "fetching", "processing",
                "retry_wait", "done", "failed_permanent", "canceled",
                "skipped_child_spawned"}

(* A worker holds the row. *)
ActiveUrlStatuses == {"claimed", "fetching", "processing"}

(* The row is settled. *)
TerminalUrlStatuses == {"done", "failed_permanent", "canceled",
                        "skipped_child_spawned"}

(* The statuses a claim takes, and a wake-up is published for. *)
RunnableUrlStatuses == {"queued", "retry_wait"}

(* The job statuses a cancel request changes. *)
CancelableJobStatuses == {"running", "paused", "pausing"}

TerminalJobStatuses == {"canceled", "completed", "failed"}

(* crawl_attempts.result_status *)
AttemptResults == {"in_progress", "success", "retry_wait",
                   "failed_permanent", "abandoned"}
=============================================================================
