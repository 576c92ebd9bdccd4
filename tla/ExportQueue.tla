------------------------------ MODULE ExportQueue ------------------------------
(***************************************************************************)
(* The queue of PDF exports: the export_job table (db/export_jobs.py), the *)
(* worker that claims and processes jobs (export/worker.py) and the files  *)
(* behind the download links (export/download.py).  The worker may be      *)
(* stopped or die anywhere and is started again by the service manager.    *)
(*                                                                         *)
(* A job is its place in the order of creation.  What is exported is left  *)
(* out; of the clock, only whether 24 hours have passed since a job ended: *)
(* the lifetime of a token and the age at which a job is cleaned up.       *)
(***************************************************************************)
EXTENDS Integers, FiniteSets

CONSTANTS
  Users,
  MaxJobs,      \* bound: jobs ever created
  DbFailures,   \* recording a result may fail, before or after it took effect
  PrivateTmp,   \* stopping the worker's service deletes its /tmp, as the
                \* unit in deploy/ says
  None

ASSUME NoneAssumption == None \notin Users \cup Nat
ASSUME BoundsAssumption == MaxJobs \in Nat /\ {DbFailures, PrivateTmp} \subseteq BOOLEAN

Jobs == 1 .. MaxJobs

VARIABLES
  created,    \* number of jobs created so far
  user_id,    \* of each job
  status,     \* "none" before it is created and after its row is deleted
  expired,    \* ended jobs whose 24 hours are over
  pdf_path,   \* jobs whose row has a token and a path
  disk,       \* jobs whose output directory exists
  worker,     \* what the worker is doing
  job,        \* the job it processes
  swept,      \* directories of deleted rows, still to be removed
  logged,     \* jobs of which this worker logged that their iteration failed
  cleared     \* jobs whose directory went with the /tmp of a stopped worker

rows == <<created, user_id, status, expired, pdf_path>>
vars == <<rows, disk, worker, job, swept, logged, cleared>>

Active == {j \in Jobs : status[j] \in {"queued", "running"}}
Ended  == {j \in Jobs : status[j] \in {"completed", "failed"}}
Queued == {j \in Jobs : status[j] = "queued"}

SetStatus(js, s) == status' = [j \in Jobs |-> IF j \in js THEN s ELSE status[j]]

Init ==
  /\ created = 0
  /\ user_id = [j \in Jobs |-> None]
  /\ status = [j \in Jobs |-> "none"]
  /\ expired = {} /\ pdf_path = {} /\ disk = {} /\ swept = {}
  /\ worker = "down" /\ job = None /\ logged = {} /\ cleared = {}

-----------------------------------------------------------------------------
(* The application                                                         *)

(* Mutant: only running jobs count. *)
MayCreate_QueuedIgnored(u) == \A j \in Active : status[j] = "running" => user_id[j] # u

(* The check and the partial unique index ix_export_job_one_active_per_user*)
MayCreate(u) == \A j \in Active : user_id[j] # u

CreateJob(u) ==
  /\ created < MaxJobs
  /\ MayCreate(u)
  /\ created' = created + 1
  /\ user_id' = [user_id EXCEPT ![created + 1] = u]
  /\ SetStatus({created + 1}, "queued")
  /\ UNCHANGED <<expired, pdf_path, disk, worker, job, swept, logged, cleared>>

(* The workspace or the user is deleted, and the job's row with it.        *)
CascadeDelete(j) ==
  /\ status[j] # "none"
  /\ SetStatus({j}, "none")
  /\ expired' = expired \ {j}
  /\ pdf_path' = pdf_path \ {j}
  /\ UNCHANGED <<created, user_id, disk, worker, job, swept, logged, cleared>>

(* The job get_job_by_token finds, whatever its status; download_export    *)
(* then serves its file, if there is one.                                  *)
ValidToken(j) == j \in pdf_path \ expired
Served(j) == ValidToken(j) /\ j \in disk

-----------------------------------------------------------------------------
(* The worker                                                              *)

(* Mutants: jobs that were being processed are not failed, or only they    *)
(* are.                                                                    *)
Orphans_Queued == Queued
Orphans_Running == Active \ Queued

(* fail_orphaned_jobs, before the loop starts.                             *)
Orphans == Active

StartWorker ==
  /\ worker = "down"
  /\ SetStatus(Orphans, "failed")
  /\ worker' = "idle" /\ logged' = {}
  /\ UNCHANGED <<created, user_id, expired, pdf_path, disk, job, swept, cleared>>

(* claim_next_job has committed.                                           *)
Claim ==
  /\ worker = "idle"
  /\ \E j \in Queued :
       /\ \A k \in Queued : j <= k
       /\ SetStatus({j}, "running") /\ job' = j
  /\ worker' = "claimed"
  /\ UNCHANGED <<created, user_id, expired, pdf_path, disk, swept, logged, cleared>>

(* _process_job makes the output directory.                                *)
MakeDirectory ==
  /\ worker = "claimed"
  /\ disk' = disk \cup {job}
  /\ worker' = "exporting"
  /\ UNCHANGED <<rows, job, swept, logged, cleared>>

(* The loop of the worker logs what an iteration raised and goes on.       *)
LogFailure ==
  /\ logged' = logged \cup {job}
  /\ worker' = "idle" /\ job' = None

(* The directory cannot be made, before the try of _process_job, or the    *)
(* commit of the claim raised: the row says running, and nobody works on it*)
LoseClaim ==
  /\ worker = "claimed"
  /\ LogFailure
  /\ UNCHANGED <<rows, disk, swept, cleared>>

(* Mutant: the output directory is removed in the finally clause. *)
Kept_Never(j) == disk \ {j}

Kept(j) == disk

(* The PDF is there and complete_job finds the row.  Its commit may raise  *)
(* although it took effect: the worker then takes the job as failed.       *)
Complete ==
  /\ worker = "exporting" /\ status[job] # "none"
  /\ SetStatus({job}, "completed")
  /\ pdf_path' = pdf_path \cup {job}
  /\ \/ /\ disk' = Kept(job) /\ worker' = "idle" /\ job' = None
     \/ /\ DbFailures
        /\ worker' = "failing" /\ UNCHANGED <<disk, job>>
  /\ UNCHANGED <<created, user_id, expired, swept, logged, cleared>>

(* The export or complete_job failed: fail_job.                            *)
Fail ==
  /\ worker \in {"exporting", "failing"} /\ status[job] # "none"
  /\ SetStatus({job}, "failed")
  /\ worker' = "removing"
  /\ UNCHANGED <<created, user_id, expired, pdf_path, disk, job, swept, logged, cleared>>

(* The row is gone, or the database out of reach: fail_job raises, too, in *)
(* vain or after its commit, and the iteration is given up, the directory  *)
(* as it is.                                                               *)
GiveUp ==
  /\ worker \in {"exporting", "failing"}
  /\ \/ /\ status[job] = "none" \/ DbFailures
        /\ UNCHANGED status
     \/ /\ status[job] # "none" /\ DbFailures
        /\ SetStatus({job}, "failed")
  /\ LogFailure
  /\ UNCHANGED <<created, user_id, expired, pdf_path, disk, swept, cleared>>

RemoveOutput ==
  /\ worker = "removing"
  /\ disk' = disk \ {job}
  /\ worker' = "idle" /\ job' = None
  /\ UNCHANGED <<rows, swept, logged, cleared>>

(* The query of cleanup_expired_jobs.                                      *)
Expired == expired

(* cleanup_expired_jobs: the rows first, the directories after the commit. *)
DeleteExpired ==
  /\ worker = "idle" /\ Expired # {}
  /\ SetStatus(Expired, "none")
  /\ swept' = Expired \cap pdf_path
  /\ pdf_path' = pdf_path \ Expired
  /\ expired' = {}
  /\ worker' = "sweeping"
  /\ UNCHANGED <<created, user_id, disk, job, logged, cleared>>

(* A directory that cannot be removed is logged and left.                  *)
RemoveExpired ==
  /\ worker = "sweeping"
  /\ \E removed \in SUBSET swept : disk' = disk \ removed
  /\ swept' = {}
  /\ worker' = "idle"
  /\ UNCHANGED <<rows, job, logged, cleared>>

(* The worker is cancelled, killed or dies.                                *)
StopWorker ==
  /\ worker # "down"
  /\ worker' = "down" /\ job' = None /\ swept' = {}
  /\ \/ PrivateTmp /\ disk' = {} /\ cleared' = cleared \cup disk
     \/ ~PrivateTmp /\ UNCHANGED <<disk, cleared>>
  /\ UNCHANGED <<rows, logged>>

(* 24 hours after it ended.                                                *)
Age(j) ==
  /\ j \in Ended \ expired
  /\ expired' = expired \cup {j}
  /\ UNCHANGED <<created, user_id, status, pdf_path, disk, worker, job, swept,
                 logged, cleared>>

-----------------------------------------------------------------------------
Next ==
  \/ \E u \in Users : CreateJob(u)
  \/ \E j \in Jobs : CascadeDelete(j) \/ Age(j)
  \/ StartWorker \/ Claim \/ MakeDirectory \/ LoseClaim
  \/ Complete \/ Fail \/ GiveUp \/ RemoveOutput
  \/ DeleteExpired \/ RemoveExpired \/ StopWorker

Spec == Init /\ [][Next]_vars

(* The service manager starts the worker again, and the worker goes on.    *)
Fairness ==
  /\ WF_vars(StartWorker) /\ WF_vars(Claim)
  /\ WF_vars(MakeDirectory \/ LoseClaim)
  /\ WF_vars(Complete \/ Fail \/ GiveUp \/ RemoveOutput \/ RemoveExpired)

FairSpec == Spec /\ Fairness

-----------------------------------------------------------------------------
(* Properties                                                              *)

(* The values of the variables; only a job that ended is expired, every    *)
(* completed one has a path, and no user has two jobs queued or running,   *)
(* which the claim query and the page rely on.                             *)
TypeOK ==
  /\ created \in 0 .. MaxJobs
  /\ user_id \in [Jobs -> Users \cup {None}]
  /\ status \in [Jobs -> {"none", "queued", "running", "completed", "failed"}]
  /\ expired \cup pdf_path \subseteq Ended
  /\ disk \cup swept \cup logged \cup cleared \subseteq Jobs
  /\ \A j \in Jobs : status[j] = "completed" => j \in pdf_path
  /\ worker \in {"down", "idle", "claimed", "exporting", "failing", "removing",
                  "sweeping"}
  /\ job # None <=> worker \in {"claimed", "exporting", "failing", "removing"}
  /\ \A i, j \in Active : user_id[i] = user_id[j] => i = j

(* No row says running for ever without a trace (fail_orphaned_jobs: "users*)
(* see an error instead of a perpetual spinner"): a running job is the one *)
(* the worker processes, or the worker is down and will fail it, or this   *)
(* very worker logged that its iteration failed and the row could not be   *)
(* marked.  What the last worker left is gone when the next one runs.      *)
RunningIsProcessed ==
  \A j \in Jobs : status[j] = "running" =>
    \/ worker = "down"
    \/ worker \in {"claimed", "exporting"} /\ job = j
    \/ j \in logged

(* The link of a completed job leads to a file for its 24 hours unless a   *)
(* stop of the worker's service took the file away: neither the failure    *)
(* path nor the cleanup, which removes files after its commit, takes one   *)
(* that download_export still offers.                                      *)
ValidTokenServed ==
  \A j \in Jobs : status[j] = "completed" /\ ValidToken(j) =>
    Served(j) \/ j \in cleared

(* The page that polls for a job gets an answer, however often the worker  *)
(* is stopped in the middle of it, unless the failure of the job could not *)
(* be recorded either and was logged.                                      *)
EveryJobEnds == \A j \in Jobs : j \in Active ~> j \notin Active \/ j \in logged
=============================================================================
