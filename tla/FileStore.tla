------------------------------ MODULE FileStore ------------------------------
(***************************************************************************)
(* Uploaded files and artifacts: the rows (parser_serve/persistence/       *)
(* files.py), the endpoints that write and read them                       *)
(* (api/routes/files.py, api/routes/tasks.py), the object storage behind   *)
(* them (storage/local.py, storage/s3.py) and the retention service that   *)
(* removes both (control/retention.py, api/routes/maintenance.py).         *)
(*                                                                         *)
(* An object and its row are never written together: an upload writes the  *)
(* object and then the row, a retention pass deletes the object and then   *)
(* the row, and either may be cut off in between.  A task is here what it  *)
(* is to its files: the upload it reads, the attempts that produce         *)
(* artifacts and the artifact that is its result; it has one stage, which  *)
(* produces one artifact per attempt.  How stages are leased is the        *)
(* business of StageScheduler: a lease may end at any time.                *)
(***************************************************************************)
EXTENDS Naturals, FiniteSets

CONSTANTS
  Files,              \* file ids, in the order of file_id
  Artifacts,          \* artifact ids, above the file ids
  Tasks,
  Contents,           \* digests of what a backend produces
  Passes,             \* retention passes: the loop and the endpoint
  Loop,               \* the pass of the background loop
  None,
  FileRetention,      \* uploaded_file_retention_seconds
  ArtifactRetention,  \* artifact_retention_seconds
  BatchSize,          \* batch_size, maximum_records
  MaximumAttempts,    \* attempts of the stage
  MaxTime,            \* bound: the clock
  MaxLeases,          \* bound: leases of a task
  MaxFaults           \* bound: crashes and calls of database or storage that fail

Keys == Files \cup Artifacts

ASSUME KeysAssumption ==
  /\ Keys \subseteq Nat \ {0}
  /\ \A f \in Files, a \in Artifacts : f < a
  /\ None \notin Keys \cup Tasks \cup Contents
ASSUME PassesAssumption == Loop \in Passes
ASSUME NumbersAssumption ==
  /\ FileRetention \in Nat \ {0} /\ ArtifactRetention \in Nat \ {0}
  /\ BatchSize \in Nat \ {0} /\ MaximumAttempts \in Nat \ {0}
  /\ MaxTime \in Nat /\ MaxLeases \in Nat /\ MaxFaults \in Nat

VARIABLES
  now,
  object,   \* keys under which the storage holds an object
  row,      \* uploaded_files and artifacts
  task,
  pass,
  orphans,  \* objects whose request was cut off before its row was written
  faults

vars == <<now, object, row, task, pass, orphans, faults>>

(* A row is none, being uploaded (the object is written, the transaction   *)
(* is not committed), stored or gone.  expires 0 is a NULL.                *)
Rows ==
  [state : {"none", "open", "stored", "gone"}, created : Nat, expires : Nat,
   task : Tasks \cup {None}, attempt : Nat, token : Nat,
   digest : Contents \cup {None}]

NoRow ==
  [state |-> "none", created |-> 0, expires |-> 0, task |-> None,
   attempt |-> 0, token |-> 0, digest |-> None]

Gone == [NoRow EXCEPT !.state = "gone"]

TaskRows ==
  [status : {"none", "creating", "pending", "leased", "succeeded", "ended"},
   source : Files \cup {None}, attempt : Nat, token : Nat, fetched : BOOLEAN,
   produced : Artifacts \cup {None}, result : Artifacts \cup {None}]

NoTask ==
  [status |-> "none", source |-> None, attempt |-> 0, token |-> 0,
   fetched |-> FALSE, produced |-> None, result |-> None]

PassStates ==
  [state : {"idle", "reading", "deleting"}, at : Nat, files : SUBSET Files,
   tasks : SUBSET Tasks, locked : SUBSET Keys, todo : SUBSET Keys,
   dead : SUBSET Keys, nulled : SUBSET Tasks]

Idle ==
  [state |-> "idle", at |-> 0, files |-> {}, tasks |-> {}, locked |-> {},
   todo |-> {}, dead |-> {}, nulled |-> {}]

_ACTIVE_TASK_STATUSES == {"pending", "leased"}

Active(t) == task[t].status \in _ACTIVE_TASK_STATUSES

-----------------------------------------------------------------------------
(* What a reader is given: a row whose time has not come.                  *)
get(k, at) ==
  row[k].state = "stored" /\ (row[k].expires = 0 \/ at < row[k].expires)

exists(k) == k \in object

(* A download also asks the storage whether the object is there.           *)
_record(k) == get(k, now) /\ exists(k)

(* The artifacts that a task shows, one of them, and its primary result.   *)
list_task_artifacts(t) ==
  {a \in Artifacts : row[a].task = t /\ get(a, now)}

download_task_artifact(t, a) == row[a].task = t /\ _record(a)

(* A signed URL is made for what a download would be given.                *)
create_task_artifact_download_url(t, a) ==
  row[a].task = t /\ get(a, now) /\ exists(a)

_primary_result_artifact(t) ==
  /\ task[t].status = "succeeded" /\ task[t].result # None
  /\ download_task_artifact(t, task[t].result)

(* The result is read by its task only.                                    *)
get_task_result(t) ==
  _primary_result_artifact(t) /\ row[task[t].result].task = t

(* What retention takes for expired; an old row without expires_at is      *)
(* judged by its age.                                                      *)
Retention(k) == IF k \in Files THEN FileRetention ELSE ArtifactRetention

Expired_early(k, at) ==
  /\ row[k].state = "stored"
  /\ IF row[k].expires # 0 THEN row[k].created <= at
                           ELSE row[k].created + Retention(k) <= at
Expired(k, at) ==
  /\ row[k].state = "stored"
  /\ IF row[k].expires # 0 THEN row[k].expires <= at
                           ELSE row[k].created + Retention(k) <= at

Fault == faults < MaxFaults /\ faults' = faults + 1

(* storage.write is atomic (a temporary file that is renamed, a multipart  *)
(* upload that is completed); storage.delete of what is not there succeeds.*)
write(k) == object' = object \cup {k}

delete_missing_raises(k) == k \in object /\ object' = object \ {k}
delete(k) == object' = object \ {k}

-----------------------------------------------------------------------------
(* upload_file: the object first ... *)
UploadBegin(f) ==
  /\ row[f].state = "none"
  /\ write(f)
  /\ row' = [row EXCEPT ![f].state = "open"]
  /\ UNCHANGED <<now, task, pass, orphans, faults>>

StoredRow(r, expires) ==
  [r EXCEPT !.state = "stored", !.created = now, !.expires = expires]

(* ... then the row, without expires_at as long as no retention time is    *)
(* configured ...                                                          *)
UploadCommit(f) ==
  /\ row[f].state = "open"
  /\ \E expires \in {0, now + FileRetention} :
       row' = [row EXCEPT ![f] = StoredRow(@, expires)]
  /\ UNCHANGED <<now, object, task, pass, orphans, faults>>

(* ... or neither.                                                         *)
UploadFail(f) ==
  /\ row[f].state = "open"
  /\ Fault
  /\ delete(f)
  /\ row' = [row EXCEPT ![f] = Gone]
  /\ UNCHANGED <<now, task, pass, orphans>>

(* The process ends, or the storage fails when the object is to be deleted *)
(* again: nobody knows of the object any more.                             *)
CutOff(k) ==
  /\ row[k].state = "open"
  /\ Fault
  /\ orphans' = orphans \cup {k}
  /\ row' = [row EXCEPT ![k] = Gone]
  /\ UNCHANGED <<now, object, task, pass>>

-----------------------------------------------------------------------------
(* create_task looks the source up, and commits later.                     *)
CreateBegin(t, f) ==
  /\ task[t].status = "none"
  /\ get(f, now)
  /\ task' = [task EXCEPT ![t].status = "creating", ![t].source = f]
  /\ UNCHANGED <<now, object, row, pass, orphans, faults>>

CreateCommit(t) ==
  /\ task[t].status = "creating"
  /\ task' = [task EXCEPT ![t].status = "pending"]
  /\ UNCHANGED <<now, object, row, pass, orphans, faults>>

Lease(t) ==
  /\ task[t].status = "pending" /\ task[t].attempt < MaximumAttempts
  /\ task[t].token < MaxLeases
  /\ task' = [task EXCEPT ![t].status = "leased", ![t].attempt = @ + 1,
                          ![t].token = @ + 1, ![t].fetched = FALSE,
                          ![t].produced = None]
  /\ UNCHANGED <<now, object, row, pass, orphans, faults>>

(* download_worker_source_file, for the holder of a lease.                 *)
_worker_can_read(t) == task[t].status = "leased"

Fetch(t) ==
  /\ _worker_can_read(t) /\ ~task[t].fetched
  /\ _record(task[t].source)
  /\ task' = [task EXCEPT ![t].fetched = TRUE]
  /\ UNCHANGED <<now, object, row, pass, orphans, faults>>

(* The attempt fails or its lease runs out.                                *)
Release(t) ==
  /\ task[t].status = "leased"
  /\ task' = [task EXCEPT ![t].status = IF task[t].attempt < MaximumAttempts
                                        THEN "pending" ELSE "ended"]
  /\ UNCHANGED <<now, object, row, pass, orphans, faults>>

cancel(t) ==
  /\ Active(t)
  /\ task' = [task EXCEPT ![t].status = "ended"]
  /\ UNCHANGED <<now, object, row, pass, orphans, faults>>

retry(t) ==
  /\ task[t].status = "ended"
  /\ task' = [task EXCEPT ![t].status = "pending", ![t].attempt = 0,
                          ![t].result = None]
  /\ UNCHANGED <<now, object, row, pass, orphans, faults>>

(* The last stage completes with the artifact its worker was answered.     *)
Complete(t) ==
  /\ task[t].status = "leased" /\ task[t].produced # None
  /\ task' = [task EXCEPT ![t].status = "succeeded",
                          ![t].result = task[t].produced]
  /\ UNCHANGED <<now, object, row, pass, orphans, faults>>

-----------------------------------------------------------------------------
(* upload_stage_artifact, first half: authorized by the lease, the object  *)
(* is written under a new key.                                             *)
ArtifactBegin(t, a, c) ==
  /\ task[t].status = "leased" /\ task[t].fetched /\ task[t].produced = None
  /\ row[a].state = "none"
  /\ \A b \in Artifacts : ~(row[b].state = "open" /\ row[b].token = task[t].token
                            /\ row[b].task = t)
  /\ write(a)
  /\ row' = [row EXCEPT ![a] = [NoRow EXCEPT !.state = "open", !.task = t,
                                 !.attempt = task[t].attempt,
                                 !.token = task[t].token, !.digest = c]]
  /\ UNCHANGED <<now, task, pass, orphans, faults>>

authorize_artifact_upload(a) ==
  LET t == row[a].task
  IN task[t].status = "leased" /\ task[t].token = row[a].token

(* The artifact of the same stage, attempt and index.                      *)
get_by_idempotency(a) ==
  {b \in Artifacts : /\ row[b].state = "stored"
                     /\ row[b].task = row[a].task
                     /\ row[b].attempt = row[a].attempt}

ArtifactCommit(a) ==
  /\ row[a].state = "open"
  /\ authorize_artifact_upload(a)
  /\ get_by_idempotency(a) = {}
  /\ row' = [row EXCEPT ![a] = StoredRow(@, now + ArtifactRetention)]
  /\ task' = [task EXCEPT ![row[a].task].produced = a]
  /\ UNCHANGED <<now, object, pass, orphans, faults>>

(* The key has been used: the new object is deleted, and the worker is     *)
(* answered the old artifact, or a conflict when the content is another.   *)
ArtifactKnown(a) ==
  /\ row[a].state = "open"
  /\ authorize_artifact_upload(a)
  /\ \E b \in get_by_idempotency(a) :
       task' = IF row[b].digest = row[a].digest
               THEN [task EXCEPT ![row[a].task].produced = b] ELSE task
  /\ delete(a)
  /\ row' = [row EXCEPT ![a] = Gone]
  /\ UNCHANGED <<now, pass, orphans, faults>>

(* The lease was lost meanwhile, or the database fails.                    *)
ArtifactRefuse(a) ==
  /\ row[a].state = "open"
  /\ \/ ~authorize_artifact_upload(a) /\ UNCHANGED faults
     \/ Fault
  /\ delete(a)
  /\ row' = [row EXCEPT ![a] = Gone]
  /\ UNCHANGED <<now, task, pass, orphans>>

-----------------------------------------------------------------------------
(* run_once: what is in use is read first ... *)
PassBegin(p) ==
  /\ pass[p].state = "idle"
  /\ \E k \in Keys : Expired(k, now)
  /\ pass' = [pass EXCEPT ![p] =
       [Idle EXCEPT !.state = "reading", !.at = now,
                    !.tasks = {t \in Tasks : Active(t)},
                    !.files = {task[t].source : t \in {u \in Tasks : Active(u)}}]]
  /\ UNCHANGED <<now, object, row, task, orphans, faults>>

Older(j, k) ==
  row[j].created < row[k].created \/ (row[j].created = row[k].created /\ j < k)

(* The first BatchSize of a set of rows, oldest first.                     *)
Oldest(K) == {k \in K : Cardinality({j \in K : Older(j, k)}) < BatchSize}

Locked == UNION {pass[p].locked : p \in Passes}

_expired_uploads(p) ==
  Oldest({f \in Files : Expired(f, pass[p].at)} \ Locked)
_expired_artifacts(p) ==
  Oldest({a \in Artifacts : Expired(a, pass[p].at)} \ Locked)

InUse_ignored(p, k) == FALSE
InUse(p, k) ==
  IF k \in Files THEN k \in pass[p].files ELSE row[k].task \in pass[p].tasks

(* ... then the expired rows are selected and locked ...                   *)
PassSelect(p) ==
  /\ pass[p].state = "reading"
  /\ LET found == _expired_uploads(p) \cup _expired_artifacts(p)
     IN pass' = [pass EXCEPT ![p].state = "deleting", ![p].files = {},
                             ![p].locked = found,
                             ![p].todo = {k \in found : ~InUse(p, k)}]
  /\ UNCHANGED <<now, object, row, task, orphans, faults>>

(* ... and a dry run, which the endpoint offers, ends here.                *)
DryRun(p) ==
  /\ p # Loop /\ pass[p].state = "reading"
  /\ pass' = [pass EXCEPT ![p] = Idle]
  /\ UNCHANGED <<now, object, row, task, orphans, faults>>

(* Files before artifacts, each the oldest first.                          *)
First(K, k) ==
  /\ k \in K
  /\ \A j \in K \ {k} : IF (j \in Files) = (k \in Files) THEN Older(k, j)
                        ELSE k \in Files

(* The object is deleted; the row is marked, and result_uri of a task that *)
(* shows it is cleared, in the open transaction.                           *)
PassDelete(p, k) ==
  /\ pass[p].state = "deleting" /\ First(pass[p].todo, k)
  /\ delete(k)
  /\ pass' = [pass EXCEPT ![p].todo = @ \ {k}, ![p].dead = @ \cup {k},
       ![p].nulled = @ \cup {t \in Tasks : task[t].result = k}]
  /\ UNCHANGED <<now, row, task, orphans, faults>>

(* The storage fails: the row is kept for a later pass.                    *)
PassSkip(p, k) ==
  /\ pass[p].state = "deleting" /\ First(pass[p].todo, k)
  /\ Fault
  /\ pass' = [pass EXCEPT ![p].todo = @ \ {k}]
  /\ UNCHANGED <<now, object, row, task, orphans>>

PassCommit(p) ==
  /\ pass[p].state = "deleting" /\ pass[p].todo = {}
  /\ row' = [k \in Keys |-> IF k \in pass[p].dead THEN Gone ELSE row[k]]
  /\ task' = [t \in Tasks |-> IF t \in pass[p].nulled
                              THEN [task[t] EXCEPT !.result = None] ELSE task[t]]
  /\ pass' = [pass EXCEPT ![p] = Idle]
  /\ UNCHANGED <<now, object, orphans, faults>>

(* The database fails or the process ends: the rows are left as they were. *)
PassAbort(p) ==
  /\ pass[p].state # "idle"
  /\ Fault
  /\ pass' = [pass EXCEPT ![p] = Idle]
  /\ UNCHANGED <<now, object, row, task, orphans>>

Tick ==
  /\ now < MaxTime
  /\ now' = now + 1
  /\ UNCHANGED <<object, row, task, pass, orphans, faults>>

-----------------------------------------------------------------------------
Init ==
  /\ now = 1
  /\ object = {} /\ orphans = {} /\ faults = 0
  /\ row = [k \in Keys |-> NoRow]
  /\ task = [t \in Tasks |-> NoTask]
  /\ pass = [p \in Passes |-> Idle]

Next ==
  \/ \E f \in Files : UploadBegin(f) \/ UploadCommit(f) \/ UploadFail(f)
  \/ \E k \in Keys : CutOff(k)
  \/ \E t \in Tasks :
       \/ \E f \in Files : CreateBegin(t, f)
       \/ CreateCommit(t) \/ Lease(t) \/ Fetch(t) \/ Release(t)
       \/ cancel(t) \/ retry(t) \/ Complete(t)
       \/ \E a \in Artifacts, c \in Contents : ArtifactBegin(t, a, c)
  \/ \E a \in Artifacts : ArtifactCommit(a) \/ ArtifactKnown(a) \/ ArtifactRefuse(a)
  \/ \E p \in Passes :
       \/ PassBegin(p) \/ PassSelect(p) \/ DryRun(p) \/ PassCommit(p) \/ PassAbort(p)
       \/ \E k \in Keys : PassDelete(p, k) \/ PassSkip(p, k)
  \/ Tick

Spec == Init /\ [][Next]_vars

(* The loop of the retention service comes round again and again, a pass   *)
(* that has begun runs to its end, and faults are bounded.                 *)
PassStep(p) ==
  \/ PassSelect(p) \/ PassCommit(p)
  \/ \E k \in Keys : PassDelete(p, k)

FairSpec ==
  Spec /\ WF_vars(PassBegin(Loop)) /\ \A p \in Passes : WF_vars(PassStep(p))

-----------------------------------------------------------------------------
TypeOK ==
  /\ now \in Nat /\ faults \in Nat
  /\ object \subseteq Keys /\ orphans \subseteq Keys
  /\ row \in [Keys -> Rows]
  /\ task \in [Tasks -> TaskRows]
  /\ pass \in [Passes -> PassStates]

(* What is shown can be downloaded, whatever uploads and passes are cut    *)
(* off: an upload that has an expiry, every artifact that a task lists and *)
(* the primary result of a task, as long as it is among them.              *)
ReadableHaveObjects ==
  /\ \A f \in Files : get(f, now) /\ row[f].expires # 0 => _record(f)
  /\ \A t \in Tasks :
       /\ \A a \in list_task_artifacts(t) :
            download_task_artifact(t, a) /\ create_task_artifact_download_url(t, a)
       /\ task[t].status = "succeeded" /\ task[t].result \in list_task_artifacts(t)
            => get_task_result(t)

(* No object is forgotten: it has its row, an upload that is still open,   *)
(* or its request was cut off.                                             *)
NoLeakedObjects ==
  \A k \in object : row[k].state \in {"open", "stored"} \/ k \in orphans

(* Rows and objects agree although no transaction spans both: what is      *)
(* shown can be downloaded, and what is stored is known of, wherever an    *)
(* upload or a retention pass is cut off (upload_file, upload_stage_       *)
(* artifact, run_once).                                                    *)
RowsAndObjectsAgree == ReadableHaveObjects /\ NoLeakedObjects

(* A pass takes the source of no task that was active when the pass began: *)
(* only one that has become active since, by create_task or retry_task,    *)
(* can lose its upload to it.                                              *)
InUseKept ==
  [][\A f \in Files, t \in Tasks :
       f \in object \ object' /\ Active(t) /\ task[t].source = f
         => \E p \in Passes : pass[p].state = "deleting" /\ t \notin pass[p].tasks]_vars

(* What has expired and is not in use goes in the end, row and object,     *)
(* though passes are aborted between the two.                              *)
ExpiredGo ==
  \A f \in Files :
    Expired(f, now) /\ (\A t \in Tasks : task[t].source # f)
      ~> (row[f].state = "gone" /\ f \notin object)
           \/ \E t \in Tasks : task[t].source = f
=============================================================================
