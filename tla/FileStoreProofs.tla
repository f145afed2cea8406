--------------------------- MODULE FileStoreProofs ---------------------------
(***************************************************************************)
(* Theorems about FileStore: for any files, artifacts, tasks, passes and   *)
(* retention times, rows and objects agree wherever an upload or a         *)
(* retention pass is cut off, and a pass keeps what was in use when it     *)
(* began.                                                                  *)
(***************************************************************************)
EXTENDS FileStore, TLAPS

(* What the store knows of the object of a key, given its row.             *)
KeySound(k) ==
  /\ row[k].state = "open" => k \in object
  /\ row[k].state = "stored" /\ k \notin object => Expired(k, now)
  /\ row[k].state = "stored" /\ k \in Artifacts => row[k].expires # 0
  /\ k \in object => row[k].state \in {"open", "stored"} \/ k \in orphans

(* What a task reads was stored once.                                      *)
SourceSound(t) ==
  task[t].status # "none" =>
    task[t].source \in Files /\ row[task[t].source].state \in {"stored", "gone"}

(* A pass holds locked what had expired when it began, has deleted the     *)
(* objects whose rows it is going to mark, and knows the sources of the    *)
(* tasks that it found active.                                             *)
PassSound(p) ==
  /\ pass[p].at <= now
  /\ pass[p].state # "deleting" =>
       pass[p].locked = {} /\ pass[p].todo = {} /\ pass[p].dead = {}
  /\ pass[p].todo \subseteq pass[p].locked /\ pass[p].dead \subseteq pass[p].locked
  /\ \A k \in pass[p].locked : Expired(k, pass[p].at)
  /\ pass[p].dead \cap object = {}
  /\ \A t \in pass[p].tasks :
       /\ task[t].status # "none"
       /\ pass[p].state = "reading" => task[t].source \in pass[p].files
       /\ task[t].source \notin pass[p].todo

(* Two passes hold no row both: SKIP LOCKED.                               *)
LocksExclusive ==
  \A p, q \in Passes : p # q => pass[p].locked \cap pass[q].locked = {}

StoreInv ==
  /\ TypeOK
  /\ \A k \in Keys : KeySound(k)
  /\ \A t \in Tasks : SourceSound(t)
  /\ \A p \in Passes : PassSound(p)
  /\ LocksExclusive

LEMMA InitInv == Init => StoreInv
<1>1. NoRow \in Rows /\ NoTask \in TaskRows /\ Idle \in PassStates
  BY DEF NoRow, Rows, NoTask, TaskRows, Idle, PassStates
<1>. SUFFICES ASSUME Init PROVE StoreInv
  OBVIOUS
<1>2. TypeOK
  BY <1>1 DEF Init, TypeOK
<1>3. \A k \in Keys : KeySound(k)
  BY DEF Init, KeySound, NoRow
<1>4. \A t \in Tasks : SourceSound(t)
  BY DEF Init, SourceSound, NoTask
<1>5. \A p \in Passes : PassSound(p)
  BY DEF Init, PassSound, Idle
<1>6. LocksExclusive
  BY DEF Init, LocksExclusive, Idle
<1>. QED
  BY <1>2, <1>3, <1>4, <1>5, <1>6 DEF StoreInv

-----------------------------------------------------------------------------
(* Types. *)

LEMMA StoredRowType ==
  ASSUME NEW r \in Rows, now \in Nat, NEW expires \in Nat
  PROVE  StoredRow(r, expires) \in Rows
BY DEF StoredRow, Rows

LEMMA GoneType == Gone \in Rows
BY DEF Gone, NoRow, Rows

(* A step that writes a row, and perhaps objects.                          *)
LEMMA RowWritten ==
  ASSUME TypeOK, NEW k \in Keys, NEW r \in Rows, row' = [row EXCEPT ![k] = r],
         now' = now, faults' \in Nat, object' \subseteq Keys, orphans' \subseteq Keys,
         task' \in [Tasks -> TaskRows], pass' = pass
  PROVE  TypeOK'
BY DEF TypeOK

LEMMA FaultType ==
  ASSUME TypeOK, Fault \/ UNCHANGED faults
  PROVE  faults' \in Nat
BY DEF TypeOK, Fault

LEMMA UploadTypes ==
  ASSUME StoreInv, NEW k \in Keys
  PROVE  /\ k \in Files /\ UploadBegin(k) => TypeOK'
         /\ k \in Files /\ UploadCommit(k) => TypeOK'
         /\ k \in Files /\ UploadFail(k) => TypeOK'
         /\ CutOff(k) => TypeOK'
<1>0. TypeOK /\ row[k] \in Rows
  BY DEF StoreInv, TypeOK
<1>1. ASSUME UploadBegin(k)
      PROVE  TypeOK'
  <2>1. [row[k] EXCEPT !.state = "open"] \in Rows
    BY <1>0 DEF Rows
  <2>2. row' = [row EXCEPT ![k] = [row[k] EXCEPT !.state = "open"]]
    BY <1>1 DEF UploadBegin
  <2> QED BY <1>0, <1>1, <2>1, <2>2, RowWritten DEF UploadBegin, write, TypeOK
<1>2. ASSUME UploadCommit(k)
      PROVE  TypeOK'
  <2>1. PICK expires \in {0, now + FileRetention} :
          row' = [row EXCEPT ![k] = StoredRow(row[k], expires)]
    BY <1>2 DEF UploadCommit
  <2>2. expires \in Nat /\ now \in Nat
    BY <1>0, NumbersAssumption DEF TypeOK
  <2>3. StoredRow(row[k], expires) \in Rows
    BY <1>0, <2>2, StoredRowType
  <2> QED BY <1>0, <1>2, <2>1, <2>3, RowWritten DEF UploadCommit, TypeOK
<1>3. ASSUME UploadFail(k)
      PROVE  TypeOK'
  BY <1>0, <1>3, GoneType, RowWritten, FaultType DEF UploadFail, delete, TypeOK
<1>4. ASSUME CutOff(k)
      PROVE  TypeOK'
  BY <1>0, <1>4, GoneType, RowWritten, FaultType DEF CutOff, TypeOK
<1> QED BY <1>1, <1>2, <1>3, <1>4

(* A step that writes a task row only.                                     *)
LEMMA TaskTypes ==
  ASSUME StoreInv, NEW t \in Tasks
  PROVE  /\ \A f \in Files : CreateBegin(t, f) => TypeOK'
         /\ CreateCommit(t) \/ Lease(t) \/ Fetch(t) \/ Release(t)
              \/ cancel(t) \/ retry(t) \/ Complete(t) => TypeOK'
<1>0. TypeOK /\ task \in [Tasks -> TaskRows] /\ task[t] \in TaskRows
  BY DEF StoreInv, TypeOK
<1>1. ASSUME NEW q \in TaskRows, task' = [task EXCEPT ![t] = q],
             UNCHANGED <<now, object, row, pass, orphans, faults>>
      PROVE  TypeOK'
  BY <1>0, <1>1 DEF TypeOK
<1>2. ASSUME NEW f \in Files, CreateBegin(t, f)
      PROVE  TypeOK'
  <2> DEFINE q == [task[t] EXCEPT !.status = "creating", !.source = f]
  <2>1. q \in TaskRows
    BY <1>0 DEF TaskRows
  <2>2. task' = [task EXCEPT ![t] = q]
    BY <1>0, <1>2 DEF CreateBegin
  <2> HIDE DEF q
  <2> QED BY <1>1, <1>2, <2>1, <2>2 DEF CreateBegin
<1>3. ASSUME CreateCommit(t)
      PROVE  TypeOK'
  <2>1. [task[t] EXCEPT !.status = "pending"] \in TaskRows
    BY <1>0 DEF TaskRows
  <2> QED BY <1>1, <1>3, <2>1 DEF CreateCommit
<1>4. ASSUME Lease(t)
      PROVE  TypeOK'
  <2> DEFINE n == task[t].attempt + 1
             k == task[t].token + 1
             q == [task[t] EXCEPT !.status = "leased", !.attempt = n, !.token = k,
                                  !.fetched = FALSE, !.produced = None]
  <2>0. n \in Nat /\ k \in Nat
    BY <1>0 DEF TaskRows
  <2>1. q \in TaskRows
    <3> HIDE DEF n, k
    <3> QED BY <1>0, <2>0 DEF TaskRows
  <2>2. task' = [task EXCEPT ![t] = q]
    BY <1>0, <1>4 DEF Lease
  <2> HIDE DEF q
  <2> QED BY <1>1, <1>4, <2>1, <2>2 DEF Lease
<1>5. ASSUME Fetch(t)
      PROVE  TypeOK'
  <2>1. [task[t] EXCEPT !.fetched = TRUE] \in TaskRows
    BY <1>0 DEF TaskRows
  <2> QED BY <1>1, <1>5, <2>1 DEF Fetch
<1>6. ASSUME Release(t)
      PROVE  TypeOK'
  <2> DEFINE x == IF task[t].attempt < MaximumAttempts THEN "pending" ELSE "ended"
  <2>1. [task[t] EXCEPT !.status = x] \in TaskRows
    BY <1>0 DEF TaskRows
  <2>2. task' = [task EXCEPT ![t] = [task[t] EXCEPT !.status = x]]
    BY <1>6 DEF Release
  <2> HIDE DEF x
  <2> QED BY <1>1, <1>6, <2>1, <2>2 DEF Release
<1>7. ASSUME cancel(t)
      PROVE  TypeOK'
  <2>1. [task[t] EXCEPT !.status = "ended"] \in TaskRows
    BY <1>0 DEF TaskRows
  <2> QED BY <1>1, <1>7, <2>1 DEF cancel
<1>8. ASSUME retry(t)
      PROVE  TypeOK'
  <2> DEFINE q == [task[t] EXCEPT !.status = "pending", !.attempt = 0, !.result = None]
  <2>1. q \in TaskRows
    BY <1>0 DEF TaskRows
  <2>2. task' = [task EXCEPT ![t] = q]
    BY <1>0, <1>8 DEF retry
  <2> HIDE DEF q
  <2> QED BY <1>1, <1>8, <2>1, <2>2 DEF retry
<1>9. ASSUME Complete(t)
      PROVE  TypeOK'
  <2> DEFINE q == [task[t] EXCEPT !.status = "succeeded", !.result = task[t].produced]
  <2>1. q \in TaskRows
    BY <1>0 DEF TaskRows
  <2>2. task' = [task EXCEPT ![t] = q]
    BY <1>0, <1>9 DEF Complete
  <2> HIDE DEF q
  <2> QED BY <1>1, <1>9, <2>1, <2>2 DEF Complete
<1> QED BY <1>2, <1>3, <1>4, <1>5, <1>6, <1>7, <1>8, <1>9

LEMMA ArtifactTypes ==
  ASSUME StoreInv, NEW a \in Artifacts
  PROVE  /\ \A t \in Tasks, c \in Contents : ArtifactBegin(t, a, c) => TypeOK'
         /\ ArtifactCommit(a) \/ ArtifactKnown(a) \/ ArtifactRefuse(a) => TypeOK'
<1>0. TypeOK /\ row[a] \in Rows /\ a \in Keys /\ task \in [Tasks -> TaskRows]
      /\ now \in Nat
  BY DEF StoreInv, TypeOK, Keys
<1>1. ASSUME NEW t, NEW b \in Artifacts, task' = [task EXCEPT ![t].produced = b]
      PROVE  task' \in [Tasks -> TaskRows]
  <2>1. \A u \in Tasks : [task[u] EXCEPT !.produced = b] \in TaskRows
    BY <1>0 DEF TaskRows
  <2> QED BY <1>0, <1>1, <2>1
<1>2. ASSUME NEW t \in Tasks, NEW c \in Contents, ArtifactBegin(t, a, c)
      PROVE  TypeOK'
  <2> DEFINE r == [NoRow EXCEPT !.state = "open", !.task = t,
                                !.attempt = task[t].attempt,
                                !.token = task[t].token, !.digest = c]
  <2>0. task[t].attempt \in Nat /\ task[t].token \in Nat
    BY <1>0 DEF TaskRows
  <2>1. r \in Rows
    BY <2>0 DEF NoRow, Rows
  <2>2. row' = [row EXCEPT ![a] = r]
    BY <1>2 DEF ArtifactBegin
  <2> HIDE DEF r
  <2> QED BY <1>0, <1>2, <2>1, <2>2, RowWritten DEF ArtifactBegin, write, TypeOK
<1>3. ASSUME ArtifactCommit(a)
      PROVE  TypeOK'
  <2>1. now + ArtifactRetention \in Nat
    BY <1>0, NumbersAssumption
  <2>2. StoredRow(row[a], now + ArtifactRetention) \in Rows
    BY <1>0, <2>1, StoredRowType
  <2>3. task' \in [Tasks -> TaskRows]
    BY <1>1, <1>3 DEF ArtifactCommit
  <2> QED BY <1>0, <1>3, <2>2, <2>3, RowWritten DEF ArtifactCommit, TypeOK
<1>4. ASSUME ArtifactKnown(a)
      PROVE  TypeOK'
  <2>1. PICK b \in get_by_idempotency(a) :
          \/ task' = task
          \/ task' = [task EXCEPT ![row[a].task].produced = b]
    BY <1>4 DEF ArtifactKnown
  <2>2. b \in Artifacts
    BY DEF get_by_idempotency
  <2>3. task' \in [Tasks -> TaskRows]
    BY <1>0, <1>1, <2>1, <2>2
  <2> QED BY <1>0, <1>4, <2>3, GoneType, RowWritten DEF ArtifactKnown, delete, TypeOK
<1>5. ASSUME ArtifactRefuse(a)
      PROVE  TypeOK'
  BY <1>0, <1>5, GoneType, RowWritten, FaultType DEF ArtifactRefuse, delete, TypeOK
<1> QED BY <1>2, <1>3, <1>4, <1>5

(* A step that writes the memory of a pass, and perhaps objects.           *)
LEMMA PassTypes ==
  ASSUME StoreInv, NEW p \in Passes
  PROVE  /\ PassBegin(p) \/ PassSelect(p) \/ DryRun(p)
              \/ PassCommit(p) \/ PassAbort(p) => TypeOK'
         /\ \A k \in Keys : PassDelete(p, k) \/ PassSkip(p, k) => TypeOK'
<1>0. /\ TypeOK /\ pass \in [Passes -> PassStates] /\ pass[p] \in PassStates
      /\ now \in Nat
  BY DEF StoreInv, TypeOK
<1>1. ASSUME NEW q \in PassStates, pass' = [pass EXCEPT ![p] = q],
             now' = now, row' \in [Keys -> Rows], task' \in [Tasks -> TaskRows],
             object' \subseteq Keys, orphans' = orphans, faults' \in Nat
      PROVE  TypeOK'
  BY <1>0, <1>1 DEF TypeOK
<1>2. Idle \in PassStates
  BY DEF Idle, PassStates
<1>3. ASSUME PassBegin(p)
      PROVE  TypeOK'
  <2> DEFINE T == {t \in Tasks : Active(t)}
             F == {task[t].source : t \in {u \in Tasks : Active(u)}}
             q == [Idle EXCEPT !.state = "reading", !.at = now, !.tasks = T, !.files = F]
  <2>1. T \in SUBSET Tasks
    OBVIOUS
  <2>2. F \in SUBSET Files
    BY DEF StoreInv, SourceSound, Active, _ACTIVE_TASK_STATUSES
  <2>3. pass' = [pass EXCEPT ![p] = q]
    BY <1>3 DEF PassBegin
  <2> HIDE DEF T, F
  <2>4. q \in PassStates
    BY <1>0, <2>1, <2>2 DEF Idle, PassStates
  <2> HIDE DEF q
  <2> QED BY <1>0, <1>1, <1>3, <2>3, <2>4 DEF PassBegin, TypeOK
<1>4. ASSUME PassSelect(p)
      PROVE  TypeOK'
  <2> DEFINE found == _expired_uploads(p) \cup _expired_artifacts(p)
             todo == {k \in found : ~InUse(p, k)}
             q == [pass[p] EXCEPT !.state = "deleting", !.files = {},
                                  !.locked = found, !.todo = todo]
  <2>1. found \in SUBSET Keys /\ todo \in SUBSET Keys
    BY DEF _expired_uploads, _expired_artifacts, Oldest, Keys
  <2>2. pass' = [pass EXCEPT ![p] = q]
    BY <1>0, <1>4 DEF PassSelect
  <2> HIDE DEF found, todo
  <2>3. q \in PassStates
    BY <1>0, <2>1 DEF PassStates
  <2> HIDE DEF q
  <2> QED BY <1>0, <1>1, <1>4, <2>2, <2>3 DEF PassSelect, TypeOK
<1>5. ASSUME DryRun(p)
      PROVE  TypeOK'
  BY <1>0, <1>1, <1>2, <1>5 DEF DryRun, TypeOK
<1>6. ASSUME PassCommit(p)
      PROVE  TypeOK'
  <2>1. row' \in [Keys -> Rows]
    BY <1>0, <1>6, GoneType DEF PassCommit, TypeOK
  <2>2. task' \in [Tasks -> TaskRows]
    <3>1. \A t \in Tasks : [task[t] EXCEPT !.result = None] \in TaskRows
      BY <1>0 DEF TypeOK, TaskRows
    <3> QED BY <1>0, <1>6, <3>1 DEF PassCommit, TypeOK
  <2> QED BY <1>0, <1>1, <1>2, <1>6, <2>1, <2>2 DEF PassCommit, TypeOK
<1>7. ASSUME PassAbort(p)
      PROVE  TypeOK'
  BY <1>0, <1>1, <1>2, <1>7, FaultType DEF PassAbort, TypeOK
<1>8. ASSUME NEW k \in Keys, PassDelete(p, k)
      PROVE  TypeOK'
  <2> DEFINE todo == pass[p].todo \ {k}
             dead == pass[p].dead \cup {k}
             nulled == pass[p].nulled \cup {t \in Tasks : task[t].result = k}
             q == [pass[p] EXCEPT !.todo = todo, !.dead = dead, !.nulled = nulled]
  <2>1. todo \in SUBSET Keys /\ dead \in SUBSET Keys /\ nulled \in SUBSET Tasks
    BY <1>0 DEF PassStates
  <2>2. pass' = [pass EXCEPT ![p] = q]
    BY <1>0, <1>8 DEF PassDelete
  <2> HIDE DEF todo, dead, nulled
  <2>3. q \in PassStates
    BY <1>0, <2>1 DEF PassStates
  <2> HIDE DEF q
  <2> QED BY <1>0, <1>1, <1>8, <2>2, <2>3 DEF PassDelete, delete, TypeOK
<1>9. ASSUME NEW k \in Keys, PassSkip(p, k)
      PROVE  TypeOK'
  <2> DEFINE q == [pass[p] EXCEPT !.todo = @ \ {k}]
  <2>1. q \in PassStates
    BY <1>0 DEF PassStates
  <2>2. pass' = [pass EXCEPT ![p] = q]
    BY <1>0, <1>9 DEF PassSkip
  <2> HIDE DEF q
  <2> QED BY <1>0, <1>1, <1>9, <2>1, <2>2, FaultType DEF PassSkip, TypeOK
<1> QED BY <1>3, <1>4, <1>5, <1>6, <1>7, <1>8, <1>9

LEMMA StepTypes ==
  ASSUME StoreInv, Next
  PROVE  TypeOK'
<1>1. CASE Tick
  BY <1>1 DEF Tick, StoreInv, TypeOK
<1> QED
  BY <1>1, UploadTypes, TaskTypes, ArtifactTypes, PassTypes DEF Next, Keys

-----------------------------------------------------------------------------
(* Steps, conjunct by conjunct. *)

(* What has expired stays so, and is a stored row.                         *)
LEMMA ExpiredLater ==
  ASSUME TypeOK, NEW k \in Keys, NEW m \in Nat, NEW n \in Nat, m <= n, Expired(k, m)
  PROVE  Expired(k, n) /\ row[k].state = "stored"
<1>1. row[k].expires \in Nat /\ row[k].created \in Nat
  BY DEF TypeOK, Rows
<1>2. Retention(k) \in Nat
  BY NumbersAssumption DEF Retention
<1> QED BY <1>1, <1>2 DEF Expired

LEMMA PassFacts ==
  ASSUME StoreInv, NEW p \in Passes
  PROVE  /\ pass[p].at \in Nat /\ pass[p].at <= now /\ now \in Nat
         /\ pass[p].locked \subseteq Keys /\ pass[p].tasks \subseteq Tasks
         /\ pass[p].todo \subseteq Keys /\ pass[p].dead \subseteq Keys
         /\ PassSound(p)
BY DEF StoreInv, TypeOK, PassStates, PassSound

(* A step that writes the row of one key, which is being uploaded: tasks   *)
(* and passes have nothing to do with it yet.                              *)
LEMMA RowStep ==
  ASSUME StoreInv, TypeOK', NEW k \in Keys, row[k].state \in {"none", "open"},
         \A j \in Keys \ {k} : row'[j] = row[j] /\ (j \in object' <=> j \in object),
         pass' = pass, now' = now, orphans \subseteq orphans',
         \A t \in Tasks : /\ task'[t].status = task[t].status
                          /\ task'[t].source = task[t].source,
         KeySound(k)'
  PROVE  StoreInv'
<1>1. ASSUME NEW j \in Keys
      PROVE  KeySound(j)'
  <2>1. CASE j # k
    BY <2>1 DEF StoreInv, KeySound, Expired, Retention
  <2> QED BY <2>1
<1>2. ASSUME NEW t \in Tasks
      PROVE  SourceSound(t)'
  BY DEF StoreInv, SourceSound, Keys
<1>3. ASSUME NEW p \in Passes
      PROVE  PassSound(p)'
  <2>1. k \notin pass[p].locked
    BY PassFacts DEF PassSound, Expired
  <2>2. \A j \in pass[p].locked : Expired(j, pass[p].at)'
    BY <2>1, PassFacts DEF PassSound, Expired, Retention
  <2>3. pass[p].dead \cap object' = {}
    BY <2>1, PassFacts DEF PassSound
  <2> QED BY <2>2, <2>3, PassFacts DEF PassSound
<1>4. LocksExclusive'
  BY DEF StoreInv, LocksExclusive
<1> QED BY <1>1, <1>2, <1>3, <1>4 DEF StoreInv

(* A step that writes task rows only: a task keeps its source, and begins  *)
(* with one that is stored.                                                *)
LEMMA TaskStep ==
  ASSUME StoreInv, TypeOK', UNCHANGED <<now, object, row, pass, orphans>>,
         \A t \in Tasks :
           \/ /\ task[t].status # "none" => task'[t].status # "none"
              /\ task'[t].source = task[t].source
              /\ task[t].status = "none" => task'[t].status = "none"
           \/ /\ task[t].status = "none" /\ task'[t].status # "none"
              /\ task'[t].source \in Files /\ row[task'[t].source].state = "stored"
  PROVE  StoreInv'
<1>1. ASSUME NEW j \in Keys
      PROVE  KeySound(j)'
  BY DEF StoreInv, KeySound, Expired, Retention
<1>2. ASSUME NEW t \in Tasks
      PROVE  SourceSound(t)'
  BY DEF StoreInv, SourceSound
<1>3. ASSUME NEW p \in Passes
      PROVE  PassSound(p)'
  <2>1. \A j \in pass[p].locked : Expired(j, pass[p].at)'
    BY PassFacts DEF PassSound, Expired, Retention
  <2>2. \A t \in pass[p].tasks :
          task[t].status # "none" /\ task'[t].status # "none"
            /\ task'[t].source = task[t].source
    BY PassFacts DEF PassSound
  <2> QED BY <2>1, <2>2, PassFacts DEF PassSound
<1>4. LocksExclusive'
  BY DEF StoreInv, LocksExclusive
<1> QED BY <1>1, <1>2, <1>3, <1>4 DEF StoreInv

(* A step of one pass that writes no row: what it deletes had expired.     *)
LEMMA PassStepInv ==
  ASSUME StoreInv, TypeOK', UNCHANGED <<now, row, task, orphans>>,
         NEW p \in Passes, \A q \in Passes \ {p} : pass'[q] = pass[q],
         object' \subseteq object,
         \A k \in object \ object' : Expired(k, now),
         PassSound(p)',
         \A k \in pass'[p].locked : k \in pass[p].locked \/ k \notin Locked
  PROVE  StoreInv'
<1>1. ASSUME NEW j \in Keys
      PROVE  KeySound(j)'
  BY DEF StoreInv, KeySound, Expired, Retention
<1>2. ASSUME NEW t \in Tasks
      PROVE  SourceSound(t)'
  BY DEF StoreInv, SourceSound
<1>3. ASSUME NEW q \in Passes
      PROVE  PassSound(q)'
  <2>1. CASE q # p
    <3>1. \A j \in pass[q].locked : Expired(j, pass[q].at)'
      BY <2>1, PassFacts DEF PassSound, Expired, Retention
    <3> QED BY <2>1, <3>1, PassFacts DEF PassSound
  <2> QED BY <2>1
<1>4. LocksExclusive'
  BY DEF StoreInv, LocksExclusive, Locked
<1> QED BY <1>1, <1>2, <1>3, <1>4 DEF StoreInv

LEMMA UploadSteps ==
  ASSUME StoreInv, Next, NEW k \in Keys,
         \/ k \in Files /\ (UploadBegin(k) \/ UploadCommit(k) \/ UploadFail(k))
         \/ CutOff(k)
  PROVE  StoreInv'
<1>0. /\ TypeOK' /\ TypeOK /\ row \in [Keys -> Rows] /\ row[k] \in Rows /\ now \in Nat
      /\ KeySound(k)
  BY StepTypes DEF StoreInv, TypeOK
<1>1. CASE k \in Files /\ UploadBegin(k)
  <2>1. row'[k].state = "open"
    BY <1>0, <1>1 DEF UploadBegin, Rows
  <2>2. KeySound(k)'
    BY <1>1, <2>1 DEF UploadBegin, write, KeySound
  <2> QED BY <1>0, <1>1, <2>2, RowStep DEF UploadBegin, write
<1>2. CASE k \in Files /\ UploadCommit(k)
  <2>1. row'[k].state = "stored" /\ k \in object /\ k \notin Artifacts
    BY <1>0, <1>2, KeysAssumption DEF UploadCommit, StoredRow, Rows, KeySound, Keys
  <2>2. KeySound(k)'
    BY <1>2, <2>1 DEF UploadCommit, KeySound
  <2> QED BY <1>0, <1>2, <2>2, RowStep DEF UploadCommit
<1>3. CASE k \in Files /\ UploadFail(k)
  <2>1. row'[k].state = "gone"
    BY <1>0, <1>3 DEF UploadFail, Gone, NoRow
  <2>2. KeySound(k)'
    BY <1>3, <2>1 DEF UploadFail, delete, KeySound
  <2> QED BY <1>0, <1>3, <2>2, RowStep DEF UploadFail, delete
<1>4. CASE CutOff(k)
  <2>1. row'[k].state = "gone"
    BY <1>0, <1>4 DEF CutOff, Gone, NoRow
  <2>2. KeySound(k)'
    BY <1>4, <2>1 DEF CutOff, KeySound
  <2> QED BY <1>0, <1>4, <2>2, RowStep DEF CutOff
<1> QED BY <1>1, <1>2, <1>3, <1>4

LEMMA ArtifactSteps ==
  ASSUME StoreInv, Next, NEW a \in Artifacts,
         \/ \E t \in Tasks, c \in Contents : ArtifactBegin(t, a, c)
         \/ ArtifactCommit(a) \/ ArtifactKnown(a) \/ ArtifactRefuse(a)
  PROVE  StoreInv'
<1>0. /\ TypeOK' /\ TypeOK /\ row \in [Keys -> Rows] /\ row[a] \in Rows /\ now \in Nat
      /\ KeySound(a) /\ a \in Keys /\ task \in [Tasks -> TaskRows]
  BY StepTypes DEF StoreInv, TypeOK, Keys
<1>1. ASSUME NEW t, NEW b, task' = [task EXCEPT ![t].produced = b]
      PROVE  \A u \in Tasks : /\ task'[u].status = task[u].status
                              /\ task'[u].source = task[u].source
  BY <1>0, <1>1 DEF TaskRows
<1>2. ASSUME NEW t \in Tasks, NEW c \in Contents, ArtifactBegin(t, a, c)
      PROVE  StoreInv'
  <2>1. row'[a].state = "open"
    BY <1>0, <1>2 DEF ArtifactBegin, NoRow
  <2>2. KeySound(a)'
    BY <1>2, <2>1 DEF ArtifactBegin, write, KeySound
  <2> QED BY <1>0, <1>2, <2>2, RowStep DEF ArtifactBegin, write
<1>3. CASE ArtifactCommit(a)
  <2>0. now + ArtifactRetention \in Nat \ {0}
    BY <1>0, NumbersAssumption
  <2>1. row'[a].state = "stored" /\ row'[a].expires # 0 /\ a \in object
    BY <1>0, <1>3, <2>0 DEF ArtifactCommit, StoredRow, Rows, KeySound
  <2>2. KeySound(a)'
    BY <1>3, <2>1 DEF ArtifactCommit, KeySound
  <2>3. \A u \in Tasks : /\ task'[u].status = task[u].status
                         /\ task'[u].source = task[u].source
    BY <1>1, <1>3 DEF ArtifactCommit
  <2> QED BY <1>0, <1>3, <2>2, <2>3, RowStep DEF ArtifactCommit
<1>4. CASE ArtifactKnown(a)
  <2>1. row'[a].state = "gone"
    BY <1>0, <1>4 DEF ArtifactKnown, Gone, NoRow
  <2>2. KeySound(a)'
    BY <1>4, <2>1 DEF ArtifactKnown, delete, KeySound
  <2>3. \A u \in Tasks : /\ task'[u].status = task[u].status
                         /\ task'[u].source = task[u].source
    BY <1>1, <1>4 DEF ArtifactKnown
  <2> QED BY <1>0, <1>4, <2>2, <2>3, RowStep DEF ArtifactKnown, delete
<1>5. CASE ArtifactRefuse(a)
  <2>1. row'[a].state = "gone"
    BY <1>0, <1>5 DEF ArtifactRefuse, Gone, NoRow
  <2>2. KeySound(a)'
    BY <1>5, <2>1 DEF ArtifactRefuse, delete, KeySound
  <2> QED BY <1>0, <1>5, <2>2, RowStep DEF ArtifactRefuse, delete
<1> QED BY <1>2, <1>3, <1>4, <1>5

LEMMA TaskSteps ==
  ASSUME StoreInv, Next, NEW t \in Tasks,
         \/ \E f \in Files : CreateBegin(t, f)
         \/ CreateCommit(t) \/ Lease(t) \/ Fetch(t) \/ Release(t)
         \/ cancel(t) \/ retry(t) \/ Complete(t)
  PROVE  StoreInv'
<1>0. TypeOK' /\ task \in [Tasks -> TaskRows] /\ task[t] \in TaskRows
  BY StepTypes DEF StoreInv, TypeOK
<1>1. UNCHANGED <<now, object, row, pass, orphans>>
  BY DEF CreateBegin, CreateCommit, Lease, Fetch, Release, cancel, retry, Complete
<1>2. \A u \in Tasks \ {t} : task'[u] = task[u]
  BY <1>0 DEF CreateBegin, CreateCommit, Lease, Fetch, Release, cancel, retry, Complete
<1>3. ASSUME NEW f \in Files, CreateBegin(t, f)
      PROVE  StoreInv'
  <2>1. task[t].status = "none" /\ task'[t].status = "creating" /\ task'[t].source = f
        /\ row[f].state = "stored"
    BY <1>0, <1>3 DEF CreateBegin, get, TaskRows
  <2> QED BY <1>0, <1>1, <1>2, <2>1, TaskStep
<1>4. ASSUME task[t].status # "none", task'[t].status # "none",
             task'[t].source = task[t].source
      PROVE  StoreInv'
  BY <1>0, <1>1, <1>2, <1>4, TaskStep
<1>5. CASE CreateCommit(t)
  BY <1>0, <1>4, <1>5 DEF CreateCommit, TaskRows
<1>6. CASE Lease(t)
  BY <1>0, <1>4, <1>6 DEF Lease, TaskRows
<1>7. CASE Fetch(t)
  BY <1>0, <1>4, <1>7 DEF Fetch, _worker_can_read, TaskRows
<1>8. CASE Release(t)
  BY <1>0, <1>4, <1>8 DEF Release, TaskRows
<1>9. CASE cancel(t)
  BY <1>0, <1>4, <1>9 DEF cancel, Active, _ACTIVE_TASK_STATUSES, TaskRows
<1>10. CASE retry(t)
  BY <1>0, <1>4, <1>10 DEF retry, TaskRows
<1>11. CASE Complete(t)
  BY <1>0, <1>4, <1>11 DEF Complete, TaskRows
<1> QED BY <1>3, <1>5, <1>6, <1>7, <1>8, <1>9, <1>10, <1>11

LEMMA PassSteps ==
  ASSUME StoreInv, Next, NEW p \in Passes,
         \/ PassBegin(p) \/ PassSelect(p) \/ DryRun(p) \/ PassAbort(p)
         \/ \E k \in Keys : PassDelete(p, k) \/ PassSkip(p, k)
  PROVE  StoreInv'
<1>0. /\ TypeOK' /\ TypeOK /\ pass \in [Passes -> PassStates] /\ pass[p] \in PassStates
      /\ now \in Nat
  BY StepTypes DEF StoreInv, TypeOK
<1>1. /\ UNCHANGED <<now, row, task, orphans>>
      /\ \A q \in Passes \ {p} : pass'[q] = pass[q]
  BY <1>0 DEF PassBegin, PassSelect, DryRun, PassAbort, PassDelete, PassSkip
<1>2. \A k \in Keys, n \in Nat : Expired(k, n) => Expired(k, n)'
  BY <1>1 DEF Expired, Retention
<1>3. ASSUME pass'[p] = Idle, object' = object
      PROVE  StoreInv'
  <2>1. PassSound(p)'
    BY <1>0, <1>1, <1>3 DEF PassSound, Idle
  <2> QED BY <1>0, <1>1, <1>3, <2>1, PassStepInv DEF Idle
<1>4. CASE PassBegin(p)
  <2>1. /\ pass'[p].state = "reading" /\ pass'[p].at = now
        /\ pass'[p].tasks = {t \in Tasks : Active(t)}
        /\ pass'[p].files = {task[t].source : t \in {u \in Tasks : Active(u)}}
        /\ pass'[p].locked = {} /\ pass'[p].todo = {} /\ pass'[p].dead = {}
    BY <1>0, <1>4 DEF PassBegin, Idle
  <2>2. \A t \in Tasks : Active(t) => task[t].status # "none"
    BY DEF Active, _ACTIVE_TASK_STATUSES
  <2>3. PassSound(p)'
    BY <1>0, <1>1, <2>1, <2>2 DEF PassSound
  <2> QED BY <1>0, <1>1, <1>4, <2>1, <2>3, PassStepInv DEF PassBegin
<1>5. CASE PassSelect(p)
  <2> DEFINE found == _expired_uploads(p) \cup _expired_artifacts(p)
  <2>1. /\ pass[p].state = "reading" /\ pass'[p].state = "deleting"
        /\ pass'[p].at = pass[p].at /\ pass'[p].tasks = pass[p].tasks
        /\ pass'[p].dead = pass[p].dead
        /\ pass'[p].locked = found
        /\ pass'[p].todo = {k \in found : ~InUse(p, k)}
    BY <1>0, <1>5 DEF PassSelect, PassStates
  <2>2. \A k \in found : k \in Keys /\ Expired(k, pass[p].at) /\ k \notin Locked
    BY DEF _expired_uploads, _expired_artifacts, Oldest, Keys
  <2>3. \A t \in pass[p].tasks : task[t].source \in Files
    BY PassFacts DEF PassSound, StoreInv, SourceSound
  <2>4. \A t \in pass[p].tasks : task[t].source \notin pass'[p].todo
    BY <2>1, <2>3, PassFacts DEF PassSound, InUse
  <2> HIDE DEF found
  <2>5. PassSound(p)'
    BY <1>1, <1>2, <2>1, <2>2, <2>4, PassFacts DEF PassSound
  <2> QED BY <1>0, <1>1, <1>5, <2>1, <2>2, <2>5, PassStepInv DEF PassSelect
<1>6. CASE DryRun(p)
  BY <1>0, <1>3, <1>6 DEF DryRun
<1>7. CASE PassAbort(p)
  BY <1>0, <1>3, <1>7 DEF PassAbort
<1>8. ASSUME NEW k \in Keys, PassDelete(p, k)
      PROVE  StoreInv'
  <2>1. k \in pass[p].todo
    BY <1>8 DEF PassDelete, First
  <2>2. /\ pass'[p].state = pass[p].state /\ pass[p].state = "deleting"
        /\ pass'[p].at = pass[p].at
        /\ pass'[p].tasks = pass[p].tasks /\ pass'[p].locked = pass[p].locked
        /\ pass'[p].todo = pass[p].todo \ {k}
        /\ pass'[p].dead = pass[p].dead \cup {k}
    BY <1>0, <1>8 DEF PassDelete, PassStates
  <2>3. PassSound(p)'
    BY <1>1, <1>2, <1>8, <2>1, <2>2, PassFacts DEF PassSound, PassDelete, delete
  <2>4. Expired(k, now)
    BY <1>0, <2>1, PassFacts, ExpiredLater DEF PassSound
  <2> QED BY <1>0, <1>1, <1>8, <2>2, <2>3, <2>4, PassStepInv DEF PassDelete, delete
<1>9. ASSUME NEW k \in Keys, PassSkip(p, k)
      PROVE  StoreInv'
  <2>1. /\ pass'[p].state = pass[p].state /\ pass[p].state = "deleting"
        /\ pass'[p].at = pass[p].at
        /\ pass'[p].tasks = pass[p].tasks /\ pass'[p].locked = pass[p].locked
        /\ pass'[p].todo = pass[p].todo \ {k}
        /\ pass'[p].dead = pass[p].dead
    BY <1>0, <1>9 DEF PassSkip, PassStates
  <2>2. PassSound(p)'
    BY <1>1, <1>2, <1>9, <2>1, PassFacts DEF PassSound, PassSkip
  <2> QED BY <1>0, <1>1, <1>9, <2>1, <2>2, PassStepInv DEF PassSkip
<1> QED BY <1>4, <1>5, <1>6, <1>7, <1>8, <1>9

(* The commit of a pass marks rows that no other pass holds, and whose     *)
(* objects are gone.                                                       *)
LEMMA CommitStep ==
  ASSUME StoreInv, Next, NEW p \in Passes, PassCommit(p)
  PROVE  StoreInv'
<1>0. /\ TypeOK' /\ TypeOK /\ pass \in [Passes -> PassStates] /\ now \in Nat
      /\ row \in [Keys -> Rows] /\ task \in [Tasks -> TaskRows]
  BY StepTypes DEF StoreInv, TypeOK
<1>1. /\ \A k \in pass[p].dead : row'[k].state = "gone" /\ k \notin object
      /\ \A k \in Keys \ pass[p].dead : row'[k] = row[k]
      /\ UNCHANGED <<now, object, orphans>>
      /\ pass'[p] = Idle /\ \A q \in Passes \ {p} : pass'[q] = pass[q]
  BY <1>0, PassFacts DEF PassCommit, Gone, NoRow, PassSound
<1>2. \A t \in Tasks : /\ task'[t].status = task[t].status
                       /\ task'[t].source = task[t].source
  BY <1>0 DEF PassCommit, TaskRows
<1>3. ASSUME NEW k \in Keys
      PROVE  KeySound(k)'
  <2>1. CASE k \in pass[p].dead
    BY <1>1, <2>1 DEF KeySound
  <2>2. CASE k \notin pass[p].dead
    BY <1>1, <2>2 DEF StoreInv, KeySound, Expired, Retention
  <2> QED BY <2>1, <2>2
<1>4. ASSUME NEW t \in Tasks
      PROVE  SourceSound(t)'
  BY <1>1, <1>2 DEF StoreInv, SourceSound, Keys
<1>5. ASSUME NEW q \in Passes
      PROVE  PassSound(q)'
  <2>1. CASE q = p
    BY <1>0, <1>1, <2>1 DEF PassSound, Idle
  <2>2. CASE q # p
    <3>1. pass[q].locked \cap pass[p].dead = {}
      BY <2>2, PassFacts DEF StoreInv, LocksExclusive, PassSound
    <3>2. \A j \in pass[q].locked : Expired(j, pass[q].at)'
      BY <1>1, <2>2, <3>1, PassFacts DEF PassSound, Expired, Retention
    <3> QED BY <1>1, <1>2, <2>2, <3>2, PassFacts DEF PassSound
  <2> QED BY <2>1, <2>2
<1>6. LocksExclusive'
  BY <1>1 DEF StoreInv, LocksExclusive, Idle
<1> QED BY <1>0, <1>3, <1>4, <1>5, <1>6 DEF StoreInv

LEMMA TickStep ==
  ASSUME StoreInv, Next, Tick
  PROVE  StoreInv'
<1>0. TypeOK' /\ TypeOK /\ now \in Nat
  BY StepTypes DEF StoreInv, TypeOK
<1>1. ASSUME NEW k \in Keys
      PROVE  KeySound(k)'
  <2>1. Expired(k, now) => Expired(k, now + 1)
    BY <1>0, ExpiredLater
  <2>2. Expired(k, now + 1) => Expired(k, now)'
    BY DEF Tick, Expired, Retention
  <2> QED BY <2>1, <2>2 DEF Tick, StoreInv, KeySound
<1>2. ASSUME NEW t \in Tasks
      PROVE  SourceSound(t)'
  BY DEF Tick, StoreInv, SourceSound
<1>3. ASSUME NEW p \in Passes
      PROVE  PassSound(p)'
  <2>1. \A j \in pass[p].locked : Expired(j, pass[p].at)'
    BY PassFacts DEF Tick, PassSound, Expired, Retention
  <2> QED BY <1>0, <2>1, PassFacts DEF Tick, PassSound
<1>4. LocksExclusive'
  BY DEF Tick, StoreInv, LocksExclusive
<1> QED BY <1>0, <1>1, <1>2, <1>3, <1>4 DEF StoreInv

LEMMA StoreStep == StoreInv /\ [Next]_vars => StoreInv'
<1>1. ASSUME StoreInv, Next
      PROVE  StoreInv'
  BY <1>1, UploadSteps, ArtifactSteps, TaskSteps, PassSteps, CommitStep, TickStep
     DEF Next, Keys
<1>2. ASSUME StoreInv, UNCHANGED vars
      PROVE  StoreInv'
  BY <1>2 DEF vars, StoreInv, TypeOK, KeySound, SourceSound, PassSound, LocksExclusive,
              Expired, Retention
<1> QED BY <1>1, <1>2

(* The rows, the objects and the passes over them are what StoreInv says   *)
(* in every reachable state (upload_file, upload_stage_artifact, run_once).*)
THEOREM StoreInvariance == Spec => []StoreInv
BY InitInv, StoreStep, PTL DEF Spec

(* Every variable keeps its type, for any files, tasks and passes.         *)
THEOREM StoreTypes == Spec => []TypeOK
<1>1. StoreInv => TypeOK
  BY DEF StoreInv
<1> QED BY <1>1, StoreInvariance, PTL

(* What is shown can be downloaded, and no object is forgotten, wherever   *)
(* an upload or a retention pass is cut off: an object is deleted before   *)
(* its row only when the row has expired (run_once), and a row is written  *)
(* only when the object is there (upload_file, upload_stage_artifact).     *)
THEOREM Agree == Spec => []RowsAndObjectsAgree
<1>1. ASSUME StoreInv
      PROVE  RowsAndObjectsAgree
  <2>0. now \in Nat /\ row \in [Keys -> Rows]
    BY <1>1 DEF StoreInv, TypeOK
  <2>1. ASSUME NEW k \in Keys, get(k, now), row[k].expires # 0
        PROVE  _record(k)
    <3>1. row[k].expires \in Nat /\ row[k].state = "stored" /\ now < row[k].expires
      BY <2>0, <2>1 DEF Rows, get
    <3>2. ~Expired(k, now)
      BY <2>0, <3>1 DEF Expired
    <3> QED BY <1>1, <2>1, <3>1, <3>2 DEF StoreInv, KeySound, _record, exists
  <2>2. ASSUME NEW a \in Artifacts, get(a, now)
        PROVE  _record(a) /\ exists(a)
    <3>1. row[a].expires # 0
      BY <1>1, <2>2 DEF StoreInv, KeySound, get, Keys
    <3> QED BY <2>1, <2>2, <3>1 DEF Keys, _record
  <2>3. ReadableHaveObjects
    <3>1. \A f \in Files : get(f, now) /\ row[f].expires # 0 => _record(f)
      BY <2>1 DEF Keys
    <3>2. ASSUME NEW t \in Tasks, NEW a \in list_task_artifacts(t)
          PROVE  /\ download_task_artifact(t, a)
                 /\ create_task_artifact_download_url(t, a)
      BY <2>2, <3>2 DEF list_task_artifacts, download_task_artifact,
                        create_task_artifact_download_url
    <3>3. ASSUME NEW t \in Tasks, task[t].status = "succeeded",
                 task[t].result \in list_task_artifacts(t)
          PROVE  get_task_result(t)
      <4>1. task[t].result \in Artifacts /\ row[task[t].result].task = t
        BY <3>3 DEF list_task_artifacts
      <4>2. task[t].result # None
        BY <4>1, KeysAssumption DEF Keys
      <4> QED BY <3>2, <3>3, <4>1, <4>2 DEF get_task_result, _primary_result_artifact
    <3> QED BY <3>1, <3>2, <3>3 DEF ReadableHaveObjects
  <2>4. NoLeakedObjects
    BY <1>1 DEF StoreInv, TypeOK, KeySound, NoLeakedObjects
  <2> QED BY <2>3, <2>4 DEF RowsAndObjectsAgree
<1> QED BY <1>1, StoreInvariance, PTL

(* A pass takes the source of no task that was active when the pass began: *)
(* the sources were read before the rows were selected (run_once).         *)
THEOREM SourcesKept == Spec => InUseKept
<1> DEFINE A == \A f \in Files, t \in Tasks :
       f \in object \ object' /\ Active(t) /\ task[t].source = f
         => \E p \in Passes : pass[p].state = "deleting" /\ t \notin pass[p].tasks
<1>1. ASSUME StoreInv, Next, NEW f \in Files, NEW t \in Tasks,
             f \in object \ object', Active(t), task[t].source = f
      PROVE  \E p \in Passes : pass[p].state = "deleting" /\ t \notin pass[p].tasks
  <2>1. row[f].state \in {"stored", "gone"}
    BY <1>1 DEF StoreInv, SourceSound, Active, _ACTIVE_TASK_STATUSES
  <2>2. \A a \in Artifacts : a # f
    BY KeysAssumption DEF Keys
  <2>3. PICK p \in Passes, k \in Keys : PassDelete(p, k)
    <3>1. ~\E g \in Files : UploadBegin(g) \/ UploadCommit(g) \/ UploadFail(g)
      BY <1>1, <2>1 DEF UploadBegin, UploadCommit, UploadFail, write, delete
    <3>2. ~\E a \in Artifacts : \/ \E u \in Tasks, c \in Contents : ArtifactBegin(u, a, c)
                                \/ ArtifactCommit(a) \/ ArtifactKnown(a) \/ ArtifactRefuse(a)
      BY <1>1, <2>2 DEF ArtifactBegin, ArtifactCommit, ArtifactKnown, ArtifactRefuse,
                        write, delete
    <3>3. ~\E u \in Tasks : \/ \E g \in Files : CreateBegin(u, g)
                            \/ CreateCommit(u) \/ Lease(u) \/ Fetch(u) \/ Release(u)
                            \/ cancel(u) \/ retry(u) \/ Complete(u)
      BY <1>1 DEF CreateBegin, CreateCommit, Lease, Fetch, Release, cancel, retry, Complete
    <3>4. ~\E q \in Passes : \/ PassBegin(q) \/ PassSelect(q) \/ DryRun(q)
                             \/ PassCommit(q) \/ PassAbort(q)
                             \/ \E k \in Keys : PassSkip(q, k)
      BY <1>1 DEF PassBegin, PassSelect, DryRun, PassCommit, PassAbort, PassSkip
    <3>5. ~Tick /\ ~\E k \in Keys : CutOff(k)
      BY <1>1 DEF Tick, CutOff
    <3> QED BY <1>1, <3>1, <3>2, <3>3, <3>4, <3>5 DEF Next
  <2>4. k = f /\ pass[p].state = "deleting" /\ k \in pass[p].todo
    BY <1>1, <2>3 DEF PassDelete, First, delete
  <2>5. t \notin pass[p].tasks
    BY <1>1, <2>4, PassFacts DEF PassSound
  <2> QED BY <2>4, <2>5
<1>2. StoreInv /\ [Next]_vars => [A]_vars
  BY <1>1
<1>3. InUseKept <=> [][A]_vars
  BY DEF InUseKept
<1> QED BY <1>2, <1>3, StoreInvariance, PTL DEF Spec
=============================================================================
