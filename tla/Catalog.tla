------------------------------ MODULE Catalog -------------------------------
(***************************************************************************)
(* Catalog::mutate run by several ce-query processes on one catalog file:  *)
(* take the lock file, load, change, save through a temporary file, drop   *)
(* the lock.  Each system call is a step; between two of them any other    *)
(* process may run, the process may crash, and a power cut may hit.        *)
(*                                                                         *)
(* A dataset is identified by the writer that registered it.  A file is    *)
(* its data, whether all of it was written, and whether it is on disk.     *)
(***************************************************************************)
EXTENDS Naturals

CONSTANTS
  Writers,    \* the processes that call mutate, each once
  Names,      \* dataset names
  Absent,     \* marks a name without a dataset
  Op,         \* what each writer asks for: [kind : {"put", "remove"}, name]
  NoFile,     \* stands for a file that does not exist
  Crashing,   \* writers that may crash
  Slow,       \* writers that may hold the lock for more than 60 s
  LockSticks, \* whether removing the lock file fails (unwritable directory)
  PowerCuts   \* whether the machine may lose power

ASSUME OpAssumption ==
  Op \in [Writers -> [kind : {"put", "remove"}, name : Names]]
ASSUME FlagsAssumption ==
  /\ Crashing \in SUBSET Writers /\ Slow \in SUBSET Writers
  /\ LockSticks \in BOOLEAN /\ PowerCuts \in BOOLEAN
ASSUME NoFileAssumption ==
  /\ Absent \notin Writers
  /\ NoFile \notin [owner : Writers, stale : BOOLEAN]

Data == [Names -> Writers \cup {Absent}]
File == [data : Data, whole : BOOLEAN, synced : BOOLEAN]
NoDatasets == [n \in Names |-> Absent]

VARIABLES
  lock,     \* the lock file: its creator and whether it is older than 60 s
  file,     \* the catalog file; a missing one loads as an empty catalog
  tmp,      \* per writer: its temporary file
  pc,       \* per writer: the next system call
  late,     \* per writer: the 10 s for acquiring the lock have elapsed
  memory,   \* per writer: the catalog it is about to save
  alive     \* per writer: has not crashed

vars == <<lock, file, tmp, pc, late, memory, alive>>

Acquiring == {"try", "busy", "reclaim"}
Saving == {"create", "write", "sync", "rename"}
Critical == {"load"} \cup Saving \cup {"release", "abort"}
Ended == {"ok", "failed"}

At(w, label) == alive[w] /\ pc[w] = label
Goto(w, label) == pc' = [pc EXCEPT ![w] = label]

-----------------------------------------------------------------------------
(* CatalogLock::acquire.                                                   *)

Start(w) ==
  /\ At(w, "idle") /\ Goto(w, "try")
  /\ UNCHANGED <<lock, file, tmp, late, memory, alive>>

(* Fault variant: the lock file is opened without create_new.              *)
TryLockOverwrites(w) ==
  /\ At(w, "try") /\ Goto(w, "load")
  /\ lock' = [owner |-> w, stale |-> FALSE]
  /\ UNCHANGED <<file, tmp, late, memory, alive>>

(* create_new succeeds only if the lock file is not there.                 *)
TryLock(w) ==
  /\ At(w, "try")
  /\ \/ /\ lock = NoFile
        /\ lock' = [owner |-> w, stale |-> FALSE]
        /\ Goto(w, "load")
     \/ /\ lock # NoFile
        /\ Goto(w, "busy")
        /\ UNCHANGED lock
  /\ UNCHANGED <<file, tmp, late, memory, alive>>

(* The lock file cannot be created for another reason than being there.    *)
LockUnavailable(w) ==
  /\ At(w, "try") /\ Goto(w, "failed")
  /\ UNCHANGED <<lock, file, tmp, late, memory, alive>>

(* Fault variant: any lock file counts as left over.                       *)
StaleLockAnyAge == lock # NoFile

StaleLock == lock # NoFile /\ lock.stale

(* Looks at the age of the lock file, which may be gone by now.  Only a    *)
(* lock that is not stale leads to the timeout check.                      *)
InspectLock(w) ==
  /\ At(w, "busy")
  /\ \/ /\ StaleLock
        /\ Goto(w, "reclaim")
     \/ /\ ~StaleLock
        /\ Goto(w, IF late[w] THEN "failed" ELSE "try")
  /\ UNCHANGED <<lock, file, tmp, late, memory, alive>>

(* remove_file on the lock's path; an error is ignored.                    *)
LockRemoved == lock' = IF LockSticks THEN lock ELSE NoFile

(* Fault variant: the loop goes on without removing anything.              *)
ReclaimForgets(w) ==
  /\ At(w, "reclaim") /\ Goto(w, "try")
  /\ UNCHANGED <<lock, file, tmp, late, memory, alive>>

(* Removes whatever lock file is at the path, the stale one or a new one.  *)
Reclaim(w) ==
  /\ At(w, "reclaim") /\ Goto(w, "try")
  /\ LockRemoved
  /\ UNCHANGED <<file, tmp, late, memory, alive>>

-----------------------------------------------------------------------------
(* The body of mutate, under the lock.                                     *)

(* Fault variant: the name is stored in place of the dataset.              *)
EffectStoresName(w, c) == [c EXCEPT ![Op[w].name] = Op[w].name]

Effect(w, c) ==
  [c EXCEPT ![Op[w].name] = IF Op[w].kind = "put" THEN w ELSE Absent]

Applicable(w, c) == Op[w].kind = "put" \/ c[Op[w].name] # Absent

(* Reads the file and applies the closure in memory; a catalog that does   *)
(* not parse, or a closure that fails, abandons the call.                  *)
LoadAndChange(w) ==
  /\ At(w, "load")
  /\ \/ /\ file.whole /\ Applicable(w, file.data)
        /\ memory' = [memory EXCEPT ![w] = Effect(w, file.data)]
        /\ Goto(w, "create")
     \/ /\ ~(file.whole /\ Applicable(w, file.data))
        /\ Goto(w, "abort")
        /\ UNCHANGED memory
  /\ UNCHANGED <<lock, file, tmp, late, alive>>

CreateTemp(w) ==
  /\ At(w, "create") /\ Goto(w, "write")
  /\ tmp' = [tmp EXCEPT ![w] =
       [data |-> NoDatasets, whole |-> FALSE, synced |-> FALSE]]
  /\ UNCHANGED <<lock, file, late, memory, alive>>

WriteTemp(w) ==
  /\ At(w, "write") /\ Goto(w, "sync")
  /\ tmp' = [tmp EXCEPT ![w] =
       [data |-> memory[w], whole |-> TRUE, synced |-> FALSE]]
  /\ UNCHANGED <<lock, file, late, memory, alive>>

(* Fault variant: the data is not forced to disk before the rename.        *)
SyncTempSkipped(w) ==
  /\ At(w, "sync") /\ Goto(w, "rename")
  /\ UNCHANGED <<lock, file, tmp, late, memory, alive>>

SyncTemp(w) ==
  /\ At(w, "sync") /\ Goto(w, "rename")
  /\ tmp' = [tmp EXCEPT ![w].synced = TRUE]
  /\ UNCHANGED <<lock, file, late, memory, alive>>

RenameTemp(w) ==
  /\ At(w, "rename") /\ Goto(w, "release")
  /\ file' = tmp[w]
  /\ tmp' = [tmp EXCEPT ![w] = NoFile]
  /\ UNCHANGED <<lock, late, memory, alive>>

(* Reading the catalog or any step of save may fail with an I/O error; the *)
(* error leaves the target as it is.                                       *)
BodyFails(w) ==
  /\ alive[w] /\ pc[w] \in {"load"} \cup Saving
  /\ Goto(w, "abort")
  /\ UNCHANGED <<lock, file, tmp, late, memory, alive>>

(* Drop: removes the lock file at the path, whoever created it.            *)
DropLock(w) ==
  /\ \/ At(w, "release") /\ Goto(w, "ok")
     \/ At(w, "abort") /\ Goto(w, "failed")
  /\ LockRemoved
  /\ UNCHANGED <<file, tmp, late, memory, alive>>

-----------------------------------------------------------------------------
(* The environment.                                                        *)

(* The lock file turns 60 s old while its creator is gone or slow.         *)
LockAges ==
  /\ lock # NoFile /\ ~lock.stale
  /\ lock.owner \in Slow \/ ~alive[lock.owner] \/ pc[lock.owner] \in Ended
  /\ lock' = [lock EXCEPT !.stale = TRUE]
  /\ UNCHANGED <<file, tmp, pc, late, memory, alive>>

TimeRunsOut(w) ==
  /\ alive[w] /\ pc[w] \in Acquiring /\ ~late[w]
  /\ late' = [late EXCEPT ![w] = TRUE]
  /\ UNCHANGED <<lock, file, tmp, pc, memory, alive>>

Running(w) == alive[w] /\ pc[w] \notin {"idle"} \cup Ended

Crash(w) ==
  /\ w \in Crashing /\ Running(w)
  /\ alive' = [alive EXCEPT ![w] = FALSE]
  /\ UNCHANGED <<lock, file, tmp, pc, late, memory>>

(* What a power cut can leave of a file: data not yet on disk may be lost. *)
AfterPowerCut(f) ==
  IF f = NoFile \/ f.synced THEN {f} ELSE {f, [f EXCEPT !.whole = FALSE]}

PowerCut ==
  /\ PowerCuts
  /\ \E w \in Writers : Running(w)
  /\ alive' = [w \in Writers |-> alive[w] /\ ~Running(w)]
  /\ file' \in AfterPowerCut(file)
  /\ tmp' \in {t \in [Writers -> UNION {AfterPowerCut(tmp[w]) : w \in Writers}] :
                 \A w \in Writers : t[w] \in AfterPowerCut(tmp[w])}
  /\ UNCHANGED <<lock, pc, late, memory>>

-----------------------------------------------------------------------------
Init ==
  /\ lock = NoFile
  /\ file = [data |-> NoDatasets, whole |-> TRUE, synced |-> TRUE]
  /\ tmp = [w \in Writers |-> NoFile]
  /\ pc = [w \in Writers |-> "idle"]
  /\ late = [w \in Writers |-> FALSE]
  /\ memory = [w \in Writers |-> NoDatasets]
  /\ alive = [w \in Writers |-> TRUE]

(* What a process does of its own accord once it has started.              *)
Step(w) ==
  \/ TryLock(w) \/ InspectLock(w) \/ Reclaim(w)
  \/ LoadAndChange(w) \/ CreateTemp(w) \/ WriteTemp(w) \/ SyncTemp(w)
  \/ RenameTemp(w) \/ DropLock(w)

Next ==
  \/ \E w \in Writers : \/ Start(w) \/ Step(w)
                        \/ LockUnavailable(w) \/ BodyFails(w)
                        \/ TimeRunsOut(w) \/ Crash(w)
  \/ LockAges \/ PowerCut

SafeSpec == Init /\ [][Next]_vars

(* Every process is scheduled, and time passes.                            *)
Spec ==
  /\ SafeSpec
  /\ \A w \in Writers : WF_vars(Step(w)) /\ WF_vars(TimeRunsOut(w))
  /\ WF_vars(LockAges)

-----------------------------------------------------------------------------
TypeOK ==
  /\ lock \in [owner : Writers, stale : BOOLEAN] \cup {NoFile}
  /\ file \in File
  /\ tmp \in [Writers -> File \cup {NoFile}]
  /\ pc \in [Writers -> {"idle"} \cup Acquiring \cup Critical \cup Ended]
  /\ late \in [Writers -> BOOLEAN]
  /\ memory \in [Writers -> Data]
  /\ alive \in [Writers -> BOOLEAN]

(* The catalog file is never partly written, whatever crashes and power    *)
(* cuts hit and even if two writers save at once: "a crash mid-write       *)
(* cannot corrupt the catalog".                                            *)
NeverTorn == file.whole

(* At most one live process is between taking and dropping the lock.       *)
MutualExclusion ==
  \A v, w \in Writers :
    /\ alive[v] /\ pc[v] \in Critical
    /\ alive[w] /\ pc[w] \in Critical
    => v = w

(* What a process that stands at a given call has done to the catalog.     *)
OutcomeAt(label) ==
  CASE label \in {"release", "ok"} -> "applied"
    [] label \in {"abort", "failed"} -> "failed"
    [] OTHER -> "running"

(* mutate is atomic: the file goes from catalog to catalog by the whole    *)
(* change of one call, at its rename.                                      *)
Atomic ==
  INSTANCE AtomicCatalog WITH
    store <- file.data,
    outcome <- [w \in Writers |-> OutcomeAt(pc[w])]

ImplementsAtomicCatalog == Atomic!Spec

(* A dataset whose registration succeeded is there, unless another call    *)
(* asked for a change of the same name: "two concurrent ce-query processes *)
(* cannot clobber each other's writes".                                    *)
NoLostUpdate ==
  \A w \in Writers :
    /\ pc[w] = "ok" /\ Op[w].kind = "put"
    /\ \A v \in Writers \ {w} : Op[v].name # Op[w].name
    => file.data[Op[w].name] = w

(* A call that is not cut short by a crash returns: the lock of a crashed  *)
(* writer does not block the others forever, nor does the wait for a live  *)
(* one exceed its timeout.                                                 *)
EveryCallReturns ==
  \A w \in Writers :
    alive[w] /\ pc[w] = "try" ~> ~alive[w] \/ pc[w] \in Ended
=============================================================================
