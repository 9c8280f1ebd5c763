--------------------------- MODULE CatalogProofs ----------------------------
(***************************************************************************)
(* Theorems about Catalog, for every set of writers and every mix of       *)
(* changes.  NeverTorn holds whatever crashes, power cuts and lock races   *)
(* happen; mutual exclusion and atomicity hold as long as no lock becomes  *)
(* stale under its holder.                                                 *)
(***************************************************************************)
EXTENDS Catalog, TLAPS

-----------------------------------------------------------------------------
(* The catalog file is always whole.                                       *)

(* A live writer about to rename has a temporary file that is written and  *)
(* on disk; so is, in consequence, the catalog file.                       *)
TempReady(w) ==
  alive[w] =>
    /\ pc[w] \in {"write", "sync", "rename"} => tmp[w] \in File
    /\ pc[w] \in {"sync", "rename"} => tmp[w].whole
    /\ pc[w] = "rename" => tmp[w].synced

FileInv ==
  /\ TypeOK
  /\ file.whole /\ file.synced
  /\ \A w \in Writers : TempReady(w)

LEMMA EffectType ==
  ASSUME NEW w \in Writers, NEW c \in Data
  PROVE  Effect(w, c) \in Data
  BY OpAssumption DEF Effect, Data

LEMMA InitFileInv == Init => FileInv
  BY DEF Init, FileInv, TypeOK, TempReady, File, Data, NoDatasets

LEMMA NextFileInv == FileInv /\ [Next]_vars => FileInv'
<1> SUFFICES ASSUME FileInv, [Next]_vars PROVE FileInv'
  OBVIOUS
<1> USE DEF FileInv, TypeOK, TempReady, At, Goto
<1>1. ASSUME NEW w \in Writers, Start(w) PROVE FileInv'
  BY <1>1 DEF Start, Acquiring
<1>2. ASSUME NEW w \in Writers, TryLock(w) PROVE FileInv'
  <2>1. lock' \in [owner : Writers, stale : BOOLEAN] \cup {NoFile}
    <3>1. [owner |-> w, stale |-> FALSE] \in [owner : Writers, stale : BOOLEAN]
      OBVIOUS
    <3>2. QED BY <1>2, <3>1 DEF TryLock
  <2>2. pc' \in [Writers -> {"idle"} \cup Acquiring \cup Critical \cup Ended]
    BY <1>2 DEF TryLock, Acquiring, Critical
  <2>3. QED BY <1>2, <2>1, <2>2 DEF TryLock
<1>3. ASSUME NEW w \in Writers, InspectLock(w) \/ LockUnavailable(w)
      PROVE  FileInv'
  BY <1>3 DEF InspectLock, LockUnavailable, Acquiring, Ended
<1>4. ASSUME NEW w \in Writers, Reclaim(w) PROVE FileInv'
  BY <1>4 DEF Reclaim, LockRemoved, Acquiring
<1>5. ASSUME NEW w \in Writers, LoadAndChange(w) PROVE FileInv'
  <2>1. Effect(w, file.data) \in Data
    BY EffectType DEF File
  <2>2. QED BY <1>5, <2>1 DEF LoadAndChange, Critical, Saving
<1>6. ASSUME NEW w \in Writers, CreateTemp(w) PROVE FileInv'
  BY <1>6 DEF CreateTemp, Critical, Saving, File, Data, NoDatasets
<1>7. ASSUME NEW w \in Writers, WriteTemp(w) PROVE FileInv'
  BY <1>7 DEF WriteTemp, Critical, Saving, File
<1>8. ASSUME NEW w \in Writers, SyncTemp(w) PROVE FileInv'
  BY <1>8 DEF SyncTemp, Critical, Saving, File
<1>9. ASSUME NEW w \in Writers, RenameTemp(w) PROVE FileInv'
  BY <1>9 DEF RenameTemp, Critical
<1>10. ASSUME NEW w \in Writers, DropLock(w) PROVE FileInv'
  BY <1>10 DEF DropLock, LockRemoved, Ended
<1>11. ASSUME NEW w \in Writers, BodyFails(w) PROVE FileInv'
  BY <1>11 DEF BodyFails, Critical
<1>12. ASSUME NEW w \in Writers, TimeRunsOut(w) PROVE FileInv'
  BY <1>12 DEF TimeRunsOut
<1>13. ASSUME NEW w \in Writers, Crash(w) PROVE FileInv'
  BY <1>13 DEF Crash
<1>14. CASE LockAges
  BY <1>14 DEF LockAges
<1>15. CASE PowerCut
  <2>1. file' = file
    BY <1>15 DEF PowerCut, AfterPowerCut
  <2>2. tmp' \in [Writers -> File \cup {NoFile}]
    <3>1. ASSUME NEW f \in File \cup {NoFile}
          PROVE  AfterPowerCut(f) \subseteq File \cup {NoFile}
      <4>1. CASE f = NoFile
        BY <4>1 DEF AfterPowerCut
      <4>2. CASE f \in File
        <5>1. [f EXCEPT !.whole = FALSE] \in File
          BY <4>2 DEF File
        <5>2. AfterPowerCut(f) \subseteq {f, [f EXCEPT !.whole = FALSE]}
          BY DEF AfterPowerCut
        <5>3. QED BY <4>2, <5>1, <5>2
      <4>3. QED BY <4>1, <4>2
    <3>2. \A w \in Writers : tmp'[w] \in AfterPowerCut(tmp[w])
      BY <1>15 DEF PowerCut
    <3>3. \A w \in Writers : tmp'[w] \in File \cup {NoFile}
      BY <3>1, <3>2
    <3>4. PICK T : tmp' \in [Writers -> T]
      BY <1>15 DEF PowerCut
    <3>5. QED BY <3>3, <3>4
  <2>3. ASSUME NEW w \in Writers, alive'[w]
        PROVE  alive[w] /\ pc[w] \in {"idle"} \cup Ended
    BY <1>15, <2>3 DEF PowerCut, Running
  <2>4. QED BY <1>15, <2>1, <2>2, <2>3 DEF PowerCut, Ended
<1>16. CASE UNCHANGED vars
  BY <1>16 DEF vars
<1>17. QED
  BY <1>1, <1>2, <1>3, <1>4, <1>5, <1>6, <1>7, <1>8, <1>9, <1>10, <1>11,
     <1>12, <1>13, <1>14, <1>15, <1>16 DEF Next, Step

(* A crash or a power cut at any point of any save leaves a whole catalog. *)
THEOREM CatalogNeverTorn == SafeSpec => []NeverTorn
<1>1. FileInv => NeverTorn
  BY DEF FileInv, NeverTorn
<1>2. QED BY <1>1, InitFileInv, NextFileInv, PTL DEF SafeSpec

(* Every variable keeps its type.                                          *)
THEOREM CatalogTypeCorrect == SafeSpec => []TypeOK
<1>1. FileInv => TypeOK
  BY DEF FileInv
<1>2. QED BY <1>1, InitFileInv, NextFileInv, PTL DEF SafeSpec

-----------------------------------------------------------------------------
(* Mutual exclusion and atomicity while no holder loses its lock.          *)

(* The lock names the one process in the critical section, and while lock  *)
(* files can be removed none is left behind, so none is ever reclaimed.    *)
LockInv ==
  /\ TypeOK
  /\ \A w \in Writers : alive[w]
  /\ \A w \in Writers : pc[w] \in Critical => lock # NoFile /\ lock.owner = w
  /\ ~LockSticks => /\ lock # NoFile => pc[lock.owner] \in Critical /\ ~lock.stale
                    /\ \A w \in Writers : pc[w] # "reclaim"

(* What the process in the critical section is about to install is its own *)
(* change applied to the catalog as it still is.                           *)
Current(w) ==
  /\ pc[w] \in Saving => /\ Applicable(w, file.data)
                         /\ memory[w] = Effect(w, file.data)
  /\ pc[w] \in {"sync", "rename"} => tmp[w].data = memory[w]

AtomicInv ==
  /\ FileInv
  /\ LockInv
  /\ \A w \in Writers : Current(w)

LEMMA InitAtomicInv == Init => AtomicInv
<1> SUFFICES ASSUME Init PROVE AtomicInv
  OBVIOUS
<1>1. FileInv
  BY InitFileInv
<1>2. LockInv
  BY <1>1 DEF FileInv, LockInv, Init, Critical, Saving
<1>3. \A w \in Writers : Current(w)
  BY DEF Current, Init, Saving
<1>4. QED BY <1>1, <1>2, <1>3 DEF AtomicInv

(* No two processes can be in the critical section.                        *)
LEMMA OneInside == LockInv => MutualExclusion
  BY DEF LockInv, MutualExclusion

LEMMA NextLockInv ==
  ASSUME Crashing = {}, Slow = {}, ~PowerCuts, LockInv, FileInv', [Next]_vars
  PROVE  LockInv'
<1> USE DEF LockInv, TypeOK, At, Goto
<1>1. TypeOK'
  BY DEF FileInv
<1>2. ASSUME NEW w \in Writers, Start(w) PROVE LockInv'
  BY <1>1, <1>2 DEF Start, Critical, Saving
<1>3. ASSUME NEW w \in Writers, TryLock(w) PROVE LockInv'
  <2>1. CASE /\ lock = NoFile /\ pc' = [pc EXCEPT ![w] = "load"]
             /\ lock' = [owner |-> w, stale |-> FALSE]
    <3>1. lock'.owner = w /\ lock'.stale = FALSE /\ lock' # NoFile
      <4>1. lock'.owner = w /\ lock'.stale = FALSE
        BY <2>1
      <4>2. [owner |-> w, stale |-> FALSE] \in [owner : Writers, stale : BOOLEAN]
        OBVIOUS
      <4>3. QED BY <2>1, <4>1, <4>2, NoFileAssumption
    <3>2. \A v \in Writers : pc'[v] \in Critical => v = w
      BY <2>1
    <3>3. pc'[w] = "load" /\ \A v \in Writers : pc'[v] # "reclaim" \/ pc[v] = "reclaim"
      BY <2>1
    <3>4. pc'[w] \in Critical
      BY <3>3 DEF Critical
    <3>5. UNCHANGED alive
      BY <1>3 DEF TryLock
    <3>6. ~LockSticks => /\ pc'[lock'.owner] \in Critical /\ ~lock'.stale
                        /\ \A v \in Writers : pc'[v] # "reclaim"
      BY <3>1, <3>3, <3>4
    <3>7. QED BY <1>1, <3>1, <3>2, <3>5, <3>6
  <2>2. CASE /\ lock # NoFile /\ pc' = [pc EXCEPT ![w] = "busy"]
             /\ UNCHANGED lock
    BY <1>1, <1>3, <2>2 DEF TryLock, Critical, Saving
  <2>3. QED BY <1>3, <2>1, <2>2 DEF TryLock
<1>4. ASSUME NEW w \in Writers, InspectLock(w) \/ LockUnavailable(w)
      PROVE  LockInv'
  BY <1>1, <1>4 DEF InspectLock, LockUnavailable, StaleLock, Critical, Saving
<1>5. ASSUME NEW w \in Writers, Reclaim(w) PROVE LockInv'
  BY <1>1, <1>5, FlagsAssumption DEF Reclaim, LockRemoved, Critical, Saving
<1>6. ASSUME NEW w \in Writers, LoadAndChange(w) PROVE LockInv'
  BY <1>1, <1>6 DEF LoadAndChange, Critical, Saving
<1>7. ASSUME NEW w \in Writers,
             CreateTemp(w) \/ WriteTemp(w) \/ SyncTemp(w) \/ RenameTemp(w)
      PROVE  LockInv'
  BY <1>1, <1>7 DEF CreateTemp, WriteTemp, SyncTemp, RenameTemp, Critical, Saving
<1>8. ASSUME NEW w \in Writers, DropLock(w) PROVE LockInv'
  BY <1>1, <1>8 DEF DropLock, LockRemoved, Critical, Saving
<1>9. ASSUME NEW w \in Writers, BodyFails(w) PROVE LockInv'
  BY <1>1, <1>9 DEF BodyFails, Critical, Saving
<1>10. ASSUME NEW w \in Writers, TimeRunsOut(w) PROVE LockInv'
  BY <1>1, <1>10 DEF TimeRunsOut
<1>11. ASSUME NEW w \in Writers, Crash(w) PROVE LockInv'
  BY <1>11 DEF Crash
<1>12. CASE LockAges
  BY <1>1, <1>12 DEF LockAges, Critical, Saving, Ended
<1>13. CASE PowerCut
  BY <1>13 DEF PowerCut
<1>14. CASE UNCHANGED vars
  BY <1>1, <1>14 DEF vars
<1>15. QED
  BY <1>2, <1>3, <1>4, <1>5, <1>6, <1>7, <1>8, <1>9, <1>10, <1>11, <1>12,
     <1>13, <1>14 DEF Next, Step

LEMMA NextCurrent ==
  ASSUME Crashing = {}, Slow = {}, ~PowerCuts, AtomicInv, [Next]_vars,
         NEW v \in Writers
  PROVE  Current(v)'
<1> USE DEF FileInv, TypeOK, At, Goto, Current
<1>1. Current(v) /\ FileInv /\ LockInv
  BY DEF AtomicInv
<1>2. ASSUME NEW w \in Writers,
             \/ Start(w) \/ TryLock(w) \/ LockUnavailable(w)
             \/ InspectLock(w) \/ Reclaim(w) \/ DropLock(w)
             \/ BodyFails(w) \/ TimeRunsOut(w) \/ Crash(w)
      PROVE  Current(v)'
  <2>1. UNCHANGED <<file, tmp, memory>>
    BY <1>2 DEF Start, TryLock, LockUnavailable, InspectLock, Reclaim,
                DropLock, BodyFails, TimeRunsOut, Crash
  <2>2. pc'[v] = pc[v] \/ pc'[v] \notin Saving
    BY <1>1, <1>2 DEF Start, TryLock, LockUnavailable, InspectLock, Reclaim,
                      DropLock, BodyFails, TimeRunsOut, Crash, Saving
  <2>3. QED BY <1>1, <2>1, <2>2 DEF Applicable, Effect, Saving
<1>3. ASSUME NEW w \in Writers, LoadAndChange(w) PROVE Current(v)'
  BY <1>1, <1>3 DEF LoadAndChange, Applicable, Effect, Saving
<1>4. ASSUME NEW w \in Writers, CreateTemp(w) PROVE Current(v)'
  BY <1>1, <1>4 DEF CreateTemp, Applicable, Effect, Saving
<1>5. ASSUME NEW w \in Writers, WriteTemp(w) PROVE Current(v)'
  BY <1>1, <1>5 DEF WriteTemp, Applicable, Effect, Saving
<1>6. ASSUME NEW w \in Writers, SyncTemp(w) PROVE Current(v)'
  BY <1>1, <1>6 DEF SyncTemp, Applicable, Effect, Saving, TempReady, LockInv, File
<1>7. ASSUME NEW w \in Writers, RenameTemp(w) PROVE Current(v)'
  <2>1. CASE v = w
    BY <1>1, <1>7, <2>1 DEF RenameTemp, Saving
  <2>2. CASE v # w
    <3>1. pc[v] \notin Critical
      BY <1>1, <1>7, <2>2 DEF RenameTemp, LockInv, Critical, Saving
    <3>2. QED BY <1>7, <2>2, <3>1 DEF RenameTemp, Critical, Saving
  <2>3. QED BY <2>1, <2>2
<1>8. CASE LockAges
  BY <1>1, <1>8 DEF LockAges, Applicable, Effect
<1>9. CASE PowerCut
  BY <1>9 DEF PowerCut
<1>10. CASE UNCHANGED vars
  BY <1>1, <1>10 DEF vars, Applicable, Effect
<1>11. QED
  BY <1>2, <1>3, <1>4, <1>5, <1>6, <1>7, <1>8, <1>9, <1>10 DEF Next, Step

(* As long as nothing makes a live holder's lock look stale, the lock file *)
(* excludes every other process.                                           *)
THEOREM LockExcludes ==
  ASSUME Crashing = {}, Slow = {}, ~PowerCuts
  PROVE  SafeSpec => []MutualExclusion
<1>1. AtomicInv /\ [Next]_vars => AtomicInv'
  BY NextFileInv, NextLockInv, NextCurrent DEF AtomicInv
<1>2. AtomicInv => MutualExclusion
  BY OneInside DEF AtomicInv
<1>3. QED BY <1>1, <1>2, InitAtomicInv, PTL DEF SafeSpec

(* A step that changes neither the file nor anybody's outcome stutters.    *)
LEMMA OutcomeKept ==
  ASSUME file' = file,
         \A v \in Writers : OutcomeAt(pc'[v]) = OutcomeAt(pc[v])
  PROVE  UNCHANGED Atomic!vars
  BY DEF Atomic!vars

(* A running call that gives up fails in the abstract specification.       *)
LEMMA OutcomeFails ==
  ASSUME TypeOK, NEW w \in Writers, NEW label \in {"abort", "failed"},
         OutcomeAt(pc[w]) = "running", Goto(w, label), file' = file
  PROVE  Atomic!Next
<1> DEFINE was == [v \in Writers |-> OutcomeAt(pc[v])]
           is == [v \in Writers |-> OutcomeAt(pc'[v])]
<1>1. OutcomeAt(label) = "failed"
  BY DEF OutcomeAt
<1>2. is = [was EXCEPT ![w] = "failed"]
  BY <1>1 DEF TypeOK, Goto
<1>3. Atomic!Fail(w)
  BY <1>2 DEF Atomic!Fail
<1>4. QED BY <1>3 DEF Atomic!Next

LEMMA StepRefines ==
  ASSUME AtomicInv, [Next]_vars
  PROVE  Atomic!Next \/ UNCHANGED Atomic!vars
<1>1. TypeOK
  BY DEF AtomicInv, FileInv
<1>2. ASSUME NEW w \in Writers,
             \/ Start(w) \/ TryLock(w) \/ Reclaim(w) \/ CreateTemp(w)
             \/ WriteTemp(w) \/ SyncTemp(w) \/ DropLock(w)
      PROVE  UNCHANGED Atomic!vars
  <2>1. file' = file
    BY <1>2 DEF Start, TryLock, Reclaim, CreateTemp, WriteTemp, SyncTemp, DropLock
  <2>2. \A v \in Writers : OutcomeAt(pc'[v]) = OutcomeAt(pc[v])
    BY <1>1, <1>2
       DEF Start, TryLock, Reclaim, CreateTemp, WriteTemp, SyncTemp, DropLock,
           At, Goto, TypeOK, OutcomeAt
  <2>3. QED BY <2>1, <2>2, OutcomeKept
<1>3. ASSUME NEW w \in Writers, InspectLock(w)
      PROVE  Atomic!Next \/ UNCHANGED Atomic!vars
  <2>1. file' = file /\ OutcomeAt(pc[w]) = "running"
    BY <1>3 DEF InspectLock, At, OutcomeAt
  <2>2. CASE Goto(w, "failed")
    BY <1>1, <2>1, <2>2, OutcomeFails
  <2>3. CASE Goto(w, "reclaim") \/ Goto(w, "try")
    <3>1. \A v \in Writers : OutcomeAt(pc'[v]) = OutcomeAt(pc[v])
      BY <1>1, <1>3, <2>3 DEF InspectLock, At, Goto, TypeOK, OutcomeAt
    <3>2. QED BY <2>1, <3>1, OutcomeKept
  <2>4. QED BY <1>3, <2>2, <2>3 DEF InspectLock
<1>4. ASSUME NEW w \in Writers, LoadAndChange(w)
      PROVE  Atomic!Next \/ UNCHANGED Atomic!vars
  <2>1. file' = file /\ OutcomeAt(pc[w]) = "running"
    BY <1>4 DEF LoadAndChange, At, OutcomeAt
  <2>2. CASE Goto(w, "abort")
    BY <1>1, <2>1, <2>2, OutcomeFails
  <2>3. CASE Goto(w, "create")
    <3>1. \A v \in Writers : OutcomeAt(pc'[v]) = OutcomeAt(pc[v])
      BY <1>1, <1>4, <2>3 DEF LoadAndChange, At, Goto, TypeOK, OutcomeAt
    <3>2. QED BY <2>1, <3>1, OutcomeKept
  <2>4. QED BY <1>4, <2>2, <2>3 DEF LoadAndChange
<1>5. ASSUME NEW w \in Writers, BodyFails(w) \/ LockUnavailable(w)
      PROVE  Atomic!Next
  <2>1. /\ file' = file /\ OutcomeAt(pc[w]) = "running"
        /\ Goto(w, "abort") \/ Goto(w, "failed")
    BY <1>5 DEF BodyFails, LockUnavailable, At, Saving, OutcomeAt
  <2>2. QED BY <1>1, <2>1, OutcomeFails
<1>6. ASSUME NEW w \in Writers, RenameTemp(w) PROVE Atomic!Next
  <2> DEFINE was == [v \in Writers |-> OutcomeAt(pc[v])]
             is == [v \in Writers |-> OutcomeAt(pc'[v])]
  <2>1. pc[w] = "rename" /\ pc' = [pc EXCEPT ![w] = "release"] /\ file' = tmp[w]
    BY <1>6 DEF RenameTemp, At, Goto
  <2>2. Applicable(w, file.data) /\ file'.data = Effect(w, file.data)
    BY <2>1 DEF AtomicInv, Current, Saving
  <2>3. was[w] = "running" /\ is = [was EXCEPT ![w] = "applied"]
    BY <1>1, <2>1 DEF TypeOK, OutcomeAt
  <2>4. Atomic!Apply(w)
    BY <2>2, <2>3 DEF Atomic!Apply, Atomic!Applicable, Atomic!Effect,
                      Applicable, Effect
  <2>5. QED BY <2>4 DEF Atomic!Next
<1>7. ASSUME NEW w \in Writers, TimeRunsOut(w) \/ Crash(w)
      PROVE  UNCHANGED Atomic!vars
  BY <1>7, OutcomeKept DEF TimeRunsOut, Crash
<1>8. CASE LockAges
  BY <1>8, OutcomeKept DEF LockAges
<1>9. CASE PowerCut
  <2>1. file' = file /\ pc' = pc
    BY <1>9 DEF PowerCut, AfterPowerCut, AtomicInv, FileInv
  <2>2. QED BY <2>1, OutcomeKept
<1>10. CASE UNCHANGED vars
  BY <1>10, OutcomeKept DEF vars
<1>11. QED
  BY <1>2, <1>3, <1>4, <1>5, <1>6, <1>7, <1>8, <1>9, <1>10 DEF Next, Step

(* Under the same assumption mutate is atomic: no update is ever lost.     *)
THEOREM MutateIsAtomic ==
  ASSUME Crashing = {}, Slow = {}, ~PowerCuts
  PROVE  SafeSpec => ImplementsAtomicCatalog
<1>1. AtomicInv /\ [Next]_vars => AtomicInv'
  BY NextFileInv, NextLockInv, NextCurrent DEF AtomicInv
<1>2. Init => Atomic!Init
  BY DEF Init, Atomic!Init, NoDatasets, OutcomeAt
<1>3. AtomicInv /\ [Next]_vars => [Atomic!Next]_(Atomic!vars)
  BY StepRefines
<1>4. QED
  BY <1>1, <1>2, <1>3, InitAtomicInv, PTL
     DEF SafeSpec, ImplementsAtomicCatalog, Atomic!Spec
=============================================================================
