--------------------------- MODULE GuestGen2_proofs ---------------------------
(***************************************************************************)
(* Proofs about GuestGen2 for any set of GPUs, workload units and modules. *)
(* The inductive invariant is the conjunction of nine named parts, each   *)
(* preserved by a lemma of its own with one step per action; the theorems  *)
(* at the end read the properties of GuestGen2 off it.                     *)
(***************************************************************************)
EXTENDS GuestGen2, TLAPS

(* The main program before and after MUTATING is set.                      *)
Before == {"gate", "survey", "stop", "unload", "backup"}
Inside == MainLabel \ Before

(* Where apply_signed_write and retrain_one keep cur away from NVIDIA.     *)
Away == {"hookin", "install", "boot", "restore", "handoff", "rebind", "speed",
         "rrebind"}

(* The process variables mean something only while a helper runs, and a    *)
(* helper that runs has an allow-list.                                     *)
IdleAtRest == pc = "idle" => AtRest
Listed == pc # "idle" => targets # {}

(* MUTATING is set exactly from the end of the backup to the exit, and the *)
(* main program never sets recovery_failed.                                *)
Window ==
  /\ pc \in Before => flags = {}
  /\ pc \in Inside => flags = {"MUTATING"}
  /\ pc \in {"c_restore", "c_check", "c_hook", "c_bind"} => Mutating

(* The backup is made of original firmware and complete before MUTATING.   *)
Saved ==
  /\ pc \in Before \ {"gate"} => fw = Stock
  /\ pc = "backup" => \A f \in File : f < n => backup[f] = "stock"
  /\ Mutating => backup = Stock

(* Foreign firmware outside the window is on record, and no cleanup that   *)
(* found the firmware right leaves the check with it wrong.                *)
Accounted ==
  /\ (~Mutating /\ fw # Stock) => trail # {}
  /\ (pc \in CleanupLabel \ {"c_restore", "c_check"} /\ Mutating /\
       ~RecoveryFailed)
        => fw = Stock

Firmware == Window /\ Saved /\ Accounted

(* What the cleanup has already put back, unless it recorded a failure.    *)
Recovered ==
  /\ (pc \in {"c_bind", "c_aux", "c_svc", "c_exit"} /\ Mutating /\
       ~RecoveryFailed)
        => hook = NoGPU /\ \A g \in targets \ todo : drv[g] = "nvidia"
  /\ (pc \in {"c_aux", "c_svc", "c_exit"} /\ Mutating) => todo = {}
  /\ (pc \in {"c_svc", "c_exit"} /\ ~RecoveryFailed) => auxRec \subseteq aux
  /\ pc = "c_exit" => \A u \in stopped : svc[u] # "down"

(* Only the current target, and only inside the handover, is off NVIDIA.   *)
Attached ==
  /\ pc \in Before => pay = "policy" /\ cur = NoGPU
  /\ pc \in Inside \ {"detach", "rdetach"} => cur \in targets
  /\ (pc = "detach" /\ pay = "vector") => cur \in targets
  /\ pc \in MainLabel \ {"gate"} =>
       \A g \in targets : drv[g] = "nvidia" \/ (g = cur /\ pc \in Away)

(* The hook is armed for the current target before the image is written,   *)
(* and the image is complete before nouveau is bound.                      *)
Armed ==
  /\ pc \in {"install", "boot"} => hook = cur
  /\ pc = "install" => \A f \in File : f < n => fw[f] = Image(pay)[f]
  /\ pc = "boot" => fw = Image(pay)

(* The targets the apply loop is done with carry both signed writes.       *)
Written ==
  /\ \A g \in GPUs : link[g] = 2 => g \in policy \cap vector
  /\ pc \in {"detach", "hookin", "install", "boot", "restore", "handoff",
              "rebind", "advert"} =>
       targets \ (todo \cup {cur}) \subseteq policy \cap vector
  /\ (pc \in Inside /\ pay = "vector") => cur \in policy
  /\ (pc = "detach" /\ pay = "policy" /\ cur \in targets) => cur \in policy
       \cap vector
  /\ pc = "rebind" => cur \in Register(pay)
  /\ pc = "advert" => cur \in vector /\ pay = "vector"
  /\ pc \in {"rdetach", "speed", "rrebind"} => targets \subseteq policy \cap
       vector

(* The targets the retrain loop is done with are at Gen2, and so are all   *)
(* targets of a run that is about to succeed.                              *)
Verified ==
  /\ pc \in {"rdetach", "speed", "rrebind"} =>
       \A g \in targets \ (todo \cup {cur}) : link[g] = 2 /\ advert[g] = 2
  /\ (pc \in CleanupLabel /\ rc = "ok") \/ pc \in {"final", "unhook", "query"}
       =>
       \A g \in targets : link[g] = 2 /\ advert[g] = 2 /\ drv[g] = "nvidia"
  /\ (pc = "rdetach" /\ cur \notin todo /\ cur \in targets) =>
       link[cur] = 2 /\ advert[cur] = 2

IInv == /\ TypeOK
        /\ IdleAtRest
        /\ Listed
        /\ Firmware
        /\ Recovered
        /\ Attached
        /\ Armed
        /\ Written
        /\ Verified

------------------------------------------------------------------------------

(* A retrained link is a link.                                             *)
LEMMA Retrained ==
  ASSUME NEW L \in [GPUs -> 1 .. 2], NEW g
  PROVE  [L EXCEPT ![g] = 2] \in [GPUs -> 1 .. 2]
  <1>1. \A h \in GPUs : [L EXCEPT ![g] = 2][h] \in 1 .. 2
    OBVIOUS
  <1>2. QED
    BY <1>1

(* The firmware values the actions write are firmware values.              *)
LEMMA Contents ==
  /\ Stock \in [File -> Content]
  /\ NoBackup \in [File -> Content \cup {"absent"}]
  /\ "torn" \in Content /\ "stock" \in Content
  /\ \A p \in Payload : Image(p) \in [File -> Content]
  BY DEF Stock, NoBackup, Content, Image, Payload

(* Platform: one step per group of variables an action may disturb.        *)
LEMMA PlatformStep ==
  ASSUME TypeOK, Next,
         pc = "boot" => cur \in targets,
         Mutating => backup = Stock,
         pc \in {"restore", "final", "c_restore"} => Mutating
  PROVE  PlatformTypeOK'
  <1> USE DEF TypeOK, PlatformTypeOK, RunTypeOK, platformVars, regVars,
        linkVars
  <1>1. CASE UNCHANGED platformVars
    BY <1>1
  <1>2. CASE (\E u \in Workloads : StopUnit(u)) \/ StopPersistenced \/
       RestoreServices
    BY <1>2 DEF StopUnit, Reached, Stopped, StopPersistenced, RestoreServices, Held
  <1>3. CASE (\E m \in AuxModules : UnloadAux(m)) \/ CleanupAux
    BY <1>3 DEF UnloadAux, CleanupAux
  <1>4. CASE HookIn \/ Unhook \/ CleanupHook
    BY <1>4 DEF HookIn, Unhook, CleanupHook
  <1>5. CASE Detach
    BY <1>5 DEF Detach, Unbind
  <1>6. CASE Handoff
    BY <1>6 DEF Handoff, Unbind
  <1>7. CASE RetrainDetach
    BY <1>7 DEF RetrainDetach, Unbind
  <1>8. CASE Rebind \/ RetrainRebind
    <2>1. /\ NvidiaBind(cur)
          /\ UNCHANGED <<fw, hook, regVars, link, aux, svc>>
      BY <1>8 DEF Rebind, RetrainRebind
    <2>2. drv' \in [GPUs -> {"nvidia", "nouveau", "none"}]
      BY <2>1 DEF NvidiaBind
    <2>3. advert' \in [GPUs -> 1 .. 2]
      BY <2>1 DEF NvidiaBind
    <2>4. QED
      BY <2>1, <2>2, <2>3
  <1>9. CASE ChangeSpeed
    <2>1. link' = [link EXCEPT ![cur] = 2]
      BY <1>9 DEF ChangeSpeed
    <2>2. link' \in [GPUs -> 1 .. 2]
      BY <2>1, Retrained
    <2>3. QED
      BY <2>2, <1>9 DEF ChangeSpeed
  <1>10. CASE \E g \in GPUs : CleanupBind(g)
    <2> PICK g \in GPUs : CleanupBind(g)
      BY <1>10
    <2>1. CASE UNCHANGED <<drv, advert>>
      BY <2>1 DEF CleanupBind
    <2>2. CASE NvidiaBind(g)
      BY <2>2 DEF CleanupBind, NvidiaBind
    <2>3. CASE Unbind(g) /\ UNCHANGED advert
      BY <2>3 DEF CleanupBind, Unbind
    <2>4. QED
      BY <2>1, <2>2, <2>3 DEF CleanupBind
  <1>11. CASE Install
    BY <1>11, Contents DEF Install, Put, Tear, Payload
  <1>12. CASE Restore \/ Final
    BY <1>12, Contents DEF Restore, Final, RestoreTo, Put, Tear, Original
  <1>13. CASE CleanupRestore
    BY <1>13, Contents DEF CleanupRestore, Put, Tear, Original
  <1>14. CASE Boot
    BY <1>14 DEF Boot, NouveauBoot
  <1>15. CASE SignalCleanup \/ Kill
    BY <1>15, Contents DEF SignalCleanup, Kill, Vanish, MaybeTorn, Tear, Put
  <1>16. CASE PowerCycle
    BY <1>16, Contents DEF PowerCycle, PlatformReset, MaybeTorn, Tear, Put, Held
  <1>17. CASE \E g \in GPUs : TensorUnlocked(g)
    BY <1>17 DEF TensorUnlocked
  <1>18. CASE \/ \E g \in GPUs : LinkDegraded(g)
             \/ \E u \in Units : UnitSettles(u)
    BY <1>18 DEF LinkDegraded, Degrade, UnitSettles, StartSettles, Held
  <1>19. CASE FirmwareRepaired
    BY <1>19, Contents DEF FirmwareRepaired
  <1>20. CASE Start \/ Gate \/ Survey \/ LoadNouveau \/ Backup \/ Advert \/
       Query \/ CleanupCheck
              \/ CleanupBound \/ Exit \/ Fail \/ Signal
    BY <1>20, <1>1 DEF Start, Gate, Survey, LoadNouveau, Backup, Advert, Query,
         CleanupCheck, CleanupBound,
          Exit, Fail, Signal
  <1>21. QED
    BY <1>2, <1>3, <1>4, <1>5, <1>6, <1>7, <1>8, <1>9, <1>10, <1>11,
       <1>12, <1>13, <1>14, <1>15, <1>16, <1>17, <1>18, <1>19, <1>20
       DEF Next, Step, Environment

(* Process: a step per action.                                             *)
LEMMA RunStep ==
  ASSUME TypeOK, Next, pc = "idle" => AtRest
  PROVE  RunTypeOK'
  <1> USE Contents DEF TypeOK, RunTypeOK, PlatformTypeOK, loopVars, recordVars,
        pastVars,
        Goto, Quit, NextFile, File, Ucode, MainLabel, CleanupLabel, Ended,
             Trail, AtRest
  <1>1. CASE Start
    BY <1>1 DEF Start
  <1>2. CASE Gate
    BY <1>2 DEF Gate
  <1>3. CASE Survey
    BY <1>3 DEF Survey
  <1>4. CASE StopPersistenced
    BY <1>4 DEF StopPersistenced, Stopped
  <1>5. CASE LoadNouveau
    BY <1>5 DEF LoadNouveau
  <1>6. CASE Backup
    <2>1. backup' \in [File -> Content \cup {"absent"}]
      BY <1>6 DEF Backup
    <2>2. flags' \in SUBSET {"MUTATING", "recovery_failed"} /\ todo' \in SUBSET
         targets'
      BY <1>6 DEF Backup
    <2>3. QED
      BY <2>1, <2>2, <1>6 DEF Backup
  <1>7. CASE \E u \in Workloads : StopUnit(u)
    <2> PICK u \in Workloads : StopUnit(u)
      BY <1>7
    <2>1. units' \in SUBSET Workloads
      BY DEF StopUnit, Reached
    <2>2. stopped' \in SUBSET Units
      BY UnitsAssumption DEF StopUnit, Reached
    <2>3. /\ pc' \in {"idle"} \cup MainLabel \cup CleanupLabel
          /\ n' \in File
          /\ rc' \in {"ok", "error"}
      BY DEF StopUnit, Reached
    <2>4. QED
      BY <2>1, <2>2, <2>3 DEF StopUnit
  <1>8. CASE \E m \in AuxModules : UnloadAux(m)
    BY <1>8 DEF UnloadAux
  <1>9. CASE Detach
    BY <1>9 DEF Detach, Unbind
  <1>10. CASE HookIn
    BY <1>10 DEF HookIn
  <1>11. CASE Install
    BY <1>11 DEF Install, Put, Tear, Image
  <1>12. CASE Boot
    BY <1>12 DEF Boot, NouveauBoot
  <1>13. CASE Restore
    BY <1>13 DEF Restore, RestoreTo, Put, Tear, Original
  <1>14. CASE Handoff
    BY <1>14 DEF Handoff, Unbind
  <1>15. CASE Rebind
    BY <1>15 DEF Rebind, NvidiaBind
  <1>16. CASE Advert
    BY <1>16 DEF Advert
  <1>17. CASE RetrainDetach
    BY <1>17 DEF RetrainDetach, Unbind
  <1>18. CASE ChangeSpeed
    BY <1>18 DEF ChangeSpeed
  <1>19. CASE RetrainRebind
    BY <1>19 DEF RetrainRebind, NvidiaBind
  <1>20. CASE Final
    BY <1>20 DEF Final, RestoreTo, Put, Tear, Original
  <1>21. CASE Unhook
    BY <1>21 DEF Unhook
  <1>22. CASE Query
    BY <1>22 DEF Query
  <1>23. CASE CleanupRestore
    BY <1>23 DEF CleanupRestore, Put, Tear, Original
  <1>24. CASE CleanupCheck
    <2>1. flags' \in SUBSET {"MUTATING", "recovery_failed"}
      BY <1>24 DEF CleanupCheck, RecordFailure
    <2>2. QED
      BY <2>1, <1>24 DEF CleanupCheck
  <1>25. CASE CleanupHook
    <2>1. flags' \in SUBSET {"MUTATING", "recovery_failed"}
      BY <1>25 DEF CleanupHook, RecordFailure
    <2>2. QED
      BY <2>1, <1>25 DEF CleanupHook
  <1>26. CASE \E g \in GPUs : CleanupBind(g)
    BY <1>26 DEF CleanupBind, NvidiaBind, Unbind, RecordFailure
  <1>27. CASE CleanupBound
    BY <1>27 DEF CleanupBound
  <1>28. CASE CleanupAux
    <2>1. flags' \in SUBSET {"MUTATING", "recovery_failed"}
      BY <1>28 DEF CleanupAux, RecordFailure
    <2>2. QED
      BY <2>1, <1>28 DEF CleanupAux
  <1>29. CASE RestoreServices
    BY <1>29 DEF RestoreServices
  <1>30. CASE Exit
    <2>1. outcome' \in Ended /\ trail' \in SUBSET Trail
      BY <1>30 DEF Exit, Retain
    <2>2. QED
      BY <2>1, <1>30 DEF Exit, Vanished
  <1>31. CASE Fail \/ Signal
    <2>1. pc' \in CleanupLabel /\ n' \in File /\ rc' \in {"ok", "error"}
      BY <1>31 DEF Fail, Signal
    <2>2. QED
      BY <2>1, <1>31 DEF Fail, Signal
  <1>32. CASE SignalCleanup \/ Kill
    <2>1. outcome' \in Ended /\ trail' \in SUBSET Trail
      BY <1>32 DEF SignalCleanup, Kill, Vanish, Retain
    <2>2. QED
      BY <2>1, <1>32 DEF SignalCleanup, Kill, Vanish, Vanished
  <1>33. CASE PowerCycle
    BY <1>33 DEF PowerCycle, PlatformReset, Vanished, MaybeTorn, Tear, Put
  <1>34. CASE \/ \E g \in GPUs : TensorUnlocked(g) \/ LinkDegraded(g)
             \/ \E u \in Units : UnitSettles(u)
    <2>1. CASE \E g \in GPUs : TensorUnlocked(g) \/ LinkDegraded(g)
      BY <2>1 DEF TensorUnlocked, LinkDegraded, Degrade, runVars
    <2>2. CASE \E u \in Units : UnitSettles(u)
      BY <2>2 DEF UnitSettles, StartSettles, runVars
    <2>3. QED
      BY <1>34, <2>1, <2>2
  <1>35. CASE FirmwareRepaired
    BY <1>35 DEF FirmwareRepaired
  <1>36. CASE UNCHANGED vars
    BY <1>36 DEF vars, runVars
  <1>37. QED
    BY <1>1, <1>2, <1>3, <1>4, <1>5, <1>6, <1>7, <1>8, <1>9, <1>10, <1>11,
       <1>12, <1>13, <1>14, <1>15, <1>16, <1>17, <1>18, <1>19, <1>20, <1>21,
       <1>22, <1>23, <1>24, <1>25, <1>26, <1>27, <1>28, <1>29, <1>30, <1>31,
       <1>32, <1>33, <1>34, <1>35, <1>36
       DEF Next, Step, Environment

(* Firmware files, backup and the window around them.                      *)
LEMMA FirmwareStep ==
  ASSUME TypeOK, Next, pc = "idle" => AtRest, Firmware
  PROVE  Firmware'
  <1> USE DEF TypeOK, RunTypeOK, PlatformTypeOK, platformVars, loopVars,
        recordVars, pastVars,
        Goto, Quit, NextFile, File, Ucode, MainLabel, CleanupLabel, AtRest,
             Firmware, Window, Saved, Accounted, Mutating, RecoveryFailed,
             Before, Inside
  <1>1. CASE Start
    BY <1>1 DEF Start
  <1>2. CASE Gate
    BY <1>2 DEF Gate
  <1>3. CASE Survey
    BY <1>3 DEF Survey
  <1>4. CASE StopPersistenced
    BY <1>4 DEF StopPersistenced, Stopped
  <1>5. CASE LoadNouveau
    BY <1>5 DEF LoadNouveau
  <1>6. CASE Backup
    <2>1. \A f \in File : f < n => backup[f] = "stock"
      BY <1>6 DEF Backup
    <2>2. \A f \in File : f < n + 1 => backup'[f] = "stock"
      BY <2>1, <1>6 DEF Backup, Stock
    <2>3. backup' = [f \in File |-> backup'[f]]
      BY <1>6 DEF Backup
    <2>4. n = Ucode => backup' = Stock
      BY <2>2, <2>3 DEF Stock
    <2>5. QED
      BY <2>2, <2>4, <1>6 DEF Backup
  <1>7. CASE \E u \in Workloads : StopUnit(u)
    BY <1>7 DEF StopUnit, Reached, Stopped
  <1>8. CASE \E m \in AuxModules : UnloadAux(m)
    BY <1>8 DEF UnloadAux
  <1>9. CASE Detach
    BY <1>9 DEF Detach, Unbind
  <1>10. CASE HookIn
    BY <1>10 DEF HookIn
  <1>11. CASE Install
    BY <1>11 DEF Install, Put, Tear, Image
  <1>12. CASE Boot
    BY <1>12 DEF Boot, NouveauBoot
  <1>13. CASE Restore
    BY <1>13 DEF Restore, RestoreTo, Put, Tear, Original
  <1>14. CASE Handoff
    BY <1>14 DEF Handoff, Unbind
  <1>15. CASE Rebind
    BY <1>15 DEF Rebind, NvidiaBind
  <1>16. CASE Advert
    BY <1>16 DEF Advert
  <1>17. CASE RetrainDetach
    BY <1>17 DEF RetrainDetach, Unbind
  <1>18. CASE ChangeSpeed
    BY <1>18 DEF ChangeSpeed
  <1>19. CASE RetrainRebind
    BY <1>19 DEF RetrainRebind, NvidiaBind
  <1>20. CASE Final
    BY <1>20 DEF Final, RestoreTo, Put, Tear, Original
  <1>21. CASE Unhook
    BY <1>21 DEF Unhook
  <1>22. CASE Query
    BY <1>22 DEF Query
  <1>23. CASE CleanupRestore
    BY <1>23 DEF CleanupRestore, Put, Tear, Original
  <1>24. CASE CleanupCheck
    BY <1>24 DEF CleanupCheck, RecordFailure
  <1>25. CASE CleanupHook
    BY <1>25 DEF CleanupHook, RecordFailure
  <1>26. CASE \E g \in GPUs : CleanupBind(g)
    BY <1>26 DEF CleanupBind, NvidiaBind, Unbind, RecordFailure
  <1>27. CASE CleanupBound
    BY <1>27 DEF CleanupBound
  <1>28. CASE CleanupAux
    BY <1>28 DEF CleanupAux, RecordFailure
  <1>29. CASE RestoreServices
    BY <1>29 DEF RestoreServices
  <1>30. CASE Exit
    BY <1>30 DEF Exit, Vanished, Retain
  <1>31. CASE Fail \/ Signal
    BY <1>31 DEF Fail, Signal
  <1>32. CASE SignalCleanup \/ Kill
    <2>1. fw' # fw => Mutating
      BY <1>32 DEF SignalCleanup, Kill, Vanish, MaybeTorn, CopyLabel
    <2>2. Mutating => trail' # {}
      BY <1>32 DEF SignalCleanup, Kill, Vanish, Retain
    <2>3. trail \subseteq trail'
      BY <1>32 DEF SignalCleanup, Kill, Vanish, Retain
    <2>4. fw' # Stock => trail' # {}
      BY <2>1, <2>2, <2>3
    <2>5. QED
      BY <2>4, <1>32 DEF SignalCleanup, Kill, Vanish, Vanished
  <1>33. CASE PowerCycle
    BY <1>33 DEF PowerCycle, PlatformReset, Vanished, MaybeTorn, Tear, Put
  <1>34. CASE \/ \E g \in GPUs : TensorUnlocked(g) \/ LinkDegraded(g)
             \/ \E u \in Units : UnitSettles(u)
    <2>1. CASE \E g \in GPUs : TensorUnlocked(g) \/ LinkDegraded(g)
      BY <2>1 DEF TensorUnlocked, LinkDegraded, Degrade, runVars
    <2>2. CASE \E u \in Units : UnitSettles(u)
      BY <2>2 DEF UnitSettles, StartSettles, runVars
    <2>3. QED
      BY <1>34, <2>1, <2>2
  <1>35. CASE FirmwareRepaired
    BY <1>35 DEF FirmwareRepaired
  <1>36. CASE UNCHANGED vars
    BY <1>36 DEF vars, runVars
  <1>37. QED
    BY <1>1, <1>2, <1>3, <1>4, <1>5, <1>6, <1>7, <1>8, <1>9, <1>10, <1>11,
       <1>12, <1>13, <1>14, <1>15, <1>16, <1>17, <1>18, <1>19, <1>20, <1>21,
       <1>22, <1>23, <1>24, <1>25, <1>26, <1>27, <1>28, <1>29, <1>30, <1>31,
       <1>32, <1>33, <1>34, <1>35, <1>36
       DEF Next, Step, Environment

(* Cleanup.                                                                *)
LEMMA RecoveredStep ==
  ASSUME TypeOK, Next, Window, Recovered
  PROVE  Recovered'
  <1> USE DEF TypeOK, RunTypeOK, PlatformTypeOK, platformVars, loopVars,
        recordVars, pastVars,
        Goto, Quit, NextFile, MainLabel, CleanupLabel, Window, Recovered,
             Mutating, RecoveryFailed, Before, Inside
  <1>1. CASE Start
    BY <1>1 DEF Start
  <1>2. CASE Gate
    BY <1>2 DEF Gate
  <1>3. CASE Survey
    BY <1>3 DEF Survey
  <1>4. CASE StopPersistenced
    BY <1>4 DEF StopPersistenced, Stopped
  <1>5. CASE LoadNouveau
    BY <1>5 DEF LoadNouveau
  <1>6. CASE Backup
    BY <1>6 DEF Backup
  <1>7. CASE \E u \in Workloads : StopUnit(u)
    BY <1>7 DEF StopUnit, Reached, Stopped
  <1>8. CASE \E m \in AuxModules : UnloadAux(m)
    BY <1>8 DEF UnloadAux
  <1>9. CASE Detach
    BY <1>9 DEF Detach, Unbind
  <1>10. CASE HookIn
    BY <1>10 DEF HookIn
  <1>11. CASE Install
    BY <1>11 DEF Install, Put, Tear, Image
  <1>12. CASE Boot
    BY <1>12 DEF Boot, NouveauBoot
  <1>13. CASE Restore
    BY <1>13 DEF Restore, RestoreTo, Put, Tear, Original
  <1>14. CASE Handoff
    BY <1>14 DEF Handoff, Unbind
  <1>15. CASE Rebind
    BY <1>15 DEF Rebind, NvidiaBind
  <1>16. CASE Advert
    BY <1>16 DEF Advert
  <1>17. CASE RetrainDetach
    BY <1>17 DEF RetrainDetach, Unbind
  <1>18. CASE ChangeSpeed
    BY <1>18 DEF ChangeSpeed
  <1>19. CASE RetrainRebind
    BY <1>19 DEF RetrainRebind, NvidiaBind
  <1>20. CASE Final
    BY <1>20 DEF Final, RestoreTo, Put, Tear, Original
  <1>21. CASE Unhook
    BY <1>21 DEF Unhook
  <1>22. CASE Query
    BY <1>22 DEF Query
  <1>23. CASE CleanupRestore
    BY <1>23 DEF CleanupRestore, Put, Tear, Original
  <1>24. CASE CleanupCheck
    BY <1>24 DEF CleanupCheck, RecordFailure
  <1>25. CASE CleanupHook
    BY <1>25 DEF CleanupHook, RecordFailure
  <1>26. CASE \E g \in GPUs : CleanupBind(g)
    BY <1>26 DEF CleanupBind, NvidiaBind, Unbind, RecordFailure
  <1>27. CASE CleanupBound
    BY <1>27 DEF CleanupBound
  <1>28. CASE CleanupAux
    BY <1>28 DEF CleanupAux, RecordFailure
  <1>29. CASE RestoreServices
    BY <1>29 DEF RestoreServices
  <1>30. CASE Exit
    BY <1>30 DEF Exit, Vanished, Retain
  <1>31. CASE Fail \/ Signal
    BY <1>31 DEF Fail, Signal
  <1>32. CASE SignalCleanup \/ Kill
    BY <1>32 DEF SignalCleanup, Kill, Vanish, Vanished, Retain, MaybeTorn,
         Tear, Put
  <1>33. CASE PowerCycle
    BY <1>33 DEF PowerCycle, PlatformReset, Vanished, MaybeTorn, Tear, Put
  <1>34. CASE \/ \E g \in GPUs : TensorUnlocked(g) \/ LinkDegraded(g)
             \/ \E u \in Units : UnitSettles(u)
    BY <1>34 DEF TensorUnlocked, LinkDegraded, Degrade, UnitSettles, StartSettles,
       runVars
  <1>35. CASE FirmwareRepaired
    BY <1>35 DEF FirmwareRepaired
  <1>36. CASE UNCHANGED vars
    BY <1>36 DEF vars, runVars
  <1>37. QED
    BY <1>1, <1>2, <1>3, <1>4, <1>5, <1>6, <1>7, <1>8, <1>9, <1>10, <1>11,
       <1>12, <1>13, <1>14, <1>15, <1>16, <1>17, <1>18, <1>19, <1>20, <1>21,
       <1>22, <1>23, <1>24, <1>25, <1>26, <1>27, <1>28, <1>29, <1>30, <1>31,
       <1>32, <1>33, <1>34, <1>35, <1>36
       DEF Next, Step, Environment

(* Driver bindings.                                                        *)
LEMMA AttachedStep ==
  ASSUME TypeOK, Next, Attached, pc = "idle" => AtRest
  PROVE  Attached'
  <1> USE DEF TypeOK, RunTypeOK, PlatformTypeOK, platformVars, loopVars,
        Goto, Quit, NextFile, MainLabel, CleanupLabel, Attached, Before,
             Inside, Away, AtRest
  <1>1. CASE Start
    BY <1>1 DEF Start
  <1>2. CASE Gate
    BY <1>2 DEF Gate
  <1>3. CASE Survey
    BY <1>3 DEF Survey
  <1>4. CASE StopPersistenced
    BY <1>4 DEF StopPersistenced, Stopped
  <1>5. CASE LoadNouveau
    BY <1>5 DEF LoadNouveau
  <1>6. CASE Backup
    BY <1>6 DEF Backup
  <1>7. CASE \E u \in Workloads : StopUnit(u)
    BY <1>7 DEF StopUnit, Reached, Stopped
  <1>8. CASE \E m \in AuxModules : UnloadAux(m)
    BY <1>8 DEF UnloadAux
  <1>9. CASE Detach
    BY <1>9 DEF Detach, Unbind
  <1>10. CASE HookIn
    BY <1>10 DEF HookIn
  <1>11. CASE Install
    BY <1>11 DEF Install, Put, Tear, Image
  <1>12. CASE Boot
    BY <1>12 DEF Boot, NouveauBoot
  <1>13. CASE Restore
    BY <1>13 DEF Restore, RestoreTo, Put, Tear, Original
  <1>14. CASE Handoff
    BY <1>14 DEF Handoff, Unbind
  <1>15. CASE Rebind
    BY <1>15 DEF Rebind, NvidiaBind
  <1>16. CASE Advert
    BY <1>16 DEF Advert
  <1>17. CASE RetrainDetach
    BY <1>17 DEF RetrainDetach, Unbind
  <1>18. CASE ChangeSpeed
    BY <1>18 DEF ChangeSpeed
  <1>19. CASE RetrainRebind
    BY <1>19 DEF RetrainRebind, NvidiaBind
  <1>20. CASE Final
    BY <1>20 DEF Final, RestoreTo, Put, Tear, Original
  <1>21. CASE Unhook
    BY <1>21 DEF Unhook
  <1>22. CASE Query
    BY <1>22 DEF Query
  <1>23. CASE CleanupRestore
    BY <1>23 DEF CleanupRestore, Put, Tear, Original
  <1>24. CASE CleanupCheck
    BY <1>24 DEF CleanupCheck, RecordFailure
  <1>25. CASE CleanupHook
    BY <1>25 DEF CleanupHook, RecordFailure
  <1>26. CASE \E g \in GPUs : CleanupBind(g)
    BY <1>26 DEF CleanupBind, NvidiaBind, Unbind, RecordFailure
  <1>27. CASE CleanupBound
    BY <1>27 DEF CleanupBound
  <1>28. CASE CleanupAux
    BY <1>28 DEF CleanupAux, RecordFailure
  <1>29. CASE RestoreServices
    BY <1>29 DEF RestoreServices
  <1>30. CASE Exit
    BY <1>30 DEF Exit, Vanished, Retain
  <1>31. CASE Fail \/ Signal
    BY <1>31 DEF Fail, Signal
  <1>32. CASE SignalCleanup \/ Kill
    BY <1>32 DEF SignalCleanup, Kill, Vanish, Vanished, Retain, MaybeTorn,
         Tear, Put
  <1>33. CASE PowerCycle
    BY <1>33 DEF PowerCycle, PlatformReset, Vanished, MaybeTorn, Tear, Put
  <1>34. CASE \/ \E g \in GPUs : TensorUnlocked(g) \/ LinkDegraded(g)
             \/ \E u \in Units : UnitSettles(u)
    BY <1>34 DEF TensorUnlocked, LinkDegraded, Degrade, UnitSettles, StartSettles,
       runVars
  <1>35. CASE FirmwareRepaired
    BY <1>35 DEF FirmwareRepaired
  <1>36. CASE UNCHANGED vars
    BY <1>36 DEF vars, runVars
  <1>37. QED
    BY <1>1, <1>2, <1>3, <1>4, <1>5, <1>6, <1>7, <1>8, <1>9, <1>10, <1>11,
       <1>12, <1>13, <1>14, <1>15, <1>16, <1>17, <1>18, <1>19, <1>20, <1>21,
       <1>22, <1>23, <1>24, <1>25, <1>26, <1>27, <1>28, <1>29, <1>30, <1>31,
       <1>32, <1>33, <1>34, <1>35, <1>36
       DEF Next, Step, Environment

(* Hook and image.                                                         *)
LEMMA ArmedStep ==
  ASSUME TypeOK, Next, Armed
  PROVE  Armed'
  <1> USE DEF TypeOK, RunTypeOK, PlatformTypeOK, platformVars, loopVars,
        Goto, Quit, NextFile, MainLabel, CleanupLabel, Armed, File, Ucode
  <1>1. CASE Start
    BY <1>1 DEF Start
  <1>2. CASE Gate
    BY <1>2 DEF Gate
  <1>3. CASE Survey
    BY <1>3 DEF Survey
  <1>4. CASE StopPersistenced
    BY <1>4 DEF StopPersistenced, Stopped
  <1>5. CASE LoadNouveau
    BY <1>5 DEF LoadNouveau
  <1>6. CASE Backup
    BY <1>6 DEF Backup
  <1>7. CASE \E u \in Workloads : StopUnit(u)
    BY <1>7 DEF StopUnit, Reached, Stopped
  <1>8. CASE \E m \in AuxModules : UnloadAux(m)
    BY <1>8 DEF UnloadAux
  <1>9. CASE Detach
    BY <1>9 DEF Detach, Unbind
  <1>10. CASE HookIn
    BY <1>10 DEF HookIn
  <1>11. CASE Install
    BY <1>11 DEF Install, Put, Tear, Image
  <1>12. CASE Boot
    BY <1>12 DEF Boot, NouveauBoot
  <1>13. CASE Restore
    BY <1>13 DEF Restore, RestoreTo, Put, Tear, Original
  <1>14. CASE Handoff
    BY <1>14 DEF Handoff, Unbind
  <1>15. CASE Rebind
    BY <1>15 DEF Rebind, NvidiaBind
  <1>16. CASE Advert
    BY <1>16 DEF Advert
  <1>17. CASE RetrainDetach
    BY <1>17 DEF RetrainDetach, Unbind
  <1>18. CASE ChangeSpeed
    BY <1>18 DEF ChangeSpeed
  <1>19. CASE RetrainRebind
    BY <1>19 DEF RetrainRebind, NvidiaBind
  <1>20. CASE Final
    BY <1>20 DEF Final, RestoreTo, Put, Tear, Original
  <1>21. CASE Unhook
    BY <1>21 DEF Unhook
  <1>22. CASE Query
    BY <1>22 DEF Query
  <1>23. CASE CleanupRestore
    BY <1>23 DEF CleanupRestore, Put, Tear, Original
  <1>24. CASE CleanupCheck
    BY <1>24 DEF CleanupCheck, RecordFailure
  <1>25. CASE CleanupHook
    BY <1>25 DEF CleanupHook, RecordFailure
  <1>26. CASE \E g \in GPUs : CleanupBind(g)
    BY <1>26 DEF CleanupBind, NvidiaBind, Unbind, RecordFailure
  <1>27. CASE CleanupBound
    BY <1>27 DEF CleanupBound
  <1>28. CASE CleanupAux
    BY <1>28 DEF CleanupAux, RecordFailure
  <1>29. CASE RestoreServices
    BY <1>29 DEF RestoreServices
  <1>30. CASE Exit
    BY <1>30 DEF Exit, Vanished, Retain
  <1>31. CASE Fail \/ Signal
    BY <1>31 DEF Fail, Signal
  <1>32. CASE SignalCleanup \/ Kill
    BY <1>32 DEF SignalCleanup, Kill, Vanish, Vanished, Retain, MaybeTorn,
         Tear, Put
  <1>33. CASE PowerCycle
    BY <1>33 DEF PowerCycle, PlatformReset, Vanished, MaybeTorn, Tear, Put
  <1>34. CASE \/ \E g \in GPUs : TensorUnlocked(g) \/ LinkDegraded(g)
             \/ \E u \in Units : UnitSettles(u)
    BY <1>34 DEF TensorUnlocked, LinkDegraded, Degrade, UnitSettles, StartSettles,
       runVars
  <1>35. CASE FirmwareRepaired
    BY <1>35 DEF FirmwareRepaired
  <1>36. CASE UNCHANGED vars
    BY <1>36 DEF vars, runVars
  <1>37. QED
    BY <1>1, <1>2, <1>3, <1>4, <1>5, <1>6, <1>7, <1>8, <1>9, <1>10, <1>11,
       <1>12, <1>13, <1>14, <1>15, <1>16, <1>17, <1>18, <1>19, <1>20, <1>21,
       <1>22, <1>23, <1>24, <1>25, <1>26, <1>27, <1>28, <1>29, <1>30, <1>31,
       <1>32, <1>33, <1>34, <1>35, <1>36
       DEF Next, Step, Environment

(* Signed writes.                                                          *)
LEMMA WrittenStep ==
  ASSUME TypeOK, Next, Attached, Written, pc = "idle" => AtRest
  PROVE  Written'
  <1> USE NoGPUAssumption DEF TypeOK, RunTypeOK, PlatformTypeOK, platformVars,
        loopVars, regVars, linkVars,
        Goto, Quit, NextFile, MainLabel, CleanupLabel, Attached, Written,
             Register,Before, Inside, AtRest
  <1>1. CASE Start
    BY <1>1 DEF Start
  <1>2. CASE Gate
    BY <1>2 DEF Gate
  <1>3. CASE Survey
    BY <1>3 DEF Survey
  <1>4. CASE StopPersistenced
    BY <1>4 DEF StopPersistenced, Stopped
  <1>5. CASE LoadNouveau
    BY <1>5 DEF LoadNouveau
  <1>6. CASE Backup
    BY <1>6 DEF Backup
  <1>7. CASE \E u \in Workloads : StopUnit(u)
    BY <1>7 DEF StopUnit, Reached, Stopped
  <1>8. CASE \E m \in AuxModules : UnloadAux(m)
    BY <1>8 DEF UnloadAux
  <1>9. CASE Detach
    BY <1>9 DEF Detach, Unbind
  <1>10. CASE HookIn
    BY <1>10 DEF HookIn
  <1>11. CASE Install
    BY <1>11 DEF Install, Put, Tear, Image
  <1>12. CASE Boot
    BY <1>12 DEF Boot, NouveauBoot
  <1>13. CASE Restore
    BY <1>13 DEF Restore, RestoreTo, Put, Tear, Original
  <1>14. CASE Handoff
    BY <1>14 DEF Handoff, Unbind
  <1>15. CASE Rebind
    BY <1>15 DEF Rebind, NvidiaBind
  <1>16. CASE Advert
    BY <1>16 DEF Advert
  <1>17. CASE RetrainDetach
    BY <1>17 DEF RetrainDetach, Unbind
  <1>18. CASE ChangeSpeed
    BY <1>18 DEF ChangeSpeed
  <1>19. CASE RetrainRebind
    BY <1>19 DEF RetrainRebind, NvidiaBind
  <1>20. CASE Final
    BY <1>20 DEF Final, RestoreTo, Put, Tear, Original
  <1>21. CASE Unhook
    BY <1>21 DEF Unhook
  <1>22. CASE Query
    BY <1>22 DEF Query
  <1>23. CASE CleanupRestore
    BY <1>23 DEF CleanupRestore, Put, Tear, Original
  <1>24. CASE CleanupCheck
    BY <1>24 DEF CleanupCheck, RecordFailure
  <1>25. CASE CleanupHook
    BY <1>25 DEF CleanupHook, RecordFailure
  <1>26. CASE \E g \in GPUs : CleanupBind(g)
    BY <1>26 DEF CleanupBind, NvidiaBind, Unbind, RecordFailure
  <1>27. CASE CleanupBound
    BY <1>27 DEF CleanupBound
  <1>28. CASE CleanupAux
    BY <1>28 DEF CleanupAux, RecordFailure
  <1>29. CASE RestoreServices
    BY <1>29 DEF RestoreServices
  <1>30. CASE Exit
    BY <1>30 DEF Exit, Vanished, Retain
  <1>31. CASE Fail \/ Signal
    BY <1>31 DEF Fail, Signal
  <1>32. CASE SignalCleanup \/ Kill
    BY <1>32 DEF SignalCleanup, Kill, Vanish, Vanished, Retain, MaybeTorn,
         Tear, Put
  <1>33. CASE PowerCycle
    BY <1>33 DEF PowerCycle, PlatformReset, Vanished, MaybeTorn, Tear, Put
  <1>34. CASE \/ \E g \in GPUs : TensorUnlocked(g) \/ LinkDegraded(g)
             \/ \E u \in Units : UnitSettles(u)
    BY <1>34 DEF TensorUnlocked, LinkDegraded, Degrade, UnitSettles, StartSettles,
       runVars
  <1>35. CASE FirmwareRepaired
    BY <1>35 DEF FirmwareRepaired
  <1>36. CASE UNCHANGED vars
    BY <1>36 DEF vars, runVars
  <1>37. QED
    BY <1>1, <1>2, <1>3, <1>4, <1>5, <1>6, <1>7, <1>8, <1>9, <1>10, <1>11,
       <1>12, <1>13, <1>14, <1>15, <1>16, <1>17, <1>18, <1>19, <1>20, <1>21,
       <1>22, <1>23, <1>24, <1>25, <1>26, <1>27, <1>28, <1>29, <1>30, <1>31,
       <1>32, <1>33, <1>34, <1>35, <1>36
       DEF Next, Step, Environment

(* Link verification.                                                      *)
LEMMA VerifiedStep ==
  ASSUME TypeOK, Next, Attached, Verified, pc = "idle" => AtRest
  PROVE  Verified'
  <1> USE DEF TypeOK, RunTypeOK, PlatformTypeOK, platformVars, loopVars,
        regVars, linkVars,
        Goto, Quit, NextFile, MainLabel, CleanupLabel, Attached, Verified,
             Before, Inside, AtRest, Away
  <1>1. CASE Start
    BY <1>1 DEF Start
  <1>2. CASE Gate
    BY <1>2 DEF Gate
  <1>3. CASE Survey
    BY <1>3 DEF Survey
  <1>4. CASE StopPersistenced
    BY <1>4 DEF StopPersistenced, Stopped
  <1>5. CASE LoadNouveau
    BY <1>5 DEF LoadNouveau
  <1>6. CASE Backup
    BY <1>6 DEF Backup
  <1>7. CASE \E u \in Workloads : StopUnit(u)
    BY <1>7 DEF StopUnit, Reached, Stopped
  <1>8. CASE \E m \in AuxModules : UnloadAux(m)
    BY <1>8 DEF UnloadAux
  <1>9. CASE Detach
    BY <1>9 DEF Detach, Unbind
  <1>10. CASE HookIn
    BY <1>10 DEF HookIn
  <1>11. CASE Install
    BY <1>11 DEF Install, Put, Tear, Image
  <1>12. CASE Boot
    BY <1>12 DEF Boot, NouveauBoot
  <1>13. CASE Restore
    BY <1>13 DEF Restore, RestoreTo, Put, Tear, Original
  <1>14. CASE Handoff
    BY <1>14 DEF Handoff, Unbind
  <1>15. CASE Rebind
    BY <1>15 DEF Rebind, NvidiaBind
  <1>16. CASE Advert
    BY <1>16 DEF Advert
  <1>17. CASE RetrainDetach
    BY <1>17 DEF RetrainDetach, Unbind
  <1>18. CASE ChangeSpeed
    BY <1>18 DEF ChangeSpeed
  <1>19. CASE RetrainRebind
    BY <1>19 DEF RetrainRebind, NvidiaBind
  <1>20. CASE Final
    BY <1>20 DEF Final, RestoreTo, Put, Tear, Original
  <1>21. CASE Unhook
    BY <1>21 DEF Unhook
  <1>22. CASE Query
    BY <1>22 DEF Query
  <1>23. CASE CleanupRestore
    BY <1>23 DEF CleanupRestore, Put, Tear, Original
  <1>24. CASE CleanupCheck
    BY <1>24 DEF CleanupCheck, RecordFailure
  <1>25. CASE CleanupHook
    BY <1>25 DEF CleanupHook, RecordFailure
  <1>26. CASE \E g \in GPUs : CleanupBind(g)
    BY <1>26 DEF CleanupBind, NvidiaBind, Unbind, RecordFailure
  <1>27. CASE CleanupBound
    BY <1>27 DEF CleanupBound
  <1>28. CASE CleanupAux
    BY <1>28 DEF CleanupAux, RecordFailure
  <1>29. CASE RestoreServices
    BY <1>29 DEF RestoreServices
  <1>30. CASE Exit
    BY <1>30 DEF Exit, Vanished, Retain
  <1>31. CASE Fail \/ Signal
    BY <1>31 DEF Fail, Signal
  <1>32. CASE SignalCleanup \/ Kill
    BY <1>32 DEF SignalCleanup, Kill, Vanish, Vanished, Retain, MaybeTorn,
         Tear, Put
  <1>33. CASE PowerCycle
    BY <1>33 DEF PowerCycle, PlatformReset, Vanished, MaybeTorn, Tear, Put
  <1>34. CASE \/ \E g \in GPUs : TensorUnlocked(g) \/ LinkDegraded(g)
             \/ \E u \in Units : UnitSettles(u)
    BY <1>34 DEF TensorUnlocked, LinkDegraded, Degrade, UnitSettles, StartSettles,
       runVars
  <1>35. CASE FirmwareRepaired
    BY <1>35 DEF FirmwareRepaired
  <1>36. CASE UNCHANGED vars
    BY <1>36 DEF vars, runVars
  <1>37. QED
    BY <1>1, <1>2, <1>3, <1>4, <1>5, <1>6, <1>7, <1>8, <1>9, <1>10, <1>11,
       <1>12, <1>13, <1>14, <1>15, <1>16, <1>17, <1>18, <1>19, <1>20, <1>21,
       <1>22, <1>23, <1>24, <1>25, <1>26, <1>27, <1>28, <1>29, <1>30, <1>31,
       <1>32, <1>33, <1>34, <1>35, <1>36
       DEF Next, Step, Environment


------------------------------------------------------------------------------

(* The initial states: a booted machine with original firmware and no run. *)
LEMMA InitIInv == Init => IInv
  <1> SUFFICES ASSUME Init PROVE IInv
    OBVIOUS
  <1>1. PlatformTypeOK
    BY Contents DEF Init, PlatformInit, PlatformTypeOK, Held
  <1>2. backup \in [File -> Content \cup {"absent"}]
    BY Contents DEF Init, RunInit, AtRest
  <1>3. TypeOK
    BY <1>1, <1>2 DEF Init, RunInit, AtRest, TypeOK, RunTypeOK, File, Ended,
         Trail
  <1>4. pc = "idle" /\ ~Mutating /\ fw = Stock /\ \A g \in GPUs : link[g] = 1
    BY DEF Init, RunInit, AtRest, PlatformInit, Mutating
  <1>5. IdleAtRest /\ Listed /\ Firmware /\ Recovered
    BY <1>4 DEF Init, RunInit, IdleAtRest, Listed, Firmware, Window, Saved, Accounted,
       Recovered, Before, Inside, MainLabel, CleanupLabel
  <1>6. Attached /\ Armed /\ Written /\ Verified
    BY <1>4 DEF Attached, Armed, Written, Verified, Before, Inside, MainLabel,
       CleanupLabel
  <1>7. QED
    BY <1>3, <1>5, <1>6 DEF IInv

(* A run's variables are at rest again whenever no run is left.            *)
LEMMA IdleStep == TypeOK /\ IdleAtRest /\ Next => IdleAtRest'
  <1> SUFFICES ASSUME TypeOK, IdleAtRest, Next PROVE IdleAtRest'
    OBVIOUS
  <1> USE DEF IdleAtRest, AtRest, loopVars, recordVars, Goto, Quit, NextFile,
        TypeOK,
        RunTypeOK, MainLabel, CleanupLabel
  <1>1. CASE Start
    BY <1>1 DEF Start
  <1>2. CASE Gate
    BY <1>2 DEF Gate
  <1>3. CASE Survey
    BY <1>3 DEF Survey
  <1>4. CASE StopPersistenced
    BY <1>4 DEF StopPersistenced, Stopped
  <1>5. CASE LoadNouveau
    BY <1>5 DEF LoadNouveau
  <1>6. CASE Backup
    BY <1>6 DEF Backup
  <1>7. CASE \E u \in Workloads : StopUnit(u)
    BY <1>7 DEF StopUnit, Reached, Stopped
  <1>8. CASE \E m \in AuxModules : UnloadAux(m)
    BY <1>8 DEF UnloadAux
  <1>9. CASE Detach
    BY <1>9 DEF Detach, Unbind
  <1>10. CASE HookIn
    BY <1>10 DEF HookIn
  <1>11. CASE Install
    BY <1>11 DEF Install, Put, Tear, Image
  <1>12. CASE Boot
    BY <1>12 DEF Boot, NouveauBoot
  <1>13. CASE Restore
    BY <1>13 DEF Restore, RestoreTo, Put, Tear, Original
  <1>14. CASE Handoff
    BY <1>14 DEF Handoff, Unbind
  <1>15. CASE Rebind
    BY <1>15 DEF Rebind, NvidiaBind
  <1>16. CASE Advert
    BY <1>16 DEF Advert
  <1>17. CASE RetrainDetach
    BY <1>17 DEF RetrainDetach, Unbind
  <1>18. CASE ChangeSpeed
    BY <1>18 DEF ChangeSpeed
  <1>19. CASE RetrainRebind
    BY <1>19 DEF RetrainRebind, NvidiaBind
  <1>20. CASE Final
    BY <1>20 DEF Final, RestoreTo, Put, Tear, Original
  <1>21. CASE Unhook
    BY <1>21 DEF Unhook
  <1>22. CASE Query
    BY <1>22 DEF Query
  <1>23. CASE CleanupRestore
    BY <1>23 DEF CleanupRestore, Put, Tear, Original
  <1>24. CASE CleanupCheck
    BY <1>24 DEF CleanupCheck, RecordFailure
  <1>25. CASE CleanupHook
    BY <1>25 DEF CleanupHook, RecordFailure
  <1>26. CASE \E g \in GPUs : CleanupBind(g)
    BY <1>26 DEF CleanupBind, NvidiaBind, Unbind, RecordFailure
  <1>27. CASE CleanupBound
    BY <1>27 DEF CleanupBound
  <1>28. CASE CleanupAux
    BY <1>28 DEF CleanupAux, RecordFailure
  <1>29. CASE RestoreServices
    BY <1>29 DEF RestoreServices
  <1>30. CASE Exit
    BY <1>30 DEF Exit, Vanished, Retain
  <1>31. CASE Fail \/ Signal
    BY <1>31 DEF Fail, Signal
  <1>32. CASE SignalCleanup \/ Kill
    BY <1>32 DEF SignalCleanup, Kill, Vanish, Vanished, Retain, MaybeTorn,
         Tear, Put
  <1>33. CASE PowerCycle
    BY <1>33 DEF PowerCycle, PlatformReset, Vanished, MaybeTorn, Tear, Put
  <1>34. CASE \/ \E g \in GPUs : TensorUnlocked(g) \/ LinkDegraded(g)
             \/ \E u \in Units : UnitSettles(u)
    BY <1>34 DEF TensorUnlocked, LinkDegraded, Degrade, UnitSettles, StartSettles,
       runVars
  <1>35. CASE FirmwareRepaired
    BY <1>35 DEF FirmwareRepaired
  <1>36. CASE UNCHANGED vars
    BY <1>36 DEF vars, runVars
  <1>37. QED
    BY <1>1, <1>2, <1>3, <1>4, <1>5, <1>6, <1>7, <1>8, <1>9, <1>10, <1>11,
       <1>12, <1>13, <1>14, <1>15, <1>16, <1>17, <1>18, <1>19, <1>20, <1>21,
       <1>22, <1>23, <1>24, <1>25, <1>26, <1>27, <1>28, <1>29, <1>30, <1>31,
       <1>32, <1>33, <1>34, <1>35, <1>36
       DEF Next, Step, Environment

(* Inside a run only CHANGE_SPEED touches a link, and only the end of the  *)
(* process changes the targets or the outcome.                             *)
LEMMA QuietStep ==
  ASSUME Step
  PROVE  UNCHANGED <<targets, link, outcome>> \/ ChangeSpeed \/ Exit
  BY DEF Step, Gate, Survey, StopPersistenced, LoadNouveau, Backup, StopUnit, Reached,
     UnloadAux, Detach, HookIn, Install, Boot, Restore, RestoreTo, Handoff,
     Rebind, Advert, RetrainDetach, RetrainRebind, Final, Unhook, Query,
     CleanupRestore, CleanupCheck, CleanupHook, CleanupBind, CleanupBound,
     CleanupAux, RestoreServices, Fail, platformVars, linkVars, pastVars

(* A run keeps its allow-list to the end.                                  *)
LEMMA ListedStep == Listed /\ Next => Listed'
  <1> SUFFICES ASSUME Listed, Next PROVE Listed'
    OBVIOUS
  <1> USE DEF Listed
  <1>1. CASE Start
    BY <1>1 DEF Start, Goto
  <1>2. CASE Step
    <2>1. pc # "idle"
      BY <1>2 DEF Step, Gate, Survey, StopPersistenced, LoadNouveau, Backup,
         StopUnit, Reached, UnloadAux, Detach, HookIn, Install, Boot, Restore, RestoreTo,
         Handoff, Rebind, Advert, RetrainDetach, ChangeSpeed, RetrainRebind,
         Final, Unhook, Query, CleanupRestore, CleanupCheck, CleanupHook,
         CleanupBind, CleanupBound, CleanupAux, RestoreServices, Exit, Fail,
         MainLabel
    <2>2. UNCHANGED targets \/ pc' = "idle"
      BY <1>2, QuietStep DEF ChangeSpeed, Exit, Vanished
    <2>3. QED
      BY <2>1, <2>2
  <1>3. CASE SignalCleanup \/ Kill \/ PowerCycle
    BY <1>3 DEF SignalCleanup, Kill, Vanish, PowerCycle, Vanished
  <1>4. CASE \/ Signal \/ FirmwareRepaired
             \/ \E g \in GPUs : TensorUnlocked(g) \/ LinkDegraded(g)
             \/ \E u \in Units : UnitSettles(u)
    BY <1>4 DEF Signal, MainLabel, FirmwareRepaired, TensorUnlocked,
       LinkDegraded, UnitSettles, runVars
  <1>5. CASE Environment
    BY <1>3, <1>4, <1>5 DEF Environment
  <1>6. QED
    BY <1>1, <1>2, <1>5 DEF Next

(* Every step preserves the invariant.                                     *)
LEMMA NextIInv == IInv /\ [Next]_vars => IInv'
  <1> SUFFICES ASSUME IInv, [Next]_vars PROVE IInv'
    OBVIOUS
  <1>1. CASE Next
    <2>1. /\ pc = "boot" => cur \in targets
          /\ Mutating => backup = Stock
          /\ pc \in {"restore", "final", "c_restore"} => Mutating
      BY DEF IInv, Firmware, Window, Saved, Attached, Inside, Before,
           MainLabel,
         Mutating
    <2>2. PlatformTypeOK'
      BY <1>1, <2>1, PlatformStep DEF IInv
    <2>3. RunTypeOK'
      BY <1>1, RunStep DEF IInv, IdleAtRest
    <2>4. IdleAtRest'
      BY <1>1, IdleStep DEF IInv
    <2>5. Firmware' /\ Listed'
      BY <1>1, FirmwareStep, ListedStep DEF IInv, IdleAtRest
    <2>6. Recovered'
      BY <1>1, RecoveredStep DEF IInv, Firmware
    <2>7. Attached'
      BY <1>1, AttachedStep DEF IInv, IdleAtRest
    <2>8. Armed'
      BY <1>1, ArmedStep DEF IInv
    <2>9. Written'
      BY <1>1, WrittenStep DEF IInv, IdleAtRest
    <2>10. Verified'
      BY <1>1, VerifiedStep DEF IInv, IdleAtRest
    <2>11. QED
      BY <2>2, <2>3, <2>4, <2>5, <2>6, <2>7, <2>8, <2>9, <2>10 DEF IInv, TypeOK
  <1>2. CASE UNCHANGED vars
    BY <1>2 DEF vars, platformVars, runVars, IInv, TypeOK, PlatformTypeOK,
       RunTypeOK, IdleAtRest, AtRest, Listed, Firmware, Window, Saved, Accounted,
       Recovered, Attached, Armed, Written, Verified, Mutating, RecoveryFailed,
       Register
  <1>3. QED
    BY <1>1, <1>2

(* The invariant holds in every reachable state.                           *)
THEOREM Invariance == Spec => []IInv
  BY InitIInv, NextIInv, PTL DEF Spec

------------------------------------------------------------------------------

(* Every reachable state is well typed (TypeOK).                           *)
THEOREM Typing == Spec => []TypeOK
  <1>1. IInv => TypeOK
    BY DEF IInv
  <1>2. QED
    BY <1>1, Invariance, PTL

(* Foreign firmware can always be undone from /run, or a power cycle that  *)
(* struck while it was foreign is on record: the order backup, MUTATING,   *)
(* mutation, check, removal of the backup is right whatever fails.         *)
THEOREM Recoverability == Spec => []FirmwareRecoverable
  <1>1. IInv => FirmwareRecoverable
    BY DEF IInv, TypeOK, Firmware, Saved, Accounted, FirmwareRecoverable,
         IdleAtRest,
       AtRest, Mutating
  <1>2. QED
    BY <1>1, Invariance, PTL

(* Only the end of the EXIT trap reports an outcome of its own.            *)
LEMMA ReportStep ==
  ASSUME Next, outcome' # outcome, outcome' \in {"pass", "failed",
       "incomplete"}
  PROVE  Exit
  <1> USE DEF pastVars, runVars
  <1>1. CASE Start
    BY <1>1 DEF Start
  <1>2. CASE Step
    BY <1>2 DEF Step, Gate, Survey, StopPersistenced, LoadNouveau, Backup,
         StopUnit, Reached,
       UnloadAux, Detach, HookIn, Install, Boot, Restore, RestoreTo, Handoff,
            Rebind,
       Advert, RetrainDetach, ChangeSpeed, RetrainRebind, Final, Unhook, Query,
       CleanupRestore, CleanupCheck, CleanupHook, CleanupBind, CleanupBound,
       CleanupAux, RestoreServices, Fail
  <1>3. CASE Environment
    BY <1>3 DEF Environment, Signal, SignalCleanup, Kill, Vanish, PowerCycle,
       TensorUnlocked, LinkDegraded, FirmwareRepaired, UnitSettles
  <1>4. QED
    BY <1>1, <1>2, <1>3 DEF Next

(* Only the bind of apply_signed_write puts a GPU on nouveau.              *)
LEMMA BootStep ==
  ASSUME TypeOK, Next, NEW g \in GPUs, drv[g] # "nouveau", drv'[g] = "nouveau"
  PROVE  Boot
  <1> USE DEF TypeOK, PlatformTypeOK, platformVars
  <1>1. CASE UNCHANGED drv
    BY <1>1
  <1>2. CASE Start
    BY <1>2 DEF Start
  <1>3. CASE Step
    <2>1. CASE Detach \/ RetrainDetach \/ Handoff
      BY <2>1 DEF Detach, RetrainDetach, Handoff, Unbind
    <2>2. CASE Rebind \/ RetrainRebind
      BY <2>2 DEF Rebind, RetrainRebind, NvidiaBind
    <2>3. CASE \E h \in GPUs : CleanupBind(h)
      BY <2>3 DEF CleanupBind, NvidiaBind, Unbind
    <2>4. CASE Boot
      BY <2>4
    <2>5. QED
      BY <1>1, <1>3, <2>1, <2>2, <2>3, <2>4 DEF Step, Gate, Survey,
           StopPersistenced,
         LoadNouveau, Backup, StopUnit, Reached, UnloadAux, HookIn, Install, Restore,
              Final,
         RestoreTo, Advert, ChangeSpeed, Unhook, Query, CleanupRestore,
              CleanupCheck,
         CleanupHook, CleanupBound, CleanupAux, RestoreServices, Exit, Fail
  <1>4. CASE PowerCycle
    BY <1>4 DEF PowerCycle, PlatformReset
  <1>5. CASE Environment
    BY <1>1, <1>4, <1>5 DEF Environment, Signal, SignalCleanup, Kill, Vanish,
       TensorUnlocked, LinkDegraded, Degrade, FirmwareRepaired, UnitSettles,
       StartSettles
  <1>6. QED
    BY <1>2, <1>3, <1>5 DEF Next

(* The EXIT trap never calls an unfinished recovery finished.              *)
THEOREM HonestReport == Spec => ReportedOutcome
  <1>1. ASSUME IInv, Next, outcome = "running", Mutating,
               outcome' \in {"pass", "failed"}
        PROVE  /\ fw = Stock
               /\ hook = NoGPU
               /\ \A g \in targets : drv[g] = "nvidia"
               /\ auxRec \subseteq aux
    <2>1. Exit
      BY <1>1, ReportStep
    <2>2. pc = "c_exit" /\ ~RecoveryFailed
      BY <1>1, <2>1 DEF Exit
    <2>3. QED
      BY <1>1, <2>2 DEF IInv, Firmware, Accounted, Recovered, CleanupLabel
  <1>2. QED
    BY <1>1, Invariance, PTL DEF Spec, ReportedOutcome, vars

(* A unit that a step takes down is on the record after it, unless it is   *)
(* persistenced waiting for its start.                                     *)
TakenDown(u) == svc[u] \in {"active", "queued"} /\ svc'[u] = "down"

LEMMA DownIsRecorded ==
  ASSUME TypeOK, Next
  PROVE  /\ \A u \in Units : TakenDown(u) =>
              u \in stopped' \/ (u = Persistenced /\ svc[u] = "queued")
         /\ pc' # "idle" => stopped \subseteq stopped'
  <1> USE DEF recordVars, platformVars, pastVars, TakenDown, TypeOK, PlatformTypeOK
  <1>1. CASE \E u \in Workloads : StopUnit(u)
    BY <1>1 DEF StopUnit, Reached, Stopped
  <1>2. CASE StopPersistenced
    BY <1>2 DEF StopPersistenced, Stopped
  <1>3. CASE RestoreServices
    BY <1>3 DEF RestoreServices
  <1>4. CASE SignalCleanup \/ Kill
    BY <1>4 DEF SignalCleanup, Kill, Vanish, Vanished
  <1>5. CASE PowerCycle
    BY <1>5 DEF PowerCycle, PlatformReset, Vanished
  <1>6. CASE Exit
    BY <1>6 DEF Exit, Vanished
  <1>7. CASE Start \/ Gate \/ Survey \/ LoadNouveau \/ Backup \/ Advert \/ Query
             \/ CleanupCheck \/ CleanupBound \/ Fail \/ Signal
    BY <1>7 DEF Start, Gate, Survey, LoadNouveau, Backup, Advert, Query,
         CleanupCheck, CleanupBound, Fail, Signal
  <1>8. CASE (\E m \in AuxModules : UnloadAux(m)) \/ CleanupAux
    BY <1>8 DEF UnloadAux, CleanupAux
  <1>9. CASE Detach \/ HookIn \/ Install \/ Boot \/ Handoff \/ Rebind
    BY <1>9 DEF Detach, HookIn, Install, Boot, Handoff, Rebind
  <1>10. CASE RetrainDetach \/ ChangeSpeed \/ RetrainRebind \/ Unhook
    BY <1>10 DEF RetrainDetach, ChangeSpeed, RetrainRebind, Unhook
  <1>11. CASE Restore \/ Final \/ CleanupRestore \/ CleanupHook
    BY <1>11 DEF Restore, Final, RestoreTo, CleanupRestore, CleanupHook
  <1>12. CASE \E g \in GPUs : CleanupBind(g)
    BY <1>12 DEF CleanupBind
  <1>13. CASE \/ FirmwareRepaired
              \/ \E g \in GPUs : TensorUnlocked(g) \/ LinkDegraded(g)
              \/ \E u \in Units : UnitSettles(u)
    BY <1>13 DEF FirmwareRepaired, TensorUnlocked, LinkDegraded, Degrade, UnitSettles,
       StartSettles, runVars
  <1>14. QED
    BY <1>1, <1>2, <1>3, <1>4, <1>5, <1>6, <1>7, <1>8, <1>9, <1>10, <1>11,
       <1>12, <1>13 DEF Next, Step, Environment

(* No active unit goes down unrecorded, and the cleanup of a run whose end *)
(* is reported has asked for every recorded one again, granted or not      *)
(* (STOPPED_SERVICES, restore_services).                                   *)
THEOREM Restart == Spec => WorkloadsRestarted
  <1>1. ASSUME IInv, Next, outcome = "running",
               outcome' \in {"pass", "failed", "incomplete"}
        PROVE  \A u \in stopped : svc[u] # "down"
    <2>1. Exit
      BY <1>1, ReportStep
    <2>2. QED
      BY <1>1, <2>1 DEF Exit, IInv, Recovered
  <1>2. ASSUME IInv, Next
        PROVE  /\ \A u \in Units :
                    (svc[u] \in {"active", "queued"} /\ svc'[u] = "down") =>
                      u \in stopped' \/ (u = Persistenced /\ svc[u] = "queued")
               /\ pc' # "idle" => stopped \subseteq stopped'
               /\ (outcome = "running"
                     /\ outcome' \in {"pass", "failed", "incomplete"}) =>
                    \A u \in stopped : svc[u] # "down"
    BY <1>1, <1>2, DownIsRecorded DEF IInv, TakenDown
  <1>3. QED
    BY <1>2, Invariance, PTL DEF Spec, WorkloadsRestarted, vars

(* At most one allow-listed GPU is away from NVIDIA in the main program.   *)
THEOREM Detachment == Spec => []OneDetached
  <1>1. IInv => OneDetached
    BY DEF IInv, Attached, OneDetached
  <1>2. QED
    BY <1>1, Invariance, PTL

(* No GPU is at Gen2 without both signed writes.                           *)
THEOREM Provenance == Spec => []Gen2Provenance
  <1>1. IInv => Gen2Provenance
    BY DEF IInv, Written, Gen2Provenance
  <1>2. QED
    BY <1>1, Invariance, PTL

(* Nouveau boots only the current target, armed, imaged and backed up.     *)
THEOREM SignedBoots == Spec => SignedBootOnly
  <1>1. ASSUME IInv, Next
        PROVE  \A g \in GPUs : (drv[g] # "nouveau" /\ drv'[g] = "nouveau") =>
                  /\ hook = g
                  /\ fw \in {Image("policy"), Image("vector")}
                  /\ backup = Stock
                  /\ \A h \in targets \ {g} : drv[h] = "nvidia"
    <2> SUFFICES ASSUME NEW g \in GPUs, drv[g] # "nouveau", drv'[g] = "nouveau"
                 PROVE  /\ hook = g
                        /\ fw \in {Image("policy"), Image("vector")}
                        /\ backup = Stock
                        /\ \A h \in targets \ {g} : drv[h] = "nvidia"
      OBVIOUS
    <2>1. Boot
      BY <1>1, BootStep DEF IInv
    <2>2. g = cur
      BY <2>1 DEF Boot, NouveauBoot, IInv, TypeOK, PlatformTypeOK
    <2>3. pc = "boot" /\ Mutating
      BY <1>1, <2>1 DEF Boot, IInv, Firmware, Window, Inside, Before,
           MainLabel,
         Mutating
    <2>4. QED
      BY <1>1, <2>2, <2>3 DEF IInv, TypeOK, RunTypeOK, Attached, Armed,
           Firmware,
         Saved, MainLabel
  <1>2. QED
    BY <1>1, Invariance, PTL DEF Spec, SignedBootOnly, vars

(* PASS is reported only over verified links.                              *)
THEOREM Passes == Spec => PassVerified
  <1>1. ASSUME IInv, Next, outcome # "pass", outcome' = "pass"
        PROVE  \A g \in targets : link[g] = 2 /\ advert[g] = 2
    <2>1. Exit
      BY <1>1, ReportStep
    <2>2. pc = "c_exit" /\ rc = "ok"
      BY <1>1, <2>1 DEF Exit
    <2>3. QED
      BY <1>1, <2>2 DEF IInv, Verified, CleanupLabel
  <1>2. QED
    BY <1>1, Invariance, PTL DEF Spec, PassVerified, vars

------------------------------------------------------------------------------
(* The refinement of Gen2Contract.                                         *)

AtGen2 == {g \in GPUs : link[g] = 2}

(* Every step is a step of the contract, or none of its business.          *)
LEMMA ContractStep ==
  ASSUME IInv, Next
  PROVE  Promise!ContractNext \/ UNCHANGED <<targets, AtGen2, outcome>>
  <1> USE DEF AtGen2
  <1>1. TypeOK /\ (pc = "idle" => AtRest)
    BY DEF IInv, IdleAtRest
  <1>2. CASE Start
    <2>1. PICK T \in (SUBSET GPUs) \ {{}} : targets' = T
      BY <1>2 DEF Start
    <2>2. targets = {} /\ outcome' = "running" /\ UNCHANGED link
      BY <1>1, <1>2 DEF Start, AtRest, platformVars
    <2>3. Promise!Begin(T)
      BY <2>1, <2>2 DEF Promise!Begin
    <2>4. QED
      BY <2>3 DEF Promise!ContractNext
  <1>3. CASE ChangeSpeed
    <2>1. PICK g \in GPUs : g = cur /\ g \in targets
      BY <1>1, <1>3 DEF ChangeSpeed, IInv, Attached, Inside, Before, MainLabel,
         TypeOK, RunTypeOK
    <2>2. link' = [link EXCEPT ![g] = 2]
      BY <1>3, <2>1 DEF ChangeSpeed
    <2>3. AtGen2' = AtGen2 \cup {g}
      BY <1>1, <2>1, <2>2 DEF TypeOK, PlatformTypeOK
    <2>4. Promise!Retrain(g)
      BY <1>3, <2>1, <2>3 DEF ChangeSpeed, pastVars, Promise!Retrain
    <2>5. QED
      BY <2>1, <2>4 DEF Promise!ContractNext
  <1>4. CASE Exit
    <2>1. targets' = {} /\ UNCHANGED link
      BY <1>4 DEF Exit, Vanished, platformVars, linkVars
    <2>2. outcome' \in {"pass", "failed", "incomplete"}
      BY <1>4 DEF Exit
    <2>3. outcome' = "pass" => rc = "ok"
      BY <1>4 DEF Exit
    <2>4. outcome' = "pass" => targets \subseteq AtGen2
      BY <1>1, <1>4, <2>3 DEF Exit, IInv, Verified, CleanupLabel, TypeOK, RunTypeOK
    <2>5. targets # {}
      BY <1>4 DEF Exit, IInv, Listed
    <2>6. QED
      <3>1. PICK v \in Promise!Verdict : outcome' = v
        BY <2>2 DEF Promise!Verdict
      <3>2. Promise!Finish(v)
        BY <2>1, <2>4, <2>5, <3>1 DEF Promise!Finish
      <3>3. QED
        BY <3>2 DEF Promise!ContractNext
  <1>5. CASE SignalCleanup \/ Kill
    <2>1. /\ targets' = {} /\ UNCHANGED link
          /\ outcome' \in {"aborted", "killed"}
      BY <1>5 DEF SignalCleanup, Kill, Vanish, Vanished, linkVars
    <2>2. targets # {}
      BY <1>5 DEF SignalCleanup, Kill, CleanupLabel, IInv, Listed
    <2>3. QED
      <3>1. PICK v \in Promise!Verdict : outcome' = v
        BY <2>1 DEF Promise!Verdict
      <3>2. v # "pass" /\ Promise!Finish(v)
        BY <2>1, <2>2, <3>1 DEF Promise!Finish
      <3>3. QED
        BY <3>2 DEF Promise!ContractNext
  <1>6. CASE PowerCycle
    <2>1. targets' = {} /\ outcome' = "none" /\ link' = [g \in GPUs |-> 1]
      BY <1>6 DEF PowerCycle, PlatformReset, Vanished
    <2>2. Promise!Reset
      BY <2>1 DEF Promise!Reset
    <2>3. QED
      BY <2>2 DEF Promise!ContractNext
  <1>7. CASE \E g \in GPUs : LinkDegraded(g)
    <2> PICK g \in GPUs : LinkDegraded(g)
      BY <1>7
    <2>1. targets = {} /\ UNCHANGED <<targets, outcome>>
      BY <1>1 DEF LinkDegraded, runVars, AtRest
    <2>2. link[g] = 2 /\ link' = [link EXCEPT ![g] = 1]
      BY DEF LinkDegraded, Degrade
    <2>3. g \in AtGen2 /\ AtGen2' = AtGen2 \ {g}
      BY <1>1, <2>2 DEF TypeOK, PlatformTypeOK
    <2>4. Promise!FallBack(g)
      BY <2>1, <2>3 DEF Promise!FallBack
    <2>5. QED
      BY <2>4 DEF Promise!ContractNext
  <1>8. CASE \/ Signal \/ FirmwareRepaired
             \/ \E g \in GPUs : TensorUnlocked(g)
             \/ \E u \in Units : UnitSettles(u)
    BY <1>8 DEF Signal, FirmwareRepaired, TensorUnlocked, UnitSettles, StartSettles,
       runVars, linkVars, platformVars, pastVars
  <1>9. CASE Step
    BY <1>3, <1>4, <1>9, QuietStep
  <1>10. QED
    BY <1>2, <1>5, <1>6, <1>7, <1>8, <1>9 DEF Next, Environment

(* The helper implements the contract the coordinator is built on: it      *)
(* changes only the links of its targets, only to Gen2, and says PASS over *)
(* all of them or not at all (KeepsContract).                              *)
THEOREM Implementation == Spec => KeepsContract
  <1>1. Init => Promise!ContractInit
    BY DEF Init, RunInit, AtRest, PlatformInit, Promise!ContractInit
  <1>2. IInv /\ [Next]_vars => [Promise!ContractNext]_(Promise!contractVars)
    <2>1. CASE Next
      BY <2>1, ContractStep DEF Promise!contractVars, AtGen2
    <2>2. CASE UNCHANGED vars
      BY <2>2 DEF vars, platformVars, linkVars, runVars, Promise!contractVars
    <2>3. QED
      BY <2>1, <2>2
  <1>3. QED
    BY <1>1, <1>2, Invariance, PTL DEF Spec, KeepsContract, Promise!Contract

==============================================================================
