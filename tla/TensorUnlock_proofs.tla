------------------------- MODULE TensorUnlock_proofs -------------------------
(***************************************************************************)
(* Proofs about TensorUnlock for any set of GPUs, units and modules.  The  *)
(* inductive invariant says, label by label, what the firmware files, the  *)
(* hook, the drivers and the registers of the targets are.                 *)
(***************************************************************************)
EXTENDS TensorUnlock, TLAPS

(* Where the firmware is the original, and where it is being put back.     *)
OnStock  == {"gate", "stop", "unload", "detach", "hookin", "handoff", "rebind",
             "uvm", "unhook", "query"}
Copying  == {"heal", "restore", "final"}

(* Where unlock_one keeps cur away from NVIDIA.                            *)
Away == {"hookin", "install", "boot", "restore", "handoff", "rebind"}

IdleAtRest == pc = "idle" => targets = {} /\ todo = {} /\ cur = NoGPU

(* Past the check the originals are intact, and every copy loop leaves     *)
(* behind it the files it has written.                                     *)
Firmware ==
  /\ pc \in MainLabel \ {"check"} => kept = File
  /\ pc \in OnStock => fw = Stock
  /\ pc \in Copying => \A f \in File : f < n => fw[f] = "stock"
  /\ pc = "install" => \A f \in File : f < n => fw[f] = Image("tensor")[f]
  /\ pc = "boot" => fw = Image("tensor")

(* Only the current target is off NVIDIA, and the hook is armed for it     *)
(* before the image is written.                                            *)
Attached ==
  /\ pc \in Away => cur \in targets
  /\ pc \in {"install", "boot"} => hook = cur
  /\ pc \in {"restore", "handoff"} => drv[cur] = "nouveau"
  /\ pc \in MainLabel \ {"check", "heal", "gate"} =>
       \A g \in targets : drv[g] = "nvidia" \/ (g = cur /\ pc \in Away)

(* The targets the loop is done with are unlocked, and those of a run that *)
(* is about to succeed are on NVIDIA too.                                  *)
Unlocked ==
  /\ pc = "detach" => targets \ todo \subseteq tensor
  /\ pc \in Away => targets \ (todo \cup {cur}) \subseteq tensor
  /\ pc \in {"restore", "handoff", "rebind"} => cur \in tensor
  /\ pc \in {"uvm", "final", "unhook", "query"} => targets \subseteq tensor
  /\ (pc \in CleanupLabel /\ rc = "ok") =>
       \A g \in targets : g \in tensor /\ drv[g] = "nvidia"

IInv == TypeOK /\ IdleAtRest /\ Firmware /\ Attached /\ Unlocked
------------------------------------------------------------------------------

(* The firmware values the actions write are firmware values.              *)
LEMMA Contents ==
  /\ Stock \in [File -> Content]
  /\ Image("tensor") \in [File -> Content]
  /\ "torn" \in Content /\ "stock" \in Content
  BY DEF Stock, Content, Image, Payload

(* Platform: one step per action.                                          *)
LEMMA PlatformStep ==
  ASSUME TypeOK, IdleAtRest, Attached, Next
  PROVE  PlatformTypeOK'
  <1> USE Contents, UvmAssumption DEF TypeOK, PlatformTypeOK, platformVars,
  regVars, linkVars, runVars, scratch, Attached, Away
  <1>1. CASE Start
    BY <1>1 DEF Start
  <1>2. CASE CheckInstalled
    BY <1>2 DEF CheckInstalled
  <1>3. CASE Heal
    BY <1>3 DEF Heal, CopyStock, Put, Tear, Kept
  <1>4. CASE Restore
    BY <1>4 DEF Restore, CopyStock, Put, Tear, Kept
  <1>5. CASE Final
    BY <1>5 DEF Final, CopyStock, Put, Tear, Kept
  <1>6. CASE Gate
    BY <1>6 DEF Gate
  <1>7. CASE \E u \in Workloads : StopUnit(u)
    BY <1>7 DEF StopUnit, Held
  <1>8. CASE StopPersistenced
    BY <1>8 DEF StopPersistenced, Held
  <1>9. CASE \E m \in AuxModules : UnloadAux(m)
    BY <1>9 DEF UnloadAux, runVars
  <1>10. CASE LoadNouveau
    BY <1>10 DEF LoadNouveau
  <1>11. CASE Detach
    BY <1>11 DEF Detach, Unbind
  <1>12. CASE HookIn
    BY <1>12 DEF HookIn, RunTypeOK
  <1>13. CASE Install
    BY <1>13 DEF Install, Put, Tear, Image
  <1>14. CASE Boot
    <2>1. cur \in GPUs
      BY <1>14 DEF Boot, RunTypeOK
    <2>2. QED
      BY <2>1, <1>14 DEF Boot, NouveauBoot
  <1>15. CASE Handoff
    BY <1>15 DEF Handoff, Unbind
  <1>16. CASE Rebind
    BY <1>16 DEF Rebind, NvidiaBind
  <1>17. CASE LoadUvm
    BY <1>17 DEF LoadUvm
  <1>18. CASE Unhook
    BY <1>18 DEF Unhook
  <1>19. CASE Query
    BY <1>19 DEF Query
  <1>20. CASE CleanupRestore
    BY <1>20 DEF CleanupRestore, Put, Tear, Kept
  <1>21. CASE CleanupHook
    BY <1>21 DEF CleanupHook
  <1>22. CASE \E g \in GPUs : CleanupBind(g)
    BY <1>22 DEF CleanupBind, NvidiaBind, Unbind
  <1>23. CASE CleanupUvm
    BY <1>23 DEF CleanupUvm
  <1>24. CASE CleanupPersistenced
    BY <1>24 DEF CleanupPersistenced, Held
  <1>25. CASE Exit
    BY <1>25 DEF Exit, Gone
  <1>26. CASE Fail
    BY <1>26 DEF Fail
  <1>27. CASE Kill
    BY <1>27 DEF Kill, MaybeTorn, Gone, Tear, Put
  <1>28. CASE PowerCycle
    BY <1>28 DEF PowerCycle, PlatformReset, MaybeTorn, Gone, Tear, Put, Held
  <1>29. CASE \E u \in Units : UnitSettles(u)
    BY <1>29 DEF UnitSettles, StartSettles, Held
  <1>30. QED
    BY <1>1, <1>2, <1>3, <1>4, <1>5, <1>6, <1>7, <1>8, <1>9, <1>10, <1>11,
    <1>12, <1>13, <1>14, <1>15, <1>16, <1>17, <1>18, <1>19, <1>20, <1>21, <1>22,
    <1>23, <1>24, <1>25, <1>26, <1>27, <1>28, <1>29 DEF Next, Step

(* Process: one step per action.                                           *)
LEMMA RunStep ==
  ASSUME TypeOK, IdleAtRest, Next
  PROVE  /\ RunTypeOK'
         /\ IdleAtRest'
  <1> USE DEF TypeOK, RunTypeOK, IdleAtRest, Goto, Quit, NextFile, scratch,
  MainLabel, CleanupLabel, File, Ucode
  <1>1. CASE Start
    BY <1>1 DEF Start
  <1>2. CASE CheckInstalled
    BY <1>2 DEF CheckInstalled
  <1>3. CASE Heal
    BY <1>3 DEF Heal, CopyStock, Put, Tear, Kept
  <1>4. CASE Restore
    BY <1>4 DEF Restore, CopyStock, Put, Tear, Kept
  <1>5. CASE Final
    BY <1>5 DEF Final, CopyStock, Put, Tear, Kept
  <1>6. CASE Gate
    BY <1>6 DEF Gate
  <1>7. CASE \E u \in Workloads : StopUnit(u)
    BY <1>7 DEF StopUnit
  <1>8. CASE StopPersistenced
    BY <1>8 DEF StopPersistenced
  <1>9. CASE \E m \in AuxModules : UnloadAux(m)
    BY <1>9 DEF UnloadAux, runVars
  <1>10. CASE LoadNouveau
    BY <1>10 DEF LoadNouveau
  <1>11. CASE Detach
    BY <1>11 DEF Detach, Unbind
  <1>12. CASE HookIn
    BY <1>12 DEF HookIn
  <1>13. CASE Install
    BY <1>13 DEF Install, Put, Tear, Image
  <1>14. CASE Boot
    BY <1>14 DEF Boot, NouveauBoot
  <1>15. CASE Handoff
    BY <1>15 DEF Handoff, Unbind
  <1>16. CASE Rebind
    BY <1>16 DEF Rebind, NvidiaBind
  <1>17. CASE LoadUvm
    BY <1>17 DEF LoadUvm
  <1>18. CASE Unhook
    BY <1>18 DEF Unhook
  <1>19. CASE Query
    BY <1>19 DEF Query
  <1>20. CASE CleanupRestore
    BY <1>20 DEF CleanupRestore, Put, Tear, Kept
  <1>21. CASE CleanupHook
    BY <1>21 DEF CleanupHook
  <1>22. CASE \E g \in GPUs : CleanupBind(g)
    BY <1>22 DEF CleanupBind, NvidiaBind, Unbind
  <1>23. CASE CleanupUvm
    BY <1>23 DEF CleanupUvm
  <1>24. CASE CleanupPersistenced
    BY <1>24 DEF CleanupPersistenced
  <1>25. CASE Exit
    BY <1>25 DEF Exit, Gone
  <1>26. CASE Fail
    BY <1>26 DEF Fail
  <1>27. CASE Kill
    BY <1>27 DEF Kill, MaybeTorn, Gone, Tear, Put
  <1>28. CASE PowerCycle
    BY <1>28 DEF PowerCycle, PlatformReset, MaybeTorn, Gone, Tear, Put
  <1>29. CASE \E u \in Units : UnitSettles(u)
    BY <1>29 DEF UnitSettles, StartSettles, runVars
  <1>30. QED
    BY <1>1, <1>2, <1>3, <1>4, <1>5, <1>6, <1>7, <1>8, <1>9, <1>10, <1>11,
    <1>12, <1>13, <1>14, <1>15, <1>16, <1>17, <1>18, <1>19, <1>20, <1>21, <1>22,
    <1>23, <1>24, <1>25, <1>26, <1>27, <1>28, <1>29 DEF Next, Step

(* The originals, and how far each copy loop has come.                     *)
LEMMA FirmwareStep ==
  ASSUME TypeOK, Firmware, Next
  PROVE  Firmware'
  <1> USE DEF TypeOK, PlatformTypeOK, Firmware, OnStock, Copying, platformVars,
  regVars, linkVars, Goto, Quit, NextFile, scratch, MainLabel, CleanupLabel,
  File, Ucode
  <1>1. CASE Start
    BY <1>1 DEF Start
  <1>2. CASE CheckInstalled
    BY <1>2 DEF CheckInstalled
  <1>3. CASE Heal
    <2>1. kept = File /\ \A f \in File : f < n => fw[f] = "stock"
      BY <1>3 DEF Heal, CopyStock
    <2>2. CASE Put(n, Kept(n)) /\ NextFile("gate")
      <3>1. fw' = [fw EXCEPT ![n] = "stock"]
        BY <2>1, <2>2 DEF Put, Kept, RunTypeOK
      <3>2. \A f \in File : f < n + 1 => fw'[f] = "stock"
        BY <2>1, <3>1 DEF RunTypeOK
      <3>3. n = Ucode => fw' = Stock
        <4>1. \A f \in File : Stock[f] = "stock"
          BY DEF Stock
        <4>2. QED
          BY <3>1, <3>2, <4>1, Contents
      <3>4. QED
        BY <1>3, <2>2, <3>2, <3>3 DEF Heal, CopyStock, RunTypeOK
    <2>3. CASE Tear(n) /\ Quit("error")
      BY <1>3, <2>3 DEF Heal, CopyStock
    <2>4. QED
      BY <1>3, <2>2, <2>3 DEF Heal, CopyStock
  <1>4. CASE Restore
    <2>1. kept = File /\ \A f \in File : f < n => fw[f] = "stock"
      BY <1>4 DEF Restore, CopyStock
    <2>2. CASE Put(n, Kept(n)) /\ NextFile("handoff")
      <3>1. fw' = [fw EXCEPT ![n] = "stock"]
        BY <2>1, <2>2 DEF Put, Kept, RunTypeOK
      <3>2. \A f \in File : f < n + 1 => fw'[f] = "stock"
        BY <2>1, <3>1 DEF RunTypeOK
      <3>3. n = Ucode => fw' = Stock
        <4>1. \A f \in File : Stock[f] = "stock"
          BY DEF Stock
        <4>2. QED
          BY <3>1, <3>2, <4>1, Contents
      <3>4. QED
        BY <1>4, <2>2, <3>2, <3>3 DEF Restore, CopyStock, RunTypeOK
    <2>3. CASE Tear(n) /\ Quit("error")
      BY <1>4, <2>3 DEF Restore, CopyStock
    <2>4. QED
      BY <1>4, <2>2, <2>3 DEF Restore, CopyStock
  <1>5. CASE Final
    <2>1. kept = File /\ \A f \in File : f < n => fw[f] = "stock"
      BY <1>5 DEF Final, CopyStock
    <2>2. CASE Put(n, Kept(n)) /\ NextFile("unhook")
      <3>1. fw' = [fw EXCEPT ![n] = "stock"]
        BY <2>1, <2>2 DEF Put, Kept, RunTypeOK
      <3>2. \A f \in File : f < n + 1 => fw'[f] = "stock"
        BY <2>1, <3>1 DEF RunTypeOK
      <3>3. n = Ucode => fw' = Stock
        <4>1. \A f \in File : Stock[f] = "stock"
          BY DEF Stock
        <4>2. QED
          BY <3>1, <3>2, <4>1, Contents
      <3>4. QED
        BY <1>5, <2>2, <3>2, <3>3 DEF Final, CopyStock, RunTypeOK
    <2>3. CASE Tear(n) /\ Quit("error")
      BY <1>5, <2>3 DEF Final, CopyStock
    <2>4. QED
      BY <1>5, <2>2, <2>3 DEF Final, CopyStock
  <1>6. CASE Gate
    BY <1>6 DEF Gate
  <1>7. CASE \E u \in Workloads : StopUnit(u)
    BY <1>7 DEF StopUnit
  <1>8. CASE StopPersistenced
    BY <1>8 DEF StopPersistenced
  <1>9. CASE \E m \in AuxModules : UnloadAux(m)
    BY <1>9 DEF UnloadAux, runVars
  <1>10. CASE LoadNouveau
    BY <1>10 DEF LoadNouveau
  <1>11. CASE Detach
    BY <1>11 DEF Detach, Unbind
  <1>12. CASE HookIn
    BY <1>12 DEF HookIn
  <1>13. CASE Install
    <2>1. \A f \in File : f < n => fw[f] = Image("tensor")[f]
      BY <1>13 DEF Install
    <2>2. CASE Put(n, Image("tensor")[n]) /\ NextFile("boot")
      <3>1. \A f \in File : f < n + 1 => fw'[f] = Image("tensor")[f]
        BY <2>1, <2>2 DEF Put, RunTypeOK
      <3>2. n = Ucode => fw' = Image("tensor")
        BY <2>2, <3>1, Contents DEF Put
      <3>3. QED
        BY <1>13, <2>2, <3>1, <3>2 DEF Install, RunTypeOK
    <2>3. CASE Tear(n) /\ Quit("error")
      BY <1>13, <2>3 DEF Install
    <2>4. QED
      BY <1>13, <2>2, <2>3 DEF Install
  <1>14. CASE Boot
    BY <1>14 DEF Boot, NouveauBoot
  <1>15. CASE Handoff
    BY <1>15 DEF Handoff, Unbind
  <1>16. CASE Rebind
    BY <1>16 DEF Rebind, NvidiaBind
  <1>17. CASE LoadUvm
    BY <1>17 DEF LoadUvm
  <1>18. CASE Unhook
    BY <1>18 DEF Unhook
  <1>19. CASE Query
    BY <1>19 DEF Query
  <1>20. CASE CleanupRestore
    BY <1>20 DEF CleanupRestore, Put, Tear, Kept
  <1>21. CASE CleanupHook
    BY <1>21 DEF CleanupHook
  <1>22. CASE \E g \in GPUs : CleanupBind(g)
    BY <1>22 DEF CleanupBind, NvidiaBind, Unbind
  <1>23. CASE CleanupUvm
    BY <1>23 DEF CleanupUvm
  <1>24. CASE CleanupPersistenced
    BY <1>24 DEF CleanupPersistenced
  <1>25. CASE Exit
    BY <1>25 DEF Exit, Gone
  <1>26. CASE Fail
    BY <1>26 DEF Fail
  <1>27. CASE Kill
    BY <1>27 DEF Kill, MaybeTorn, Gone, Tear, Put
  <1>28. CASE PowerCycle
    BY <1>28 DEF PowerCycle, PlatformReset, MaybeTorn, Gone, Tear, Put
  <1>29. CASE \E u \in Units : UnitSettles(u)
    BY <1>29 DEF UnitSettles, StartSettles, runVars
  <1>30. QED
    BY <1>1, <1>2, <1>3, <1>4, <1>5, <1>6, <1>7, <1>8, <1>9, <1>10, <1>11,
    <1>12, <1>13, <1>14, <1>15, <1>16, <1>17, <1>18, <1>19, <1>20, <1>21, <1>22,
    <1>23, <1>24, <1>25, <1>26, <1>27, <1>28, <1>29 DEF Next, Step

(* The drivers of the targets and the hook.                                *)
LEMMA AttachedStep ==
  ASSUME TypeOK, IdleAtRest, Attached, Next
  PROVE  Attached'
  <1> USE DEF TypeOK, PlatformTypeOK, IdleAtRest, Attached, Away, platformVars,
  regVars, linkVars, Goto, Quit, NextFile, scratch, MainLabel, CleanupLabel,
  File, Ucode
  <1>1. CASE Start
    BY <1>1 DEF Start
  <1>2. CASE CheckInstalled
    BY <1>2 DEF CheckInstalled
  <1>3. CASE Heal
    BY <1>3 DEF Heal, CopyStock, Put, Tear, Kept
  <1>4. CASE Restore
    BY <1>4 DEF Restore, CopyStock, Put, Tear, Kept
  <1>5. CASE Final
    BY <1>5 DEF Final, CopyStock, Put, Tear, Kept
  <1>6. CASE Gate
    BY <1>6 DEF Gate
  <1>7. CASE \E u \in Workloads : StopUnit(u)
    BY <1>7 DEF StopUnit
  <1>8. CASE StopPersistenced
    BY <1>8 DEF StopPersistenced
  <1>9. CASE \E m \in AuxModules : UnloadAux(m)
    BY <1>9 DEF UnloadAux, runVars
  <1>10. CASE LoadNouveau
    BY <1>10 DEF LoadNouveau
  <1>11. CASE Detach
    <2>1. PICK g \in todo : /\ cur' = g
                             /\ drv' = [drv EXCEPT ![g] = "none"]
                             /\ pc' \in {"rebind", "hookin"}
      BY <1>11 DEF Detach, Unbind
    <2>2. \A h \in targets : drv[h] = "nvidia"
      BY <1>11 DEF Detach
    <2>3. g \in targets /\ targets' = targets
      BY <1>11 DEF Detach, RunTypeOK
    <2>4. \A h \in targets : drv'[h] = "nvidia" \/ h = g
      BY <2>1, <2>2, <2>3 DEF RunTypeOK
    <2>5. QED
      BY <2>1, <2>3, <2>4
  <1>12. CASE HookIn
    BY <1>12 DEF HookIn
  <1>13. CASE Install
    BY <1>13 DEF Install, Put, Tear, Image
  <1>14. CASE Boot
    <2>1. /\ cur \in targets /\ cur \in GPUs
          /\ \A g \in targets : drv[g] = "nvidia" \/ g = cur
      BY <1>14 DEF Boot, RunTypeOK
    <2>2. drv' = [drv EXCEPT ![cur] = "nouveau"] /\ UNCHANGED <<targets, cur>>
      BY <1>14 DEF Boot, NouveauBoot
    <2>3. /\ drv'[cur] = "nouveau"
          /\ \A g \in targets : drv'[g] = "nvidia" \/ g = cur
      BY <2>1, <2>2 DEF RunTypeOK
    <2>4. pc' \in {"restore", "c_restore"}
      BY <1>14 DEF Boot
    <2>5. QED
      BY <2>1, <2>2, <2>3, <2>4
  <1>15. CASE Handoff
    <2>1. /\ cur \in targets
          /\ \A g \in targets : drv[g] = "nvidia" \/ g = cur
      BY <1>15 DEF Handoff
    <2>2. drv' \in {drv, [drv EXCEPT ![cur] = "none"]}
          /\ UNCHANGED <<targets, cur>>
      BY <1>15 DEF Handoff, Unbind
    <2>3. \A g \in targets : drv'[g] = "nvidia" \/ g = cur
      BY <2>1, <2>2 DEF RunTypeOK
    <2>4. pc' \in {"rebind", "c_restore"}
      BY <1>15 DEF Handoff
    <2>5. QED
      BY <2>1, <2>2, <2>3, <2>4
  <1>16. CASE Rebind
    <2>1. /\ cur \in targets
          /\ \A g \in targets : drv[g] = "nvidia" \/ g = cur
      BY <1>16 DEF Rebind
    <2>2. drv' = [drv EXCEPT ![cur] = "nvidia"] /\ UNCHANGED <<targets, cur>>
      BY <1>16 DEF Rebind, NvidiaBind
    <2>3. \A g \in targets : drv'[g] = "nvidia"
      BY <2>1, <2>2 DEF RunTypeOK
    <2>4. pc' \in {"uvm", "detach", "c_restore"}
      BY <1>16 DEF Rebind
    <2>5. QED
      BY <2>1, <2>2, <2>3, <2>4
  <1>17. CASE LoadUvm
    BY <1>17 DEF LoadUvm
  <1>18. CASE Unhook
    BY <1>18 DEF Unhook
  <1>19. CASE Query
    BY <1>19 DEF Query
  <1>20. CASE CleanupRestore
    BY <1>20 DEF CleanupRestore, Put, Tear, Kept
  <1>21. CASE CleanupHook
    BY <1>21 DEF CleanupHook
  <1>22. CASE \E g \in GPUs : CleanupBind(g)
    BY <1>22 DEF CleanupBind, NvidiaBind, Unbind
  <1>23. CASE CleanupUvm
    BY <1>23 DEF CleanupUvm
  <1>24. CASE CleanupPersistenced
    BY <1>24 DEF CleanupPersistenced
  <1>25. CASE Exit
    BY <1>25 DEF Exit, Gone
  <1>26. CASE Fail
    BY <1>26 DEF Fail
  <1>27. CASE Kill
    BY <1>27 DEF Kill, MaybeTorn, Gone, Tear, Put
  <1>28. CASE PowerCycle
    BY <1>28 DEF PowerCycle, PlatformReset, MaybeTorn, Gone, Tear, Put
  <1>29. CASE \E u \in Units : UnitSettles(u)
    BY <1>29 DEF UnitSettles, StartSettles, runVars
  <1>30. QED
    BY <1>1, <1>2, <1>3, <1>4, <1>5, <1>6, <1>7, <1>8, <1>9, <1>10, <1>11,
    <1>12, <1>13, <1>14, <1>15, <1>16, <1>17, <1>18, <1>19, <1>20, <1>21, <1>22,
    <1>23, <1>24, <1>25, <1>26, <1>27, <1>28, <1>29 DEF Next, Step

(* The targets that are done.                                              *)
LEMMA UnlockedStep ==
  ASSUME TypeOK, IdleAtRest, Attached, Unlocked, Next
  PROVE  Unlocked'
  <1> USE DEF TypeOK, PlatformTypeOK, IdleAtRest, Attached, Unlocked, Away,
  platformVars, regVars, linkVars, Goto, Quit, NextFile, scratch, MainLabel,
  CleanupLabel, File, Ucode
  <1>1. CASE Start
    BY <1>1 DEF Start
  <1>2. CASE CheckInstalled
    BY <1>2 DEF CheckInstalled
  <1>3. CASE Heal
    BY <1>3 DEF Heal, CopyStock, Put, Tear, Kept
  <1>4. CASE Restore
    BY <1>4 DEF Restore, CopyStock, Put, Tear, Kept
  <1>5. CASE Final
    BY <1>5 DEF Final, CopyStock, Put, Tear, Kept
  <1>6. CASE Gate
    BY <1>6 DEF Gate
  <1>7. CASE \E u \in Workloads : StopUnit(u)
    BY <1>7 DEF StopUnit
  <1>8. CASE StopPersistenced
    BY <1>8 DEF StopPersistenced
  <1>9. CASE \E m \in AuxModules : UnloadAux(m)
    BY <1>9 DEF UnloadAux, runVars
  <1>10. CASE LoadNouveau
    BY <1>10 DEF LoadNouveau
  <1>11. CASE Detach
    <2>1. PICK g \in todo : /\ cur' = g /\ todo' = todo \ {g}
                             /\ pc' = IF g \in tensor THEN "rebind" ELSE "hookin"
      BY <1>11 DEF Detach
    <2>2. pc = "detach" /\ UNCHANGED <<tensor, targets>>
      BY <1>11 DEF Detach
    <2>3. targets' \ (todo' \cup {cur'}) \subseteq tensor'
      BY <2>1, <2>2
    <2>4. QED
      BY <2>1, <2>2, <2>3
  <1>12. CASE HookIn
    BY <1>12 DEF HookIn
  <1>13. CASE Install
    BY <1>13 DEF Install, Put, Tear, Image
  <1>14. CASE Boot
    <2>1. pc = "boot" /\ tensor \subseteq tensor'
      BY <1>14 DEF Boot, NouveauBoot
    <2>2. UNCHANGED <<targets, todo, cur>>
      BY <1>14 DEF Boot
    <2>3. CASE cur \in tensor' /\ Goto("restore")
      BY <2>1, <2>2, <2>3
    <2>4. CASE Quit("error")
      BY <2>4
    <2>5. QED
      BY <1>14, <2>3, <2>4 DEF Boot
  <1>15. CASE Handoff
    <2>1. pc = "handoff" /\ UNCHANGED <<tensor, targets, todo, cur>>
      BY <1>15 DEF Handoff
    <2>2. CASE Goto("rebind")
      BY <2>1, <2>2
    <2>3. CASE Quit("error")
      BY <2>3
    <2>4. QED
      BY <1>15, <2>2, <2>3 DEF Handoff
  <1>16. CASE Rebind
    <2>1. pc = "rebind" /\ UNCHANGED <<tensor, targets, todo, cur>>
      BY <1>16 DEF Rebind
    <2>2. targets \ todo \subseteq tensor
      BY <2>1
    <2>3. CASE pc' = IF todo = {} THEN "uvm" ELSE "detach"
      BY <2>1, <2>2, <2>3
    <2>4. CASE Quit("error")
      BY <2>4
    <2>5. QED
      BY <1>16, <2>3, <2>4 DEF Rebind
  <1>17. CASE LoadUvm
    BY <1>17 DEF LoadUvm
  <1>18. CASE Unhook
    BY <1>18 DEF Unhook
  <1>19. CASE Query
    BY <1>19 DEF Query
  <1>20. CASE CleanupRestore
    BY <1>20 DEF CleanupRestore, Put, Tear, Kept
  <1>21. CASE CleanupHook
    BY <1>21 DEF CleanupHook
  <1>22. CASE \E g \in GPUs : CleanupBind(g)
    BY <1>22 DEF CleanupBind, NvidiaBind, Unbind
  <1>23. CASE CleanupUvm
    BY <1>23 DEF CleanupUvm
  <1>24. CASE CleanupPersistenced
    BY <1>24 DEF CleanupPersistenced
  <1>25. CASE Exit
    BY <1>25 DEF Exit, Gone
  <1>26. CASE Fail
    BY <1>26 DEF Fail
  <1>27. CASE Kill
    BY <1>27 DEF Kill, MaybeTorn, Gone, Tear, Put
  <1>28. CASE PowerCycle
    BY <1>28 DEF PowerCycle, PlatformReset, MaybeTorn, Gone, Tear, Put
  <1>29. CASE \E u \in Units : UnitSettles(u)
    BY <1>29 DEF UnitSettles, StartSettles, runVars
  <1>30. QED
    BY <1>1, <1>2, <1>3, <1>4, <1>5, <1>6, <1>7, <1>8, <1>9, <1>10, <1>11,
    <1>12, <1>13, <1>14, <1>15, <1>16, <1>17, <1>18, <1>19, <1>20, <1>21, <1>22,
    <1>23, <1>24, <1>25, <1>26, <1>27, <1>28, <1>29 DEF Next, Step

------------------------------------------------------------------------------

(* The initial states: any machine that boots with original firmware and   *)
(* whatever is left of the installed originals.                            *)
LEMMA InitIInv == Init => IInv
  <1> SUFFICES ASSUME Init PROVE IInv
    OBVIOUS
  <1>1. PlatformTypeOK
    BY Contents DEF Init, PlatformInit, PlatformTypeOK
  <1>2. RunTypeOK /\ IdleAtRest
    BY DEF Init, RunTypeOK, IdleAtRest, File
  <1>3. Firmware /\ Attached /\ Unlocked
    BY DEF Init, Firmware, Attached, Unlocked, MainLabel, CleanupLabel, OnStock,
       Copying, Away
  <1>4. QED
    BY <1>1, <1>2, <1>3 DEF IInv, TypeOK

(* Every step preserves the invariant.                                     *)
LEMMA NextIInv == IInv /\ [Next]_vars => IInv'
  <1>1. CASE Next
    BY <1>1, PlatformStep, RunStep, FirmwareStep, AttachedStep, UnlockedStep
    DEF IInv, TypeOK
  <1>2. CASE UNCHANGED vars
    BY <1>2 DEF vars, platformVars, runVars, IInv, TypeOK, PlatformTypeOK,
       RunTypeOK, IdleAtRest, Firmware, Attached, Unlocked
  <1>3. QED
    BY <1>1, <1>2

(* The invariant holds in every reachable state.                           *)
THEOREM Invariance == Spec => []IInv
  BY InitIInv, NextIInv, PTL DEF Spec

(* Every reachable state is well typed (TypeOK).                           *)
THEOREM Typing == Spec => []TypeOK
  <1>1. IInv => TypeOK
    BY DEF IInv
  <1>2. QED
    BY <1>1, Invariance, PTL

(* Whatever an earlier run has left in /lib/firmware, a run that gets as   *)
(* far as the devices has healed it (HealedFirst).                         *)
THEOREM Healing == Spec => []HealedFirst
  <1>1. IInv => HealedFirst
    BY DEF IInv, Firmware, OnStock, HealedFirst
  <1>2. QED
    BY <1>1, Invariance, PTL

------------------------------------------------------------------------------

(* Only unlock_one takes a GPU off NVIDIA.                                 *)
LEMMA DetachStep ==
  ASSUME IInv, Next, NEW g \in GPUs, drv[g] = "nvidia", drv'[g] = "none"
  PROVE  Detach
  <1> USE DEF IInv, TypeOK, PlatformTypeOK
  <1>1. CASE UNCHANGED drv
    BY <1>1
  <1>2. CASE Boot
    BY <1>2 DEF Boot, NouveauBoot
  <1>3. CASE Handoff
    BY <1>3 DEF Handoff, Unbind, Attached
  <1>4. CASE Rebind
    BY <1>4 DEF Rebind, NvidiaBind
  <1>5. CASE \E h \in GPUs : CleanupBind(h)
    BY <1>5 DEF CleanupBind, Unbind, NvidiaBind
  <1>6. CASE PowerCycle
    BY <1>6 DEF PowerCycle, PlatformReset
  <1>7. QED
    BY <1>1, <1>2, <1>3, <1>4, <1>5, <1>6 DEF Next, Step, Start, CheckInstalled,
       Heal, Restore, Final, CopyStock, Gate, StopUnit, StopPersistenced,
       UnloadAux, LoadNouveau, HookIn, Install, LoadUvm, Unhook, Query,
       CleanupRestore, CleanupHook, CleanupUvm, CleanupPersistenced, Exit, Fail,
       Kill, UnitSettles, StartSettles, platformVars

(* Only the bind of unlock_one puts a GPU on nouveau.                      *)
LEMMA BootStep ==
  ASSUME TypeOK, Next, NEW g \in GPUs, drv[g] # "nouveau", drv'[g] = "nouveau"
  PROVE  Boot
  <1> USE DEF TypeOK, PlatformTypeOK
  <1>1. CASE UNCHANGED drv
    BY <1>1
  <1>2. CASE Detach \/ Handoff
    BY <1>2 DEF Detach, Handoff, Unbind
  <1>3. CASE Rebind
    BY <1>3 DEF Rebind, NvidiaBind
  <1>4. CASE \E h \in GPUs : CleanupBind(h)
    BY <1>4 DEF CleanupBind, Unbind, NvidiaBind
  <1>5. CASE PowerCycle
    BY <1>5 DEF PowerCycle, PlatformReset
  <1>6. QED
    BY <1>1, <1>2, <1>3, <1>4, <1>5 DEF Next, Step, Start, CheckInstalled,
       Heal, Restore, Final, CopyStock, Gate, StopUnit, StopPersistenced,
       UnloadAux, LoadNouveau, HookIn, Install, LoadUvm, Unhook, Query,
       CleanupRestore, CleanupHook, CleanupUvm, CleanupPersistenced, Exit, Fail,
       Kill, UnitSettles, StartSettles, platformVars

(* No GPU leaves NVIDIA before verified originals are in place.            *)
THEOREM Handover == Spec => HandoverFromStock
  <1>1. ASSUME IInv, Next
        PROVE  \A g \in GPUs : (drv[g] = "nvidia" /\ drv'[g] = "none") =>
                 fw = Stock /\ kept = File
    BY <1>1, DetachStep DEF Detach, IInv, Firmware, OnStock, MainLabel
  <1>2. QED
    BY <1>1, Invariance, PTL DEF Spec, HandoverFromStock, vars

(* Nouveau boots only the current target, armed and with the whole image.  *)
THEOREM SignedBoots == Spec => SignedBootOnly
  <1>1. ASSUME IInv, Next
        PROVE  \A g \in GPUs : (drv[g] # "nouveau" /\ drv'[g] = "nouveau") =>
                 /\ hook = g
                 /\ fw = Image("tensor")
                 /\ \A h \in targets \ {g} : drv[h] = "nvidia"
    <2> SUFFICES ASSUME NEW g \in GPUs, drv[g] # "nouveau", drv'[g] = "nouveau"
                 PROVE  /\ hook = g
                        /\ fw = Image("tensor")
                        /\ \A h \in targets \ {g} : drv[h] = "nvidia"
      OBVIOUS
    <2>1. Boot
      BY <1>1, BootStep DEF IInv
    <2>2. g = cur
      BY <1>1, <2>1 DEF Boot, NouveauBoot, IInv, TypeOK, PlatformTypeOK
    <2>3. QED
      BY <1>1, <2>1, <2>2 DEF Boot, IInv, Firmware, Attached, MainLabel
  <1>2. QED
    BY <1>1, Invariance, PTL DEF Spec, SignedBootOnly, vars

(* PASS is reported only over unlocked targets that NVIDIA has again.      *)
THEOREM Passes == Spec => PassUnlocked
  <1>1. ASSUME Next, outcome = "running", outcome' = "pass"
        PROVE  Exit
    BY <1>1 DEF Next, Step, Start, CheckInstalled, Heal, Restore, Final,
       CopyStock, Gate, StopUnit, StopPersistenced, UnloadAux, LoadNouveau,
       Detach, HookIn, Install, Boot, Handoff, Rebind, LoadUvm, Unhook, Query,
       CleanupRestore, CleanupHook, CleanupBind, CleanupUvm,
       CleanupPersistenced, Exit, Fail, Kill, PowerCycle, UnitSettles, runVars
  <1>2. ASSUME IInv, Next, outcome = "running", outcome' = "pass"
        PROVE  \A g \in targets : g \in tensor /\ drv[g] = "nvidia"
    BY <1>1, <1>2 DEF Exit, IInv, Unlocked, CleanupLabel
  <1>3. QED
    BY <1>2, Invariance, PTL DEF Spec, PassUnlocked, vars

==============================================================================
