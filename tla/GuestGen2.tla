------------------------------ MODULE GuestGen2 ------------------------------
(***************************************************************************)
(* The guest helper scripts/cmp100-pcie-gen2: one invocation after another *)
(* (a flock serialises them) on a machine that may cut it short at any     *)
(* command by an error, a signal, SIGKILL or a power cycle.                *)
(*                                                                         *)
(* pc is the command group about to run.  Labels "c_*" are the EXIT trap.  *)
(* When no helper runs, the variables of its process are at rest.          *)
(***************************************************************************)
EXTENDS GuestPlatform

VARIABLES
  pc,
  targets,     \* TARGETS, the allow-list of this run
  todo,        \* the targets the current loop has not reached
  cur,         \* the target the current loop is at
  pay,         \* the payload apply_signed_write is called with
  n,           \* the file the current copy loop is at
  flags,       \* which of MUTATING and recovery_failed are 1
  rc,          \* the exit status so far: "ok" or "error" (any nonzero)
  backup,      \* content of BACKUP_DIR
  units,       \* the configured units the stop loop has not reached
  stopped,     \* STOPPED_SERVICES, and persistenced if it was active
  auxRec,      \* INITIALLY_LOADED_MODULES
  outcome,     \* how the last run ended, "running" while one runs
  trail        \* history, see Trail

loopVars   == <<todo, cur, pay>>
recordVars == <<units, stopped, auxRec>>
pastVars   == <<outcome, trail>>
runVars    == <<pc, targets, todo, cur, pay, n, flags, rc, backup, units,
                stopped, auxRec, outcome, trail>>
vars == <<platformVars, runVars>>

NoBackup == [f \in File |-> "absent"]

MainLabel == {"gate", "survey", "stop", "unload", "backup", "detach", "hookin",
              "install", "boot", "restore", "handoff", "rebind", "advert",
              "rdetach", "speed", "rrebind", "final", "unhook", "query"}
CleanupLabel == {"c_restore", "c_check", "c_hook", "c_bind", "c_aux", "c_svc",
                 "c_exit"}
CopyLabel == {"install", "restore", "final", "c_restore"}

Mutating       == "MUTATING" \in flags
RecoveryFailed == "recovery_failed" \in flags

(* "originals": a backup directory an earlier run left in /run holds the   *)
(* complete original firmware.  "lost": a power cycle discarded /run while *)
(* the active firmware was foreign.                                        *)
Trail == {"originals", "lost"}

Ended == {"none", "pass", "failed", "incomplete", "aborted", "killed"}

RunTypeOK ==
  /\ pc \in {"idle"} \cup MainLabel \cup CleanupLabel
  /\ targets \in SUBSET GPUs
  /\ todo \in SUBSET targets
  /\ cur \in targets \cup {NoGPU}
  /\ pay \in {"policy", "vector"}
  /\ n \in File
  /\ flags \in SUBSET {"MUTATING", "recovery_failed"}
  /\ rc \in {"ok", "error"}
  /\ backup \in [File -> Content \cup {"absent"}]
  /\ units \in SUBSET Workloads
  /\ stopped \in SUBSET Units
  /\ auxRec \in SUBSET AuxModules
  /\ outcome \in Ended \cup {"running"}
  /\ trail \in SUBSET Trail

TypeOK == PlatformTypeOK /\ RunTypeOK

(* The process variables before a run, and after it is gone.               *)
AtRest ==
  /\ pc = "idle"
  /\ targets = {} /\ todo = {} /\ cur = NoGPU /\ pay = "policy" /\ n = 1
  /\ flags = {} /\ rc = "ok" /\ backup = NoBackup
  /\ units = {} /\ stopped = {} /\ auxRec = {}

Vanished ==
  /\ pc' = "idle"
  /\ targets' = {} /\ todo' = {} /\ cur' = NoGPU /\ pay' = "policy" /\ n' = 1
  /\ flags' = {} /\ rc' = "ok" /\ backup' = NoBackup
  /\ units' = {} /\ stopped' = {} /\ auxRec' = {}

RunInit == AtRest /\ outcome = "none" /\ trail = {}

Init == PlatformInit /\ RunInit

------------------------------------------------------------------------------
(* Control.  A failing command under set -e, a die and a signal all leave  *)
(* the main program for the EXIT trap, which restores firmware and drivers *)
(* only once MUTATING is set.                                              *)

Goto(l) == pc' = l /\ n' = 1 /\ rc' = rc

Quit(code) == /\ pc' = IF Mutating THEN "c_restore" ELSE "c_aux"
              /\ n' = 1
              /\ rc' = code

(* Mistake: the copy loop runs once more.                                  *)
NextFileTooFar(l) == IF n > Ucode THEN Goto(l)
                                  ELSE pc' = pc /\ n' = n + 1 /\ rc' = rc

(* The copy loops: the next file, or the command after the last file.      *)
NextFile(l) == IF n = Ucode THEN Goto(l)
                            ELSE pc' = pc /\ n' = n + 1 /\ rc' = rc

(* restore_stock prefers the backup of this run to the installed originals. *)
Original(f) == IF backup[Fecs] # "absent" THEN backup[f] ELSE "stock"

Register(p) == IF p = "policy" THEN policy ELSE vector

(* A new invocation, after the flock is acquired.                          *)
Start ==
  /\ pc = "idle"
  /\ \E T \in (SUBSET GPUs) \ {{}} : targets' = T
  /\ Goto("gate")
  /\ outcome' = "running"
  /\ units' = Workloads
  /\ UNCHANGED <<platformVars, loopVars, flags, backup, stopped, auxRec, trail>>

(* Active firmware is the recorded original, every target is on nvidia.    *)
Gate ==
  /\ pc = "gate"
  /\ fw = Stock
  /\ \A g \in targets : drv[g] = "nvidia"
  /\ Goto("survey")
  /\ UNCHANGED <<platformVars, targets, loopVars, flags, backup,
                 recordVars, pastVars>>

(* Mistakes: one settled target is enough; NVIDIA's view is not asked for. *)
SurveyAny ==
  /\ pc = "survey"
  /\ IF \E g \in targets : link[g] = 2 /\ advert[g] = 2 THEN Quit("ok")
                                                        ELSE Goto("stop")
  /\ UNCHANGED <<platformVars, targets, loopVars, flags, backup,
                 recordVars, pastVars>>

SurveyLink ==
  /\ pc = "survey"
  /\ IF \A g \in targets : link[g] = 2 THEN Quit("ok") ELSE Goto("stop")
  /\ UNCHANGED <<platformVars, targets, loopVars, flags, backup,
                 recordVars, pastVars>>

(* Nothing to do when every link is settled at Gen2.  A link that is still *)
(* training, or that nvidia-smi does not report, counts as not done.       *)
Survey ==
  /\ pc = "survey"
  /\ \/ /\ \A g \in targets : link[g] = 2 /\ advert[g] = 2
        /\ Quit("ok")
     \/ Goto("stop")
  /\ UNCHANGED <<platformVars, targets, loopVars, flags, backup,
                 recordVars, pastVars>>

(* The loop has come to unit u, and systemd leaves it active or takes it   *)
(* down.                                                                   *)
Reached(u) == pc = "stop" /\ u \in units /\ units' = units \ {u}

Stopped(u) == svc' = [svc EXCEPT ![u] = "down"]

(* Mistake: the unit is recorded only once its stop has succeeded.         *)
StopUnitFirst(u) ==
  /\ Reached(u)
  /\ IF svc[u] = "active"
     THEN \/ Stopped(u) /\ stopped' = stopped \cup {u} /\ UNCHANGED <<pc, n, rc>>
          \/ (Stopped(u) \/ UNCHANGED svc) /\ stopped' = stopped /\ Quit("error")
     ELSE UNCHANGED <<svc, stopped, pc, n, rc>>
  /\ UNCHANGED <<fw, hook, drv, regVars, linkVars, aux, targets, loopVars,
                 flags, backup, auxRec, pastVars>>

(* A configured unit that is active now is recorded, then stopped within   *)
(* 45 seconds; one whose start is still queued is passed over.             *)
StopUnit(u) ==
  /\ Reached(u)
  /\ IF svc[u] = "active"
     THEN /\ stopped' = stopped \cup {u}
          /\ \/ Stopped(u) /\ UNCHANGED <<pc, n, rc>>
             \/ (Stopped(u) \/ UNCHANGED svc) /\ Quit("error")
     ELSE UNCHANGED <<svc, stopped, pc, n, rc>>
  /\ UNCHANGED <<fw, hook, drv, regVars, linkVars, aux, targets, loopVars,
                 flags, backup, auxRec, pastVars>>

(* No compute client is left; persistenced is recorded if it is active,    *)
(* and stopped in any case: a start of it that is queued is called off     *)
(* unrecorded.  A failure of the stop is ignored.                          *)
StopPersistenced ==
  /\ pc = "stop"
  /\ units = {}
  /\ stopped' = stopped \cup {u \in Units \cap {Persistenced} : svc[u] = "active"}
  /\ \/ UNCHANGED svc
     \/ \E u \in Units \cap {Persistenced} :
          svc[u] \in {"active", "queued"} /\ Stopped(u)
  /\ Goto("unload")
  /\ UNCHANGED <<fw, hook, drv, regVars, linkVars, aux, targets, loopVars,
                 flags, backup, units, auxRec, pastVars>>

(* A loaded auxiliary module is recorded, then unloaded in ten attempts.   *)
UnloadAux(m) ==
  /\ pc = "unload"
  /\ m \in aux
  /\ auxRec' = auxRec \cup {m}
  /\ \/ aux' = aux \ {m} /\ UNCHANGED <<pc, n, rc>>
     \/ aux' = aux /\ Quit("error")
  /\ UNCHANGED <<fw, hook, drv, regVars, linkVars, svc, targets, loopVars,
                 flags, backup, units, stopped, pastVars>>

LoadNouveau ==
  /\ pc = "unload"
  /\ aux = {}
  /\ Goto("backup")
  /\ UNCHANGED <<platformVars, targets, loopVars, flags, backup,
                 recordVars, pastVars>>

(* The active files are copied to BACKUP_DIR, then MUTATING is set.        *)
Backup ==
  /\ pc = "backup"
  /\ backup' = [backup EXCEPT ![n] = fw[n]]
  /\ NextFile("detach")
  /\ IF n = Ucode THEN flags' = {"MUTATING"} /\ todo' = targets
                  ELSE UNCHANGED <<flags, todo>>
  /\ UNCHANGED <<platformVars, targets, cur, pay, recordVars, pastVars>>

------------------------------------------------------------------------------
(* apply_signed_write, once per target for the policy payload and once for *)
(* the vector payload.                                                     *)

(* NVIDIA lets go of the GPU, whose Tensor unlock is then checked.         *)
Detach ==
  /\ pc = "detach"
  /\ IF pay = "policy"
     THEN \E g \in todo : cur' = g /\ todo' = todo \ {g}
     ELSE UNCHANGED <<cur, todo>>
  /\ Unbind(cur')
  /\ IF cur' \in tensor THEN Goto("hookin") ELSE Quit("error")
  /\ UNCHANGED <<fw, hook, regVars, linkVars, aux, svc, targets, pay, flags,
                 backup, recordVars, pastVars>>

(* remove_hook ignores a failing rmmod; insmod then fails on a loaded one. *)
HookIn ==
  /\ pc = "hookin"
  /\ \/ hook' = cur /\ Goto("install")
     \/ hook' \in {hook, NoGPU} /\ Quit("error")
  /\ UNCHANGED <<fw, drv, regVars, linkVars, aux, svc, targets, loopVars,
                 flags, backup, recordVars, pastVars>>

(* Mistake: a failing copy does not end the run.                           *)
InstallUnchecked ==
  /\ pc = "install"
  /\ Put(n, Image(pay)[n]) \/ Tear(n)
  /\ NextFile("boot")
  /\ UNCHANGED <<hook, drv, regVars, linkVars, aux, svc, targets, loopVars,
                 flags, backup, recordVars, pastVars>>

Install ==
  /\ pc = "install"
  /\ \/ Put(n, Image(pay)[n]) /\ NextFile("boot")
     \/ Tear(n) /\ Quit("error")
  /\ UNCHANGED <<hook, drv, regVars, linkVars, aux, svc, targets, loopVars,
                 flags, backup, recordVars, pastVars>>

(* Nouveau binds, and the ACR boot is accepted on a new BOOT_RETURN line   *)
(* with function_rc=0, whatever the boot did to the registers.             *)
Boot ==
  /\ pc = "boot"
  /\ NouveauBoot(cur)
  /\ Goto("restore") \/ Quit("error")
  /\ UNCHANGED <<fw, hook, linkVars, aux, svc, targets, loopVars, flags,
                 backup, recordVars, pastVars>>

(* restore_stock after the boot, at the end of the run.                    *)
RestoreTo(here, next) ==
  /\ pc = here
  /\ \/ Put(n, Original(n)) /\ NextFile(next)
     \/ Tear(n) /\ Quit("error")
  /\ UNCHANGED <<hook, drv, regVars, linkVars, aux, svc, targets, loopVars,
                 flags, backup, recordVars, pastVars>>

Restore == RestoreTo("restore", "handoff")
Final   == RestoreTo("final", "unhook")

(* Mistake: the written register is not read back.                         *)
HandoffUnread ==
  /\ pc = "handoff"
  /\ hook' \in {hook, NoGPU}
  /\ Unbind(cur) /\ Goto("rebind")
  /\ UNCHANGED <<fw, regVars, linkVars, aux, svc, targets, loopVars, flags,
                 backup, recordVars, pastVars>>

(* The hook goes, nouveau lets go, the written register is read back.      *)
Handoff ==
  /\ pc = "handoff"
  /\ hook' \in {hook, NoGPU}
  /\ \/ /\ Unbind(cur)
        /\ IF cur \in Register(pay) THEN Goto("rebind") ELSE Quit("error")
     \/ UNCHANGED drv /\ Quit("error")
  /\ UNCHANGED <<fw, regVars, linkVars, aux, svc, targets, loopVars, flags,
                 backup, recordVars, pastVars>>

(* Mistake: no rebind after the second write.                              *)
RebindOnce ==
  /\ pc = "rebind"
  /\ \/ pay = "policy" /\ pay' = "vector" /\ Goto("detach") /\ NvidiaBind(cur)
     \/ pay = "vector" /\ pay' = pay /\ Goto("advert") /\ UNCHANGED <<drv, advert>>
  /\ UNCHANGED <<fw, hook, regVars, link, aux, svc, targets, todo, cur,
                 flags, backup, recordVars, pastVars>>

(* NVIDIA takes the GPU back and must list it.                             *)
Rebind ==
  /\ pc = "rebind"
  /\ NvidiaBind(cur)
  /\ \/ pay = "policy" /\ pay' = "vector" /\ Goto("detach")
     \/ pay = "vector" /\ pay' = pay /\ Goto("advert")
     \/ pay' = pay /\ Quit("error")
  /\ UNCHANGED <<fw, hook, regVars, link, aux, svc, targets, todo, cur,
                 flags, backup, recordVars, pastVars>>

(* NVIDIA must advertise Gen2; then the next target, or the retrain loop.  *)
Advert ==
  /\ pc = "advert"
  /\ advert[cur] = 2
  /\ pay' = "policy"
  /\ IF todo = {} THEN todo' = targets /\ Goto("rdetach")
                  ELSE todo' = todo /\ Goto("detach")
  /\ UNCHANGED <<platformVars, targets, cur, flags, backup,
                 recordVars, pastVars>>

------------------------------------------------------------------------------
(* retrain_one.                                                            *)

RetrainDetach ==
  /\ pc = "rdetach"
  /\ \E g \in todo : /\ cur' = g
                     /\ todo' = todo \ {g}
                     /\ Unbind(g)
  /\ Goto("speed")
  /\ UNCHANGED <<fw, hook, regVars, linkVars, aux, svc, targets, pay, flags,
                 backup, recordVars, pastVars>>

(* The rate field is corrected and CHANGE_SPEED issued; within ten polls   *)
(* the link is at Gen2.  A later check of the register may still fail.     *)
ChangeSpeed ==
  /\ pc = "speed"
  /\ link' = [link EXCEPT ![cur] = 2]
  /\ Goto("rrebind") \/ Quit("error")
  /\ UNCHANGED <<fw, hook, drv, regVars, advert, aux, svc, targets, loopVars,
                 flags, backup, recordVars, pastVars>>

RetrainRebind ==
  /\ pc = "rrebind"
  /\ NvidiaBind(cur)
  /\ \/ /\ link[cur] = 2 /\ advert'[cur] = 2
        /\ Goto(IF todo = {} THEN "final" ELSE "rdetach")
     \/ Quit("error")
  /\ UNCHANGED <<fw, hook, regVars, link, aux, svc, targets, loopVars,
                 flags, backup, recordVars, pastVars>>

Unhook ==
  /\ pc = "unhook"
  /\ hook' \in {hook, NoGPU}
  /\ Goto("query")
  /\ UNCHANGED <<fw, drv, regVars, linkVars, aux, svc, targets, loopVars,
                 flags, backup, recordVars, pastVars>>

(* The closing nvidia-smi, whose failure is the run's failure.             *)
Query ==
  /\ pc = "query"
  /\ Quit("ok")
  /\ UNCHANGED <<platformVars, targets, loopVars, flags, backup,
                 recordVars, pastVars>>

------------------------------------------------------------------------------
(* The EXIT trap.  set +e: a failing command is counted, never fatal.      *)

(* A copy that fails leaves the file foreign, in full or half written:     *)
(* both are "torn" here, no boot follows in this run.                      *)
CleanupRestore ==
  /\ pc = "c_restore"
  /\ Put(n, Original(n)) \/ Tear(n)
  /\ NextFile("c_check")
  /\ UNCHANGED <<hook, drv, regVars, linkVars, aux, svc, targets, loopVars,
                 flags, backup, recordVars, pastVars>>

RecordFailure == flags' = flags \cup {"recovery_failed"}

CleanupCheck ==
  /\ pc = "c_check"
  /\ IF fw = Stock THEN flags' = flags ELSE RecordFailure
  /\ Goto("c_hook")
  /\ UNCHANGED <<platformVars, targets, loopVars, backup, recordVars,
                 pastVars>>

CleanupHook ==
  /\ pc = "c_hook"
  /\ hook' \in {hook, NoGPU}
  /\ IF hook' = NoGPU THEN flags' = flags ELSE RecordFailure
  /\ todo' = targets
  /\ Goto("c_bind")
  /\ UNCHANGED <<fw, drv, regVars, linkVars, aux, svc, targets, cur, pay,
                 backup, recordVars, pastVars>>

(* rebind_nvidia: a target still on nouveau is taken off it, an unbound    *)
(* one is bound to NVIDIA; NVIDIA must then list the target.               *)
CleanupBind(g) ==
  /\ pc = "c_bind"
  /\ g \in todo
  /\ todo' = todo \ {g}
  /\ \/ drv[g] = "nvidia" /\ UNCHANGED <<drv, advert>> /\ (flags' = flags \/ RecordFailure)
     \/ drv[g] # "nvidia" /\ NvidiaBind(g) /\ (flags' = flags \/ RecordFailure)
     \/ drv[g] # "nvidia" /\ RecordFailure /\ UNCHANGED <<drv, advert>>
     \/ drv[g] = "nouveau" /\ RecordFailure /\ Unbind(g) /\ UNCHANGED advert
  /\ UNCHANGED <<fw, hook, regVars, link, aux, svc, pc, targets, cur, pay, n,
                 rc, backup, recordVars, pastVars>>

(* Mistake: the cleanup waits for the drivers it could not bind.           *)
CleanupBoundWaits ==
  /\ pc = "c_bind"
  /\ todo = {}
  /\ \A g \in targets : drv[g] = "nvidia"
  /\ Goto("c_aux")
  /\ UNCHANGED <<platformVars, targets, loopVars, flags, backup,
                 recordVars, pastVars>>

CleanupBound ==
  /\ pc = "c_bind"
  /\ todo = {}
  /\ Goto("c_aux")
  /\ UNCHANGED <<platformVars, targets, loopVars, flags, backup,
                 recordVars, pastVars>>

(* Mistake: a module that does not load again is not counted.              *)
CleanupAuxSilent ==
  /\ pc = "c_aux"
  /\ \E loaded \in SUBSET auxRec : aux' = aux \cup loaded
  /\ Goto("c_svc")
  /\ UNCHANGED <<fw, hook, drv, regVars, linkVars, svc, targets, loopVars,
                 flags, backup, recordVars, pastVars>>

CleanupAux ==
  /\ pc = "c_aux"
  /\ \E loaded \in SUBSET auxRec :
       /\ aux' = aux \cup loaded
       /\ IF loaded = auxRec THEN flags' = flags ELSE RecordFailure
  /\ Goto("c_svc")
  /\ UNCHANGED <<fw, hook, drv, regVars, linkVars, svc, targets, loopVars,
                 backup, recordVars, pastVars>>

(* restore_services asks for every recorded unit and waits for none; a     *)
(* request systemd refuses is ignored, one for an active unit does nothing. *)
RestoreServices ==
  /\ pc = "c_svc"
  /\ \E refused \in SUBSET stopped :
       svc' = [u \in Units |-> IF u \notin stopped \/ svc[u] = "active" THEN svc[u]
                              ELSE IF u \in refused THEN "failed" ELSE "queued"]
  /\ Goto("c_exit")
  /\ UNCHANGED <<fw, hook, drv, regVars, linkVars, aux, targets, loopVars,
                 flags, backup, recordVars, pastVars>>

(* BACKUP_DIR outlives its process unless the process removed it.          *)
Retain == trail' = IF backup = Stock THEN trail \cup {"originals"} ELSE trail

(* Mistake: the backup is removed although the recovery failed.            *)
ExitForgetful ==
  /\ pc = "c_exit"
  /\ Vanished
  /\ outcome' = CASE RecoveryFailed -> "incomplete"
                 [] ~RecoveryFailed /\ rc = "ok" -> "pass"
                 [] OTHER -> "failed"
  /\ UNCHANGED <<platformVars, trail>>

(* The backup goes unless recovery failed, which also spoils the status.   *)
Exit ==
  /\ pc = "c_exit"
  /\ Vanished
  /\ IF RecoveryFailed
     THEN outcome' = "incomplete" /\ Retain
     ELSE outcome' = (IF rc = "ok" THEN "pass" ELSE "failed") /\ trail' = trail
  /\ UNCHANGED platformVars

------------------------------------------------------------------------------
(* What cuts a run short.                                                  *)

(* A command of the main program fails without an effect: an assertion, a  *)
(* bounded wait that ran out, a die, or any command under set -e.          *)
Fail ==
  /\ pc \in MainLabel
  /\ Quit("error")
  /\ UNCHANGED <<platformVars, targets, loopVars, flags, backup,
                 recordVars, pastVars>>

(* TERM or INT: "exit" runs the EXIT trap.                                 *)
Signal ==
  /\ pc \in MainLabel
  /\ Quit("error")
  /\ UNCHANGED <<platformVars, targets, loopVars, flags, backup,
                 recordVars, pastVars>>

(* The file being copied when the writer dies may be left torn.            *)
MaybeTorn == \/ UNCHANGED fw
             \/ pc \in CopyLabel /\ Tear(n)

(* The process ends where it is; its backup directory stays behind.        *)
Vanish(how) ==
  /\ MaybeTorn
  /\ Vanished
  /\ outcome' = how
  /\ Retain
  /\ UNCHANGED <<hook, drv, regVars, linkVars, aux, svc>>

(* A second TERM or INT: the EXIT trap has reset itself but not the other  *)
(* two traps, so their "exit" ends the cleanup where it stands.            *)
SignalCleanup == pc \in CleanupLabel /\ Vanish("aborted")

(* SIGKILL: systemd's stop timeout, timeout --kill-after, the OOM killer.  *)
Kill == pc # "idle" /\ Vanish("killed")

(* Power is lost, or the guest is reset.                                   *)
PowerCycle ==
  /\ MaybeTorn
  /\ PlatformReset
  /\ Vanished
  /\ outcome' = "none"
  /\ trail' = IF fw' = Stock THEN {} ELSE {"lost"}

(* Between runs: the Tensor helper unlocks a GPU; it, or an operator, puts *)
(* the original firmware back; a link degrades.                            *)
TensorUnlocked(g) ==
  /\ pc = "idle" /\ g \notin tensor
  /\ tensor' = tensor \cup {g}
  /\ UNCHANGED <<fw, hook, drv, policy, vector, linkVars, aux, svc, runVars>>

FirmwareRepaired ==
  /\ pc = "idle" /\ fw # Stock
  /\ fw' = Stock /\ trail' = trail \ {"lost"}
  /\ UNCHANGED <<hook, drv, regVars, linkVars, aux, svc, pc, targets, loopVars,
                 n, flags, rc, backup, recordVars, outcome>>

LinkDegraded(g) == pc = "idle" /\ Degrade(g) /\ UNCHANGED runVars

(* systemd goes on with what was queued, during a run as between two.      *)
UnitSettles(u) == StartSettles(u) /\ UNCHANGED runVars

------------------------------------------------------------------------------
Step ==
  \/ Gate \/ Survey \/ StopPersistenced \/ LoadNouveau \/ Backup
  \/ \E u \in Workloads : StopUnit(u)
  \/ \E m \in AuxModules : UnloadAux(m)
  \/ Detach \/ HookIn \/ Install \/ Boot \/ Restore \/ Handoff \/ Rebind
  \/ Advert \/ RetrainDetach \/ ChangeSpeed \/ RetrainRebind
  \/ Final \/ Unhook \/ Query
  \/ CleanupRestore \/ CleanupCheck \/ CleanupHook
  \/ \E g \in GPUs : CleanupBind(g)
  \/ CleanupBound \/ CleanupAux \/ RestoreServices \/ Exit
  \/ Fail

Environment ==
  \/ Signal \/ SignalCleanup \/ Kill \/ PowerCycle
  \/ \E g \in GPUs : TensorUnlocked(g) \/ LinkDegraded(g)
  \/ FirmwareRepaired
  \/ \E u \in Units : UnitSettles(u)

Next == Start \/ Step \/ Environment

Spec == Init /\ [][Next]_vars

(* Every command of the helper is bounded (polls, timeout(1), one pass over *)
(* a list), so a live process keeps taking steps.                          *)
FairSpec == Spec /\ WF_vars(Step)
------------------------------------------------------------------------------
(* Properties.                                                             *)

(* Foreign content in /lib/firmware can always be undone from this boot's  *)
(* /run: either the run that wrote it is alive with the complete originals *)
(* in BACKUP_DIR, or a backup directory holding them was retained.  Only a *)
(* power cycle that catches the files foreign can lose them (restore_stock, *)
(* cleanup and the order of backup and MUTATING).                          *)
FirmwareRecoverable ==
  fw # Stock => \/ pc # "idle" /\ Mutating /\ backup = Stock
                \/ trail # {}

(* A run that opened the mutation window and ended without the message     *)
(* RECOVERY INCOMPLETE has undone it: original firmware, no hook, every    *)
(* target on NVIDIA, every unloaded module loaded again, whether it passed *)
(* or failed and wherever an error or the first signal struck (cleanup).   *)
ReportedOutcome ==
  [][(outcome = "running" /\ Mutating /\ outcome' \in {"pass", "failed"}) =>
       /\ fw = Stock
       /\ hook = NoGPU
       /\ \A g \in targets : drv[g] = "nvidia"
       /\ auxRec \subseteq aux]_vars

(* A unit goes down only when this run has recorded it, or when it is      *)
(* persistenced and its start was queued; what is recorded stays so for    *)
(* the run; and at an end that is reported the start of every recorded     *)
(* unit has been asked for, also when a stop failed half-way or the        *)
(* recovery is incomplete (STOPPED_SERVICES and restore_services).  That   *)
(* the start is granted, or succeeds, is not promised: nobody looks.       *)
WorkloadsRestarted ==
  [][/\ \A u \in Units : (svc[u] \in {"active", "queued"} /\ svc'[u] = "down") =>
           u \in stopped' \/ (u = Persistenced /\ svc[u] = "queued")
     /\ pc' # "idle" => stopped \subseteq stopped'
     /\ (outcome = "running" /\ outcome' \in {"pass", "failed", "incomplete"}) =>
          \A u \in stopped : svc[u] # "down"]_vars

(* At most one allow-listed GPU is away from NVIDIA while the main program *)
(* runs: a target is handed back before the next one is touched.           *)
OneDetached ==
  pc \in MainLabel \ {"gate"} =>
    \A g \in targets \ {cur} : drv[g] = "nvidia"

(* No GPU is retrained to Gen2 before both signed writes were read back on *)
(* it: the readbacks of apply_signed_write and the order of the two loops. *)
Gen2Provenance == \A g \in GPUs : link[g] = 2 => g \in policy \cap vector

(* Nouveau boots a GPU only with the hook armed for that GPU, a complete   *)
(* signed image in place, the originals saved and all other targets on     *)
(* NVIDIA.                                                                 *)
SignedBootOnly ==
  [][\A g \in GPUs : (drv[g] # "nouveau" /\ drv'[g] = "nouveau") =>
       /\ hook = g
       /\ fw \in {Image("policy"), Image("vector")}
       /\ backup = Stock
       /\ \A h \in targets \ {g} : drv[h] = "nvidia"]_vars

(* A run reports PASS only with every target at Gen2 and NVIDIA            *)
(* advertising it, whether it did the work or found it done.               *)
PassVerified ==
  [][(outcome # "pass" /\ outcome' = "pass") =>
       \A g \in targets : link[g] = 2 /\ advert[g] = 2]_vars

(* Every started run ends, whatever fails.                                 *)
RunEnds == pc # "idle" ~> pc = "idle"

(* The helper keeps the contract its callers rely on (Gen2Contract).       *)
Promise == INSTANCE Gen2Contract WITH
             job <- targets, gen2 <- {g \in GPUs : link[g] = 2},
             result <- outcome
KeepsContract == Promise!Contract
==============================================================================
