----------------------------- MODULE TensorUnlock -----------------------------
(***************************************************************************)
(* The guest script scripts/cmp100-tensor-unlock, the first stage of the   *)
(* boot profile, on the machine of GuestPlatform.  Unlike the Gen2 helper  *)
(* it restores firmware from the installed originals only, it heals the    *)
(* active files before anything else, and its EXIT trap ignores every      *)
(* failure.  Labels "c_*" are the EXIT trap.                               *)
(***************************************************************************)
EXTENDS GuestPlatform

CONSTANT Uvm  \* nvidia_uvm, the one module loaded again

ASSUME UvmAssumption == Uvm \in AuxModules

VARIABLES
  pc,
  kept,      \* the files of STATE_DIR/stock that match the manifest
  targets, todo, cur, n,
  rc,        \* "ok" or "error"
  marks,     \* which of SUCCESS and PERSISTENCED_WAS_ACTIVE are 1
  outcome    \* how the last run ended, "running" while one runs

scratch == <<targets, todo, cur>>
runVars == <<pc, kept, targets, todo, cur, n, rc, marks, outcome>>
vars    == <<platformVars, runVars>>

MainLabel == {"check", "heal", "gate", "stop", "unload", "detach", "hookin",
              "install", "boot", "restore", "handoff", "rebind", "uvm",
              "final", "unhook", "query"}
CleanupLabel == {"c_restore", "c_hook", "c_bind", "c_svc", "c_exit"}
CopyLabel == {"heal", "install", "restore", "final", "c_restore"}

RunTypeOK ==
  /\ pc \in {"idle"} \cup MainLabel \cup CleanupLabel
  /\ kept \in SUBSET File
  /\ targets \in SUBSET GPUs /\ todo \in SUBSET targets
  /\ cur \in targets \cup {NoGPU}
  /\ n \in File
  /\ rc \in {"ok", "error"}
  /\ marks \in SUBSET {"SUCCESS", "persistenced"}
  /\ outcome \in {"none", "running", "pass", "failed", "killed"}

TypeOK == PlatformTypeOK /\ RunTypeOK

Init ==
  /\ PlatformInit
  /\ kept \in SUBSET File
  /\ pc = "idle" /\ targets = {} /\ todo = {} /\ cur = NoGPU /\ n = 1
  /\ rc = "ok" /\ marks = {} /\ outcome = "none"

------------------------------------------------------------------------------
Goto(l)    == pc' = l /\ n' = 1 /\ rc' = rc
Quit(code) == pc' = "c_restore" /\ n' = 1 /\ rc' = code

(* Mistake: the copy loop runs once more.                                  *)
NextFileTooFar(l) == IF n > Ucode THEN Goto(l)
                                  ELSE pc' = pc /\ n' = n + 1 /\ rc' = rc

NextFile(l) == IF n = Ucode THEN Goto(l) ELSE pc' = pc /\ n' = n + 1 /\ rc' = rc

Gone == /\ pc' = "idle" /\ targets' = {} /\ todo' = {} /\ cur' = NoGPU /\ n' = 1
        /\ rc' = "ok" /\ marks' = {} /\ kept' = kept

(* What restore_stock copies, intact or not.                               *)
Kept(f) == IF f \in kept THEN "stock" ELSE "torn"

Start ==
  /\ pc = "idle"
  /\ \E T \in (SUBSET GPUs) \ {{}} : targets' = T
  /\ Goto("check")
  /\ outcome' = "running"
  /\ UNCHANGED <<platformVars, kept, todo, cur, marks>>

(* Mistake: the installed originals are not verified.                      *)
CheckNothing ==
  /\ pc = "check"
  /\ Goto("heal")
  /\ UNCHANGED <<platformVars, kept, scratch, marks, outcome>>

(* The installed originals, payloads and hook match the manifest.          *)
CheckInstalled ==
  /\ pc = "check"
  /\ kept = File
  /\ Goto("heal")
  /\ UNCHANGED <<platformVars, kept, scratch, marks, outcome>>

CopyStock(here, next) ==
  /\ pc = here
  /\ \/ Put(n, Kept(n)) /\ NextFile(next)
     \/ Tear(n) /\ Quit("error")
  /\ UNCHANGED <<hook, drv, regVars, linkVars, aux, svc, kept, scratch, marks, outcome>>

(* Mistake: a failed copy does not end the run.                            *)
HealAnyway ==
  /\ pc = "heal"
  /\ Put(n, Kept(n)) \/ Tear(n)
  /\ NextFile("gate")
  /\ UNCHANGED <<hook, drv, regVars, linkVars, aux, svc, kept, scratch, marks, outcome>>

(* The unconditional restore_stock before the devices are looked at.       *)
Heal    == CopyStock("heal", "gate")
Restore == CopyStock("restore", "handoff")
Final   == CopyStock("final", "unhook")

Gate ==
  /\ pc = "gate"
  /\ \A g \in targets : drv[g] = "nvidia"
  /\ Goto("stop")
  /\ UNCHANGED <<platformVars, kept, scratch, marks, outcome>>

(* A unit that is up or about to be; systemctl stop calls off its start.   *)
Wanted(u) == svc[u] \in {"active", "queued"}

(* The configured units are stopped, active or not, and not remembered.    *)
StopUnit(u) ==
  /\ pc = "stop"
  /\ Wanted(u)
  /\ svc' = [svc EXCEPT ![u] = "down"]
  /\ UNCHANGED <<pc, n, rc>> \/ Quit("error")
  /\ UNCHANGED <<fw, hook, drv, regVars, linkVars, aux, kept, scratch, marks, outcome>>

StopPersistenced ==
  /\ pc = "stop"
  /\ \A u \in Workloads : ~Wanted(u)
  /\ marks' = IF \E u \in Units \cap {Persistenced} : svc[u] = "active"
              THEN {"persistenced"} ELSE {}
  /\ \/ UNCHANGED svc
     \/ \E u \in Units \cap {Persistenced} :
          Wanted(u) /\ svc' = [svc EXCEPT ![u] = "down"]
  /\ Goto("unload")
  /\ UNCHANGED <<fw, hook, drv, regVars, linkVars, aux, kept, scratch, outcome>>

UnloadAux(m) ==
  /\ pc = "unload"
  /\ m \in aux
  /\ aux' = aux \ {m}
  /\ UNCHANGED <<fw, hook, drv, regVars, linkVars, svc, runVars>>

LoadNouveau ==
  /\ pc = "unload"
  /\ aux = {}
  /\ todo' = targets
  /\ Goto("detach")
  /\ UNCHANGED <<platformVars, kept, targets, cur, marks, outcome>>

------------------------------------------------------------------------------
(* unlock_one.                                                             *)

(* Mistake: one unlocked GPU makes all of them count as unlocked.          *)
DetachAny ==
  /\ pc = "detach"
  /\ \E g \in todo : /\ cur' = g /\ todo' = todo \ {g} /\ Unbind(g)
                     /\ Goto(IF tensor # {} THEN "rebind" ELSE "hookin")
  /\ UNCHANGED <<fw, hook, regVars, linkVars, aux, svc, kept, targets, marks, outcome>>

(* NVIDIA lets go; a GPU that is already unlocked is handed straight back. *)
Detach ==
  /\ pc = "detach"
  /\ \E g \in todo : /\ cur' = g /\ todo' = todo \ {g} /\ Unbind(g)
                     /\ Goto(IF g \in tensor THEN "rebind" ELSE "hookin")
  /\ UNCHANGED <<fw, hook, regVars, linkVars, aux, svc, kept, targets, marks, outcome>>

(* Mistake: a hook that is already loaded is taken as it is.               *)
HookInStale ==
  /\ pc = "hookin"
  /\ hook' = IF hook = NoGPU THEN cur ELSE hook
  /\ Goto("install")
  /\ UNCHANGED <<fw, drv, regVars, linkVars, aux, svc, kept, scratch, marks, outcome>>

(* remove_hook and insmod, either of which ends the run when it fails.     *)
HookIn ==
  /\ pc = "hookin"
  /\ \/ hook' = cur /\ Goto("install")
     \/ hook' = NoGPU /\ Quit("error")
  /\ UNCHANGED <<fw, drv, regVars, linkVars, aux, svc, kept, scratch, marks, outcome>>

Install ==
  /\ pc = "install"
  /\ \/ Put(n, Image("tensor")[n]) /\ NextFile("boot")
     \/ Tear(n) /\ Quit("error")
  /\ UNCHANGED <<hook, drv, regVars, linkVars, aux, svc, kept, scratch, marks, outcome>>

(* A new BOOT_RETURN line with function_rc=0 and the unlocked register.    *)
Boot ==
  /\ pc = "boot"
  /\ NouveauBoot(cur)
  /\ \/ cur \in tensor' /\ Goto("restore")
     \/ Quit("error")
  /\ UNCHANGED <<fw, hook, linkVars, aux, svc, kept, scratch, marks, outcome>>

(* The hook goes, nouveau lets go, the register still reads unlocked.      *)
Handoff ==
  /\ pc = "handoff"
  /\ hook' = NoGPU
  /\ \/ Unbind(cur) /\ cur \in tensor /\ Goto("rebind")
     \/ (Unbind(cur) \/ UNCHANGED drv) /\ Quit("error")
  /\ UNCHANGED <<fw, regVars, linkVars, aux, svc, kept, scratch, marks, outcome>>

Rebind ==
  /\ pc = "rebind"
  /\ NvidiaBind(cur)
  /\ Goto(IF todo = {} THEN "uvm" ELSE "detach") \/ Quit("error")
  /\ UNCHANGED <<fw, hook, regVars, link, aux, svc, kept, scratch, marks, outcome>>

LoadUvm ==
  /\ pc = "uvm"
  /\ aux' = aux \cup {Uvm}
  /\ Goto("final")
  /\ UNCHANGED <<fw, hook, drv, regVars, linkVars, svc, kept, scratch, marks, outcome>>

Unhook ==
  /\ pc = "unhook"
  /\ hook' = NoGPU
  /\ marks' = marks \cup {"SUCCESS"}
  /\ Goto("query")
  /\ UNCHANGED <<fw, drv, regVars, linkVars, aux, svc, kept, scratch, outcome>>

Query ==
  /\ pc = "query"
  /\ Quit("ok")
  /\ UNCHANGED <<platformVars, kept, scratch, marks, outcome>>

------------------------------------------------------------------------------
(* The EXIT trap, every part of it "|| true".                              *)

CleanupRestore ==
  /\ pc = "c_restore"
  /\ Put(n, Kept(n)) \/ Tear(n) \/ UNCHANGED fw
  /\ NextFile("c_hook")
  /\ UNCHANGED <<hook, drv, regVars, linkVars, aux, svc, kept, scratch, marks, outcome>>

CleanupHook ==
  /\ pc = "c_hook"
  /\ hook' \in {hook, NoGPU}
  /\ Goto(IF "SUCCESS" \in marks THEN "c_svc" ELSE "c_bind")
  /\ todo' = targets
  /\ UNCHANGED <<fw, drv, regVars, linkVars, aux, svc, kept, targets, cur, marks, outcome>>

(* best_effort_nvidia_recovery of one target.                              *)
CleanupBind(g) ==
  /\ pc = "c_bind"
  /\ g \in todo
  /\ todo' = todo \ {g}
  /\ \/ UNCHANGED <<drv, advert>>
     \/ drv[g] = "nouveau" /\ Unbind(g) /\ UNCHANGED advert
     \/ drv[g] # "nvidia" /\ NvidiaBind(g)
  /\ UNCHANGED <<fw, hook, regVars, link, aux, svc, pc, kept, targets, cur, n, rc,
                 marks, outcome>>

CleanupUvm ==
  /\ pc = "c_bind"
  /\ todo = {}
  /\ aux' \in {aux, aux \cup {Uvm}}
  /\ Goto("c_svc")
  /\ UNCHANGED <<fw, hook, drv, regVars, linkVars, svc, kept, scratch, marks, outcome>>

CleanupPersistenced ==
  /\ pc = "c_svc"
  /\ \E h \in {"active", "failed"} :
       svc' = [u \in Units |-> IF u = Persistenced /\ "persistenced" \in marks
                                  /\ svc[u] # "active" THEN h ELSE svc[u]]
  /\ Goto("c_exit")
  /\ UNCHANGED <<fw, hook, drv, regVars, linkVars, aux, kept, scratch, marks, outcome>>

Exit ==
  /\ pc = "c_exit"
  /\ outcome' = IF rc = "ok" THEN "pass" ELSE "failed"
  /\ Gone
  /\ UNCHANGED platformVars

------------------------------------------------------------------------------
(* A command of the main program fails, or TERM: bash runs the EXIT trap.  *)
Fail ==
  /\ pc \in MainLabel
  /\ Quit("error")
  /\ UNCHANGED <<platformVars, kept, scratch, marks, outcome>>

MaybeTorn == UNCHANGED fw \/ (pc \in CopyLabel /\ Tear(n))

(* SIGKILL anywhere, or a TERM that finds the EXIT trap running.           *)
Kill ==
  /\ pc # "idle"
  /\ MaybeTorn
  /\ Gone
  /\ outcome' = "killed"
  /\ UNCHANGED <<hook, drv, regVars, linkVars, aux, svc>>

PowerCycle ==
  /\ MaybeTorn
  /\ PlatformReset
  /\ Gone
  /\ outcome' = "none"

Step ==
  \/ CheckInstalled \/ Heal \/ Gate \/ StopPersistenced \/ LoadNouveau
  \/ \E u \in Workloads : StopUnit(u)
  \/ \E m \in AuxModules : UnloadAux(m)
  \/ Detach \/ HookIn \/ Install \/ Boot \/ Restore \/ Handoff \/ Rebind
  \/ LoadUvm \/ Final \/ Unhook \/ Query
  \/ CleanupRestore \/ CleanupHook \/ CleanupUvm \/ CleanupPersistenced \/ Exit
  \/ \E g \in GPUs : CleanupBind(g)
  \/ Fail

(* A start that a boot, or the other helper, has queued.                   *)
UnitSettles(u) == StartSettles(u) /\ UNCHANGED runVars

Next == Start \/ Step \/ Kill \/ PowerCycle \/ \E u \in Units : UnitSettles(u)

Spec == Init /\ [][Next]_vars
------------------------------------------------------------------------------
(* Properties.                                                             *)

(* No GPU is taken from NVIDIA before this run has put verified originals  *)
(* in place, whatever an earlier run that was cut short has left there.    *)
HandoverFromStock ==
  [][\A g \in GPUs : (drv[g] = "nvidia" /\ drv'[g] = "none") =>
       fw = Stock /\ kept = File]_vars

(* Nouveau boots a GPU only with the complete Tensor image and the hook    *)
(* armed for that GPU, all other targets on NVIDIA.                        *)
SignedBootOnly ==
  [][\A g \in GPUs : (drv[g] # "nouveau" /\ drv'[g] = "nouveau") =>
       /\ hook = g
       /\ fw = Image("tensor")
       /\ \A h \in targets \ {g} : drv[h] = "nvidia"]_vars

(* PASS: every target is unlocked and on NVIDIA again, those included that *)
(* were found unlocked.                                                    *)
PassUnlocked ==
  [][(outcome = "running" /\ outcome' = "pass") =>
       \A g \in targets : g \in tensor /\ drv[g] = "nvidia"]_vars

(* Firmware that is foreign when no run is active was left by a run that   *)
(* could not finish its cleanup or whose copies failed, and it is healed:  *)
(* a run that gets as far as the devices has original firmware.            *)
HealedFirst == pc \in {"gate", "stop", "unload", "detach", "hookin", "handoff",
                       "rebind", "uvm", "unhook", "query"} => fw = Stock
==============================================================================

