------------------------------ MODULE GuestBoot ------------------------------
(***************************************************************************)
(* Both guest helpers on one machine, from the boot of the guest on:       *)
(* systemd starts the Tensor unit and, when it is through, passed or not,  *)
(* the Gen2 unit; the coordinator starts the Tensor unit again unless it   *)
(* is active, and then the Gen2 helper.  The Gen2 helper waits for its own *)
(* flock and looks at the state of the Tensor unit once, in its gate; the  *)
(* Tensor helper looks at nothing.                                         *)
(*                                                                         *)
(* The variables of GuestGen2 and of the machine keep their names, those   *)
(* of the Tensor helper are renamed.  Power cycles, and links that fall    *)
(* back between runs, are left to the modules of the two helpers.          *)
(***************************************************************************)
EXTENDS GuestGen2

CONSTANT Uvm

VARIABLES tensorPc, kept, tensorTargets, tensorTodo, tensorCur, tensorN, tensorRc,
          tensorMarks, tensorOutcome

tensorVars == <<tensorPc, kept, tensorTargets, tensorTodo, tensorCur, tensorN,
                tensorRc, tensorMarks, tensorOutcome>>

Tensor == INSTANCE TensorUnlock WITH
            pc <- tensorPc, targets <- tensorTargets, todo <- tensorTodo,
            cur <- tensorCur, n <- tensorN, rc <- tensorRc, marks <- tensorMarks,
            outcome <- tensorOutcome

BootInit == Tensor!Init /\ RunInit

(* What a write to bind or unbind finds.  Alone, a helper always finds it; *)
(* beside another one the write may fail, and set -e ends the run.         *)
Expected == [l \in {"detach", "rdetach", "boot", "handoff", "rebind", "rrebind"} |->
               CASE l \in {"detach", "rdetach"} -> "nvidia"
                 [] l = "handoff"               -> "nouveau"
                 [] OTHER                       -> "none"]

DriverFound(l, next, g) ==
  (l \in DOMAIN Expected /\ (drv' # drv \/ next \notin CleanupLabel)) => drv[g] = Expected[l]

(* The unit is started at boot, and by the coordinator when it is inactive *)
(* or has failed; a unit that passed stays active (RemainAfterExit).       *)
TensorStart == /\ tensorOutcome # "pass"
               /\ Tensor!Start
               /\ UNCHANGED runVars

TensorStep == /\ Tensor!Step
              /\ DriverFound(tensorPc, tensorPc', tensorCur')
              /\ UNCHANGED runVars

(* The unit is ordered After the Tensor unit, and the coordinator's helper *)
(* follows its systemctl start.                                            *)
Gen2Start == /\ tensorPc = "idle" /\ tensorOutcome # "none"
             /\ Start
             /\ UNCHANGED tensorVars

(* "Tensor unlock is still starting": the gate asks systemd first.         *)
Gen2Step == /\ Step
            /\ (pc = "gate" /\ pc' = "survey") => tensorPc = "idle"
            /\ DriverFound(pc, pc', cur')
            /\ UNCHANGED tensorVars

(* One helper is killed or signalled; the other goes on.                   *)
CutShort == \/ Tensor!Kill /\ UNCHANGED runVars
            \/ (Signal \/ SignalCleanup \/ Kill) /\ UNCHANGED tensorVars

BootNext ==
  \/ TensorStart \/ TensorStep \/ Gen2Start \/ Gen2Step \/ CutShort
  \/ \E u \in Units : UnitSettles(u) /\ UNCHANGED tensorVars

BootSpec == BootInit /\ [][BootNext]_<<vars, tensorVars>>
------------------------------------------------------------------------------
(* The two are serialized: "serialize PCIe after that service" (the gate   *)
(* of the Gen2 helper) and "Serialize with the boot service before issuing *)
(* a helper" (run of the coordinator).  No Tensor run rewrites firmware,   *)
(* hook or drivers inside the mutation window of a Gen2 run.               *)
Serialized == Mutating => tensorPc \in {"idle", "check"}
==============================================================================
