----------------------------- MODULE HbmProfile -----------------------------
(* scripts/cmp100-hbm-877-boot: several runs (the boot unit, a systemctl     *)
(* restart, an operator's own call) that apply the HBM profile and, when     *)
(* CMP100_POWER_LIMIT_WATTS is set, a power limit to the same list of GPUs.   *)
(* One call of tools/cmp100-nvml-clock-v2.rs is one step: it writes, reads    *)
(* back and, when that fails, rolls back, which can fail as well.            *)
(*                                                                          *)
(* A reboot empties /run and the GPUs: it is a new initial state.             *)
EXTENDS Naturals, FiniteSets

CONSTANTS GPUs,   \* CMP100_HBM_UUIDS, taken in any order
          Runs,   \* invocations of the script since the boot
          Early,  \* bound: those among them that fail before they ask for the lock
          Watts,  \* whether CMP100_POWER_LIMIT_WATTS is set
          NoOne, NoGPU

ASSUME RunsAssumption == NoOne \notin Runs /\ Early \subseteq Runs
ASSUME GPUsAssumption == NoGPU \notin GPUs
ASSUME WattsAssumption == Watts \in BOOLEAN

VARIABLES
  offset,   \* HBM offset of each GPU, volatile
  limit,    \* power limit of each GPU, volatile
  lock,     \* LOCK_DIR: the run that made it; the directory does not know
  pc,       \* where each run is
  todo,     \* the GPUs the loop a run is in has not reached
  cur,      \* uuid of the first loop
  applied,  \* APPLIED
  verdict,  \* how each run ended, or is ending
  entered,  \* history: the runs that made the directory
  last,     \* history: the last of them
  robber,   \* history: who removed the directory of each run that was inside
  owed,     \* history: the GPUs a run changed, less those the tool failed on
  driver    \* history: whether it was reloaded since a run last began to verify

gpus == <<offset, limit>>
history == <<entered, last, robber>>
vars == <<offset, limit, lock, pc, todo, cur, applied, verdict, entered, last,
          robber, owed, driver>>

Busy == {"gate", "apply", "mark", "tune", "verify", "limits", "report"}
Locations == Busy \cup {"off", "lock", "cleanup", "over"}
Verdicts == {"none", "pass", "failed", "signalled", "killed"}

TypeOK ==
  /\ offset \in [GPUs -> {"stock", "other", "hbm"}]
  /\ limit \in [GPUs -> {"default", "watts"}]
  /\ lock \in Runs \cup {NoOne}
  /\ pc \in [Runs -> Locations]
  /\ todo \in [Runs -> SUBSET GPUs]
  /\ cur \in [Runs -> GPUs \cup {NoGPU}]
  /\ applied \in [Runs -> SUBSET GPUs]
  /\ verdict \in [Runs -> Verdicts]
  /\ entered \in SUBSET Runs
  /\ last \in Runs \cup {NoOne}
  /\ robber \in [Runs -> Runs \cup {NoOne}]
  /\ owed \in [Runs -> SUBSET GPUs]
  /\ driver \in {"steady", "reloaded"}
  /\ \A p \in Runs : pc[p] \in {"mark", "tune"} => cur[p] \in GPUs

Init ==
  /\ offset \in [GPUs -> {"stock", "other"}]
  /\ limit = [g \in GPUs |-> "default"]
  /\ lock = NoOne
  /\ pc = [p \in Runs |-> "off"]
  /\ todo = [p \in Runs |-> {}]
  /\ cur = [p \in Runs |-> NoGPU]
  /\ applied = [p \in Runs |-> {}]
  /\ verdict = [p \in Runs |-> "none"]
  /\ entered = {} /\ last = NoOne /\ robber = [p \in Runs |-> NoOne]
  /\ owed = [p \in Runs |-> {}]
  /\ driver = "steady"

(* A run that holds the directory it made, or believes it does.              *)
Inside(p) == p \in entered /\ pc[p] # "over"

(* The rmdir of p takes the directory of a run that is inside.                *)
Rob(p) ==
  robber' = [q \in Runs |-> IF q # p /\ lock = q /\ Inside(q) THEN p ELSE robber[q]]

Robbed == {p \in Runs : robber[p] # NoOne}

Goto(p, there) == pc' = [pc EXCEPT ![p] = there]

(* The process is gone, and its variables with it.                            *)
Exit(p) ==
  /\ Goto(p, "over")
  /\ todo' = [todo EXCEPT ![p] = {}]
  /\ cur' = [cur EXCEPT ![p] = NoGPU]
  /\ applied' = [applied EXCEPT ![p] = {}]

(* The EXIT trap begins: SUCCESS is 0, so APPLIED is to be reset.             *)
Trap(p, why) ==
  /\ Goto(p, "cleanup")
  /\ verdict' = [verdict EXCEPT ![p] = why]
  /\ todo' = [todo EXCEPT ![p] = applied[p]]
  /\ UNCHANGED <<cur, applied>>

(* die, or a command that fails under set -e.                                *)
Fail(p) == Trap(p, "failed")

(* The trap is armed before the checks of user, commands and tool.            *)
Start(p) ==
  /\ pc[p] = "off"
  /\ \/ p \notin Early /\ Goto(p, "lock") /\ UNCHANGED <<todo, cur, applied, verdict>>
     \/ Fail(p)
  /\ UNCHANGED <<gpus, lock, history, owed, driver>>

(* mkdir "$LOCK_DIR" || die                                                *)
LockAnyway(p) ==  \* Mistake: mkdir -p, which an existing directory satisfies.
  /\ pc[p] = "lock"
  /\ lock' = p
  /\ entered' = entered \cup {p} /\ last' = p
  /\ Goto(p, "gate")
  /\ UNCHANGED <<gpus, todo, cur, applied, verdict, robber, owed, driver>>

Lock(p) ==
  /\ pc[p] = "lock"
  /\ \/ /\ lock = NoOne
        /\ lock' = p
        /\ entered' = entered \cup {p} /\ last' = p
        /\ Goto(p, "gate")
        /\ UNCHANGED <<todo, cur, applied, verdict>>
     \/ /\ lock # NoOne
        /\ Fail(p)
        /\ UNCHANGED <<lock, entered, last>>
  /\ UNCHANGED <<gpus, robber, owed, driver>>

(* The configuration and a dry run for every GPU, before any is changed.      *)
Gate(p) ==
  /\ pc[p] = "gate"
  /\ \/ /\ Goto(p, "apply")
        /\ todo' = [todo EXCEPT ![p] = GPUs]
        /\ UNCHANGED <<cur, applied, verdict>>
     \/ Fail(p)
  /\ UNCHANGED <<gpus, lock, history, owed, driver>>

(* profile --apply: on success the GPU has the offset and reached 877 MHz.    *)
(* A failure has written nothing, or has rolled back to the former offset,    *)
(* or could not.                                                          *)
Apply(p) ==
  /\ pc[p] = "apply"
  /\ \/ \E g \in todo[p] :
          \/ /\ offset' = [offset EXCEPT ![g] = "hbm"]
             /\ owed' = [owed EXCEPT ![p] = @ \cup {g}]
             /\ cur' = [cur EXCEPT ![p] = g]
             /\ Goto(p, "mark")
             /\ UNCHANGED <<todo, applied, verdict, driver>>
          \/ /\ \E o \in {offset[g], "hbm"} : offset' = [offset EXCEPT ![g] = o]
             /\ Fail(p)
             /\ UNCHANGED <<owed, driver>>
     \/ /\ todo[p] = {}
        /\ Goto(p, "verify")
        /\ todo' = [todo EXCEPT ![p] = GPUs]
        /\ driver' = "steady"
        /\ UNCHANGED <<offset, owed, cur, applied, verdict>>
  /\ UNCHANGED <<limit, lock, history>>

(* APPLIED="$APPLIED $uuid"                                                 *)
MarkLate(p) ==  \* Mistake: APPLIED is extended only where no limit is set.
  /\ pc[p] = "mark"
  /\ applied' = [applied EXCEPT ![p] = IF Watts THEN @ ELSE @ \cup {cur[p]}]
  /\ todo' = [todo EXCEPT ![p] = @ \ {cur[p]}]
  /\ Goto(p, IF Watts THEN "tune" ELSE "apply")
  /\ UNCHANGED <<gpus, lock, cur, verdict, history, owed, driver>>

Mark(p) ==
  /\ pc[p] = "mark"
  /\ applied' = [applied EXCEPT ![p] = @ \cup {cur[p]}]
  /\ todo' = [todo EXCEPT ![p] = @ \ {cur[p]}]
  /\ Goto(p, IF Watts THEN "tune" ELSE "apply")
  /\ UNCHANGED <<gpus, lock, cur, verdict, history, owed, driver>>

(* tune --watts --apply                                                     *)
Tune(p) ==
  /\ pc[p] = "tune"
  /\ \/ /\ limit' = [limit EXCEPT ![cur[p]] = "watts"]
        /\ Goto(p, "apply")
        /\ UNCHANGED <<todo, cur, applied, verdict>>
     \/ /\ \E l \in {limit[cur[p]], "watts"} : limit' = [limit EXCEPT ![cur[p]] = l]
        /\ Fail(p)
  /\ UNCHANGED <<offset, lock, history, owed, driver>>

(* The final state of each GPU; the clock can be wrong under a right offset.   *)
VerifyClock(p) ==  \* Mistake: the clock alone, which another offset may give.
  /\ pc[p] = "verify"
  /\ \/ \E g \in todo[p] :
          /\ todo' = [todo EXCEPT ![p] = @ \ {g}]
          /\ UNCHANGED <<pc, cur, applied, verdict>>
     \/ todo[p] # {} /\ Fail(p)
     \/ /\ todo[p] = {}
        /\ Goto(p, IF Watts THEN "limits" ELSE "report")
        /\ UNCHANGED <<todo, cur, applied, verdict>>
  /\ UNCHANGED <<gpus, lock, history, owed, driver>>

Verify(p) ==
  /\ pc[p] = "verify"
  /\ \/ \E g \in todo[p] :
          /\ offset[g] = "hbm"
          /\ todo' = [todo EXCEPT ![p] = @ \ {g}]
          /\ UNCHANGED <<pc, cur, applied, verdict>>
     \/ todo[p] # {} /\ Fail(p)
     \/ /\ todo[p] = {}
        /\ Goto(p, IF Watts THEN "limits" ELSE "report")
        /\ UNCHANGED <<todo, cur, applied, verdict>>
  /\ UNCHANGED <<gpus, lock, history, owed, driver>>

(* One telemetry call for the limits of all of them.                         *)
Limits(p) ==
  /\ pc[p] = "limits"
  /\ \/ /\ \A g \in GPUs : limit[g] = "watts"
        /\ Goto(p, "report")
        /\ UNCHANGED <<todo, cur, applied, verdict>>
     \/ Fail(p)
  /\ UNCHANGED <<gpus, lock, history, owed, driver>>

(* SUCCESS=1, PASS, and the EXIT trap with nothing to reset.                 *)
Report(p) ==
  /\ pc[p] = "report"
  /\ Goto(p, "cleanup")
  /\ verdict' = [verdict EXCEPT ![p] = "pass"]
  /\ todo' = [todo EXCEPT ![p] = {}]
  /\ UNCHANGED <<gpus, lock, cur, applied, history, owed, driver>>

(* reset --hbm [--power] --apply || true, for one GPU of APPLIED.             *)
Reset(p) ==
  /\ pc[p] = "cleanup"
  /\ \E g \in todo[p] :
       /\ todo' = [todo EXCEPT ![p] = @ \ {g}]
       /\ \/ /\ offset' = [offset EXCEPT ![g] = "stock"]
             /\ limit' = [limit EXCEPT ![g] = IF Watts THEN "default" ELSE @]
             /\ UNCHANGED owed
          \/ /\ \E o \in {offset[g], "stock"} : offset' = [offset EXCEPT ![g] = o]
             /\ \E l \in {limit[g]} \cup (IF Watts THEN {"default"} ELSE {}) :
                  limit' = [limit EXCEPT ![g] = l]
             /\ owed' = [owed EXCEPT ![p] = @ \ {g}]
  /\ UNCHANGED <<lock, pc, cur, applied, verdict, history, driver>>

(* rmdir "$LOCK_DIR" || true, whoever made the directory; then exit.          *)
ReleaseFailed(p) ==  \* Mistake: the rmdir moved into the branch that resets.
  /\ pc[p] = "cleanup" /\ todo[p] = {}
  /\ lock' = IF applied[p] # {} /\ verdict[p] # "pass" THEN NoOne ELSE lock
  /\ Rob(p)
  /\ Exit(p)
  /\ UNCHANGED <<gpus, verdict, entered, last, owed, driver>>

Release(p) ==
  /\ pc[p] = "cleanup" /\ todo[p] = {}
  /\ lock' = NoOne
  /\ Rob(p)
  /\ Exit(p)
  /\ UNCHANGED <<gpus, verdict, entered, last, owed, driver>>

(* HUP, INT or TERM. A signal that ends the tool half-way leaves what one     *)
(* leaves that comes right after the tool.                                *)
Signal(p) ==
  /\ pc[p] \in Busy \cup {"lock"}
  /\ Trap(p, "signalled")
  /\ UNCHANGED <<gpus, lock, history, owed, driver>>

(* SIGKILL, or a second signal: the trap has disarmed itself by then.         *)
Kill(p) ==
  /\ pc[p] \notin {"off", "over"}
  /\ Exit(p)
  /\ verdict' = [verdict EXCEPT ![p] = "killed"]
  /\ owed' = [owed EXCEPT ![p] = {}]
  /\ UNCHANGED <<gpus, lock, history, driver>>

(* The NVIDIA driver is unloaded and loaded again.                           *)
Reload ==
  /\ offset' = [g \in GPUs |-> "stock"]
  /\ limit' = [g \in GPUs |-> "default"]
  /\ driver' = "reloaded"
  /\ UNCHANGED <<lock, pc, todo, cur, applied, verdict, history, owed>>

Step(p) ==
  \/ Lock(p) \/ Gate(p) \/ Apply(p) \/ Mark(p) \/ Tune(p) \/ Verify(p)
  \/ Limits(p) \/ Report(p) \/ Reset(p) \/ Release(p)

Next ==
  \/ \E p \in Runs : Start(p) \/ Step(p) \/ Signal(p) \/ Kill(p)
  \/ Reload

Spec == Init /\ [][Next]_vars

(* Every command of the script ends: the tool waits two seconds at most.       *)
FairSpec == Spec /\ \A p \in Runs : WF_vars(Step(p))

-----------------------------------------------------------------------------

(* Runs are inside together only where one of them lost its directory to      *)
(* another run (the EXIT trap removes it whoever made it, line 40).  A run     *)
(* takes at most one, so that n of them let at most n + 1 runs in at once, and *)
(* the first was a run that never made the directory: one that was refused, or *)
(* that failed before it asked.                                              *)
Exclusive ==
  /\ \A p, q \in Runs : Inside(p) /\ Inside(q) /\ p # q => {p, q} \cap Robbed # {}
  /\ \A p, q \in Robbed : robber[p] = robber[q] => p = q
  /\ Robbed # {} => \E p \in Robbed : robber[p] \notin entered

(* PASS (line 112): every listed GPU has the profile and the limit, until the   *)
(* next run enters. A driver reload while the profile is applied is noticed;   *)
(* one that comes later than the first check is not.                          *)
PassHolds ==
  \A p \in Runs :
    verdict[p] = "pass" /\ last = p /\ Robbed = {} /\ driver = "steady" =>
      \A g \in GPUs : offset[g] = "hbm" /\ (Watts => limit[g] = "watts")

(* "resetting HBM on GPUs changed by this run" (line 30): a run that failed on   *)
(* its own, not by a signal, leaves no GPU it changed on the profile or the    *)
(* limit, unless the tool failed on that GPU.                                *)
FailureUndone ==
  \A p \in Runs : verdict[p] = "failed" /\ pc[p] = "over" /\ last = p /\ Robbed = {} =>
    \A g \in owed[p] : offset[g] = "stock" /\ limit[g] = "default"

(* However a run ends, the next one is not refused for it: the directory goes   *)
(* away, unless the run that made it was killed.                             *)
LockReleased ==
  \A p \in Runs \ Early : lock = p ~> (lock # p \/ verdict[p] = "killed")
=============================================================================
