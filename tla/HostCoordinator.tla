--------------------------- MODULE HostCoordinator ---------------------------
(***************************************************************************)
(* The Proxmox coordinator scripts/cmp100-pcie-host for one VM: instances  *)
(* started by the timer and by operators, a state file that outlives them, *)
(* and the guest they reach through the guest agent.  A command started    *)
(* through the agent lives in the guest: it goes on when the coordinator   *)
(* stops waiting for it or is killed.  In the guest the helper keeps the   *)
(* contract of Gen2Contract, one run at a time under its flock, and the    *)
(* boot unit uses it too.                                                  *)
(***************************************************************************)
EXTENDS Gen2Contract, Naturals

CONSTANTS
  Coordinators,  \* instances that may exist at the same time
  Timer,         \* the one cmp100-pcie-host@VMID.service starts
  NoOne,         \* nobody holds the host lock
  MaxCalls,      \* bound: helper processes in the guest at the same time
  MaxBoot        \* bound: guest boots

ASSUME TimerAssumption == Timer \in Coordinators /\ NoOne \notin Coordinators
ASSUME BoundAssumption == MaxCalls \in Nat \ {0} /\ MaxBoot \in Nat \ {0}

VARIABLES
  vm,        \* "running" or "stopped"
  boot,      \* the number of the current guest boot, for its boot_id
  call,      \* the helper processes in the guest and what became of them
  lock,      \* the coordinator that holds the host flock
  latch,     \* failed_boot in the state file, 0 when it has none
  pc, mode,  \* of each coordinator
  seen,      \* previous.failed_boot, read with the inventory
  id,        \* boot_id, 0 while it is None
  pending,   \* the devices the helper is started for
  mine,      \* the guest process it waits for, 0 when there is none
  attempts,  \* history: unforced helper starts in this boot since a PASS,
             \* counted up to AttemptCap
  clean      \* history: the agent never passed off something else as a boot_id

guestVars == <<vm, boot, call, contractVars>>
localVars == <<pc, mode, seen, id, pending, mine>>
pastVars  == <<attempts, clean>>
hostVars  == <<lock, latch, localVars, pastVars>>
vars      == <<guestVars, hostVars>>

AttemptCap == 3

Boots == 1 .. MaxBoot
Garbage == MaxBoot + 1   \* a latch that is no boot_id
Slots == 1 .. MaxCalls
Mode  == {"timer", "check", "retry"}
Label == {"idle", "vm", "links", "ready", "record", "tensor", "pending",
          "launch", "wait", "verify"}
CallState == {"free", "waiting", "working", "passed", "failed"}
Free == [st |-> "free", targets |-> {}]

TypeOK ==
  /\ ContractTypeOK
  /\ vm \in {"running", "stopped"}
  /\ boot \in Boots
  /\ call \in [Slots -> [st : CallState, targets : SUBSET GPUs]]
  /\ lock \in Coordinators \cup {NoOne}
  /\ latch \in 0 .. Garbage
  /\ pc \in [Coordinators -> Label]
  /\ mode \in [Coordinators -> Mode]
  /\ seen \in [Coordinators -> 0 .. Garbage]
  /\ id \in [Coordinators -> 0 .. MaxBoot]
  /\ pending \in [Coordinators -> SUBSET GPUs]
  /\ mine \in [Coordinators -> 0 .. MaxCalls]
  /\ attempts \in 0 .. AttemptCap /\ clean \in BOOLEAN

Settled == gen2 = GPUs

(* A fresh boot of the guest, with the boot unit waiting for the flock.    *)
BootUnit == [s \in Slots |-> IF s = 1 THEN [st |-> "waiting", targets |-> GPUs]
                                      ELSE Free]

Init ==
  /\ ContractInit
  /\ vm = "running" /\ boot = 1 /\ call = BootUnit
  /\ lock = NoOne /\ latch = 0 /\ attempts = 0 /\ clean = TRUE
  /\ pc = [c \in Coordinators |-> "idle"]
  /\ mode = [c \in Coordinators |-> "timer"]
  /\ seen = [c \in Coordinators |-> 0]
  /\ id = [c \in Coordinators |-> 0]
  /\ pending = [c \in Coordinators |-> {}]
  /\ mine = [c \in Coordinators |-> 0]

------------------------------------------------------------------------------
(* The end of an instance: the kernel drops its flock, and the guest agent *)
(* forgets the result it was waiting for once the process has ended.       *)

Ended(s) == call[s].st \in {"passed", "failed"}

Forget(c) == call' = [s \in Slots |-> IF s = mine[c] /\ Ended(s) THEN Free
                                                                 ELSE call[s]]

Leave(c) ==
  /\ lock' = NoOne
  /\ pc' = [pc EXCEPT ![c] = "idle"]
  /\ mode' = [mode EXCEPT ![c] = "timer"]
  /\ seen' = [seen EXCEPT ![c] = 0]
  /\ id' = [id EXCEPT ![c] = 0]
  /\ pending' = [pending EXCEPT ![c] = {}]
  /\ mine' = [mine EXCEPT ![c] = 0]
  /\ Forget(c)
  /\ UNCHANGED <<vm, boot, contractVars>>

Goto(c, l) == pc' = [pc EXCEPT ![c] = l]

(* Mistake: an instance that does not get the flock goes on.               *)
InvokeUnlocked(c) ==
  /\ pc[c] = "idle"
  /\ lock' = c
  /\ \E m \in IF c = Timer THEN {"timer"} ELSE Mode : mode' = [mode EXCEPT ![c] = m]
  /\ Goto(c, "vm")
  /\ UNCHANGED <<guestVars, latch, seen, id, pending, mine, pastVars>>

(* main: without the lock an instance ends at once.  The timer only ever   *)
(* starts the plain mode; an operator may pass --check or --retry.         *)
Invoke(c) ==
  /\ pc[c] = "idle"
  /\ lock = NoOne
  /\ lock' = c
  /\ \E m \in IF c = Timer THEN {"timer"} ELSE Mode : mode' = [mode EXCEPT ![c] = m]
  /\ Goto(c, "vm")
  /\ UNCHANGED <<guestVars, latch, seen, id, pending, mine, pastVars>>

CheckVM(c) ==
  /\ pc[c] = "vm"
  /\ IF vm = "running"
     THEN Goto(c, "links") /\ UNCHANGED <<guestVars, lock, mode, seen, id,
                                          pending, mine>>
     ELSE Leave(c)
  /\ UNCHANGED <<latch, pastVars>>

(* The link inventory and the state file, and the two early returns.       *)
Inventory(c) ==
  /\ pc[c] = "links"
  /\ IF (Settled /\ latch = 0) \/ mode[c] = "check"
     THEN Leave(c)
     ELSE /\ seen' = [seen EXCEPT ![c] = latch]
          /\ Goto(c, "ready")
          /\ UNCHANGED <<guestVars, lock, mode, id, pending, mine>>
  /\ UNCHANGED <<latch, pastVars>>

(* Mistake: the boot_id is not compared with the latch.                    *)
ReadBootIdUnlatched(c) ==
  /\ pc[c] = "ready"
  /\ vm = "running"
  /\ id' = [id EXCEPT ![c] = boot]
  /\ Goto(c, "record")
  /\ UNCHANGED <<guestVars, lock, latch, mode, seen, pending, mine, pastVars>>

(* The guest agent answers with the boot_id within 180 seconds.            *)
ReadBootId(c) ==
  /\ pc[c] = "ready"
  /\ vm = "running"
  /\ IF seen[c] = boot /\ mode[c] # "retry"
     THEN Leave(c)
     ELSE /\ id' = [id EXCEPT ![c] = boot]
          /\ Goto(c, "record")
          /\ UNCHANGED <<guestVars, lock, mode, seen, pending, mine>>
  /\ UNCHANGED <<latch, pastVars>>

(* The agent answers with something that is no boot_id until the 180       *)
(* seconds are over.  boot_id was assigned before it was tested, so the    *)
(* except clause replaces the latch with it; an empty one counts as none.  *)
ReadGarbage(c) ==
  /\ pc[c] = "ready"
  /\ vm = "running"
  /\ latch' \in {0, Garbage}
  /\ clean' = FALSE /\ attempts' = attempts
  /\ Leave(c)

(* Mistake: no in-progress record.                                         *)
RecordNothing(c) ==
  /\ pc[c] = "record"
  /\ Goto(c, "tensor")
  /\ UNCHANGED <<guestVars, lock, latch, mode, seen, id, pending, mine, pastVars>>

(* {"failed_boot": boot_id, "status": "in-progress"}, by atomic rename.    *)
Record(c) ==
  /\ pc[c] = "record"
  /\ latch' = id[c]
  /\ Goto(c, "tensor")
  /\ UNCHANGED <<guestVars, lock, mode, seen, id, pending, mine, pastVars>>

(* Upstream targets are read and the Tensor unit is started in the guest.  *)
StartTensor(c) ==
  /\ pc[c] = "tensor"
  /\ vm = "running"
  /\ Goto(c, "pending")
  /\ UNCHANGED <<guestVars, lock, latch, mode, seen, id, pending, mine, pastVars>>

SelectPending(c) ==
  /\ pc[c] = "pending"
  /\ pending' = [pending EXCEPT ![c] = IF Settled THEN GPUs ELSE GPUs \ gen2]
  /\ Goto(c, "launch")
  /\ UNCHANGED <<guestVars, lock, latch, mode, seen, id, mine, pastVars>>

Count(c) ==
  /\ clean' = clean
  /\ attempts' = IF mode[c] = "retry" \/ attempts = AttemptCap THEN attempts
                                                               ELSE attempts + 1

(* Mistake: the PID is not the one of the helper.                          *)
LaunchWrongPid(c) ==
  /\ pc[c] = "launch"
  /\ \E s \in Slots :
       /\ call[s].st = "free"
       /\ call' = [call EXCEPT ![s] = [st |-> "waiting", targets |-> pending[c]]]
       /\ mine' = [mine EXCEPT ![c] = s + 1]
  /\ Goto(c, "wait")
  /\ Count(c)
  /\ UNCHANGED <<vm, boot, contractVars, lock, latch, mode, seen, id, pending>>

(* qm guest exec starts the helper under timeout(1); its answer, with the  *)
(* PID to wait for, may be lost.                                           *)
Launch(c) ==
  /\ pc[c] = "launch"
  /\ vm = "running"
  /\ \E s \in Slots :
       /\ call[s].st = "free"
       /\ call' = [call EXCEPT ![s] = [st |-> "waiting", targets |-> pending[c]]]
       /\ \E known \in {0, s} : mine' = [mine EXCEPT ![c] = known]
  /\ Goto(c, "wait")
  /\ Count(c)
  /\ UNCHANGED <<vm, boot, contractVars, lock, latch, mode, seen, id, pending>>

(* exec-status reports exit status 0.                                      *)
Answer(c) ==
  /\ pc[c] = "wait"
  /\ mine[c] # 0 /\ call[mine[c]].st = "passed"
  /\ Forget(c)
  /\ mine' = [mine EXCEPT ![c] = 0]
  /\ Goto(c, "verify")
  /\ UNCHANGED <<vm, boot, contractVars, lock, latch, mode, seen, id, pending,
                 pastVars>>

(* Mistake: only the links the helper was started for are verified.        *)
VerifyPending(c) ==
  /\ pc[c] = "verify"
  /\ pending[c] \subseteq gen2
  /\ latch' = 0
  /\ attempts' = 0 /\ clean' = clean
  /\ Leave(c)

(* Both ends of every configured link, AER, and the PASS record, which has *)
(* no failed_boot.                                                         *)
Verify(c) ==
  /\ pc[c] = "verify"
  /\ Settled
  /\ latch' = 0
  /\ attempts' = 0 /\ clean' = clean
  /\ Leave(c)

(* Mistake: the failed record has no failed_boot.                          *)
RaiseUnlatched(c) ==
  /\ pc[c] \in Label \ {"idle"}
  /\ latch' = IF id[c] # 0 THEN 0 ELSE latch
  /\ Leave(c)
  /\ UNCHANGED pastVars

(* Any check, command or wait of run() raises.  With a boot_id the failed  *)
(* attempt is latched.                                                     *)
Raise(c) ==
  /\ pc[c] \in Label \ {"idle"}
  /\ latch' = IF id[c] # 0 THEN id[c] ELSE latch
  /\ Leave(c)
  /\ UNCHANGED pastVars

(* TERM at TimeoutStartSec=900, or SIGKILL: Python runs no handler.        *)
Kill(c) ==
  /\ pc[c] # "idle"
  /\ Leave(c)
  /\ UNCHANGED <<latch, pastVars>>

------------------------------------------------------------------------------
(* The guest.                                                              *)

Watched(s) == \E c \in Coordinators : mine[c] = s

EndCall(s, st) ==
  call' = [call EXCEPT ![s] = IF Watched(s) THEN [@ EXCEPT !.st = st] ELSE Free]

Acquire(s) ==
  /\ call[s].st = "waiting"
  /\ Begin(call[s].targets)
  /\ call' = [call EXCEPT ![s].st = "working"]
  /\ UNCHANGED <<vm, boot, hostVars>>

(* flock --wait 120 gives up, or a check before it fails.                  *)
GiveUp(s) ==
  /\ call[s].st = "waiting"
  /\ EndCall(s, "failed")
  /\ UNCHANGED <<vm, boot, contractVars, hostVars>>

Work(s) ==
  /\ call[s].st = "working"
  /\ \E g \in call[s].targets \ gen2 : Retrain(g)
  /\ UNCHANGED <<vm, boot, call, hostVars>>

End(s) ==
  /\ call[s].st = "working"
  /\ \/ Finish("pass") /\ EndCall(s, "passed")
     \/ Finish("failed") /\ EndCall(s, "failed")
  /\ UNCHANGED <<vm, boot, hostVars>>

LinkFallsBack ==
  /\ \E g \in GPUs : FallBack(g)
  /\ UNCHANGED <<vm, boot, call, hostVars>>

(* A reboot, a stop, or a start after a stop: whatever ran in the guest is *)
(* gone and the agent does not know the old PIDs; a boot has a new boot_id. *)
BootGuest(next) ==
  /\ Reset
  /\ vm' = next
  /\ mine' = [c \in Coordinators |-> 0]
  /\ attempts' = 0 /\ clean' = clean
  /\ UNCHANGED <<lock, latch, pc, mode, seen, id, pending>>

Reboot ==
  /\ boot < MaxBoot
  /\ boot' = boot + 1
  /\ call' = BootUnit
  /\ BootGuest("running")

Stop ==
  /\ vm = "running" /\ boot < MaxBoot
  /\ call' = [s \in Slots |-> Free]
  /\ boot' = boot
  /\ BootGuest("stopped")

------------------------------------------------------------------------------
Progress(c) ==
  \/ CheckVM(c) \/ Inventory(c) \/ ReadBootId(c) \/ Record(c) \/ StartTensor(c)
  \/ ReadGarbage(c) \/ SelectPending(c) \/ Launch(c) \/ Answer(c) \/ Verify(c) \/ Raise(c)

Guest == \/ \E s \in Slots : Acquire(s) \/ GiveUp(s) \/ Work(s) \/ End(s)
         \/ LinkFallsBack \/ Reboot \/ Stop

Next == \/ \E c \in Coordinators : Invoke(c) \/ Progress(c) \/ Kill(c)
        \/ Guest

Spec == Init /\ [][Next]_vars

(* The timer fires again a minute after its last run; no wait of run() is  *)
(* unbounded.  Of the environment: qm, the PCI inventory and the agent of a *)
(* running guest do not fail every time they are asked.  TimeoutStartSec    *)
(* cannot strike before the record: readiness takes under four minutes.    *)
FairSpec ==
  /\ Spec
  /\ WF_vars(Invoke(Timer))
  /\ \A c \in Coordinators :
       /\ WF_vars(Progress(c))
       /\ SF_vars(CheckVM(c)) /\ SF_vars(Inventory(c))
       /\ SF_vars(ReadBootId(c)) /\ SF_vars(Record(c))
------------------------------------------------------------------------------
(* Properties.                                                             *)

(* While the agent answers with boot_ids (clean):                          *)
(* the state file remembers an unforced attempt for as long as no PASS     *)
(* follows it, through errors, kills and a helper that outlives its        *)
(* coordinator; a second one is remembered under the boot it was made in   *)
(* (the in-progress record before the helper, the except clause).          *)
LatchRemembers ==
  clean =>
  /\ attempts > 0 => latch # 0
  /\ attempts > 1 => latch = boot

(* Unforced, the coordinator starts the helper at most twice in a guest    *)
(* boot without a PASS: once with that boot's own boot_id and at most once *)
(* with the boot_id of the boot before, when the guest rebooted in between.*)
FewAttempts == clean => attempts <= 2

(* From the in-progress record until the instance is done the state file   *)
(* holds its boot_id: no other instance gets between (the host flock).     *)
InFlightLatched ==
  \A c \in Coordinators :
    pc[c] \in {"tensor", "pending", "launch", "wait", "verify"} => latch = id[c]

(* The latch is lifted only with every configured link settled, those      *)
(* included that were no target of the helper and could fall back while it *)
(* ran (the second inventory of run).                                      *)
LiftedByPass == [][(latch # 0 /\ latch' = 0 /\ clean') => Settled]_vars

(* A running guest whose links stay below Gen2 ends up latched for an      *)
(* operator, for good: neither retried every minute nor forgotten.         *)
Unsettled == vm = "running" /\ ~Settled
Decided == \A b \in Boots : <>[](Unsettled /\ boot = b /\ clean) => <>[](latch = b)
------------------------------------------------------------------------------
(* What the documentation says.                                            *)

(* docs/PCIE-AUTOMATION.md:34-35, a failed attempt is latched for the      *)
(* guest boot: no second unattended attempt in it.                         *)
OneAttempt == clean => attempts <= 1

==============================================================================
