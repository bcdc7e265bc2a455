----------------------------- MODULE Gen2Contract -----------------------------
(***************************************************************************)
(* What the guest helper scripts/cmp100-pcie-gen2 promises its callers, the *)
(* boot unit and the Proxmox coordinator: a run names its targets, only    *)
(* those links change while it runs, they change to Gen2, the helper says  *)
(* PASS only when all of them are there, and any other end leaves no link  *)
(* worse than it was.  GuestGen2 implements this; HostCoordinator is built *)
(* on it.                                                                  *)
(***************************************************************************)
CONSTANT GPUs

VARIABLES
  job,    \* the targets of the helper that holds the guest's flock
  gen2,   \* the links that are settled at Gen2
  result  \* how the last run ended

contractVars == <<job, gen2, result>>

Verdict == {"pass", "failed", "incomplete", "aborted", "killed"}

ContractTypeOK ==
  /\ job \in SUBSET GPUs
  /\ gen2 \in SUBSET GPUs
  /\ result \in Verdict \cup {"none", "running"}

ContractInit == job = {} /\ gen2 = {} /\ result = "none"

(* The helper has the flock and an allow-list.                             *)
Begin(T) ==
  /\ job = {} /\ T # {}
  /\ job' = T /\ result' = "running" /\ gen2' = gen2

(* CHANGE_SPEED took a target to Gen2.                                     *)
Retrain(g) ==
  /\ g \in job
  /\ gen2' = gen2 \cup {g} /\ UNCHANGED <<job, result>>

Finish(v) ==
  /\ job # {}
  /\ v = "pass" => job \subseteq gen2
  /\ job' = {} /\ result' = v /\ gen2' = gen2

(* Between runs a link may fall back; a reset takes everything.            *)
FallBack(g) ==
  /\ job = {} /\ g \in gen2
  /\ gen2' = gen2 \ {g} /\ UNCHANGED <<job, result>>

Reset == job' = {} /\ gen2' = {} /\ result' = "none"

ContractNext ==
  \/ \E T \in SUBSET GPUs : Begin(T)
  \/ \E g \in GPUs : Retrain(g) \/ FallBack(g)
  \/ \E v \in Verdict : Finish(v)
  \/ Reset

Contract == ContractInit /\ [][ContractNext]_contractVars
==============================================================================
