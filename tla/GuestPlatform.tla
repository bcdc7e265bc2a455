---------------------------- MODULE GuestPlatform ----------------------------
(***************************************************************************)
(* The machine the guest-side helpers operate on: the three GV100 firmware *)
(* files under /lib/firmware, the probe module that arms one ACR boot, the *)
(* driver each GPU is bound to, the volatile registers a signed ACR boot   *)
(* writes, the auxiliary NVIDIA modules and the systemd units.  The        *)
(* helpers share all of it and nothing in it records who changed it.       *)
(***************************************************************************)
EXTENDS Naturals, FiniteSets

CONSTANTS
  GPUs,          \* the CMP100 functions of this machine, by PCI address
  NoGPU,         \* no GPU: the hook is not loaded, or no GPU is current
  Units,         \* the systemd units of this machine that use the GPUs
  Workloads,     \* the ones the helper's configuration names
  Persistenced,  \* nvidia-persistenced.service, which need not be installed
  AuxModules     \* nvidia_uvm, nvidia_drm, nvidia_modeset

ASSUME NoGPUAssumption == NoGPU \notin GPUs
ASSUME UnitsAssumption == Workloads \subseteq Units \ {Persistenced}

VARIABLES
  fw,      \* content of each active firmware file
  hook,    \* the GPU whose bus the loaded hook module is armed for, or NoGPU
  drv,     \* the driver each GPU is bound to, "none" when unbound
  tensor,  \* GPUs whose 0x409664 reads 0x888
  policy,  \* GPUs whose 0x88610 reads 1
  vector,  \* GPUs whose 0x8872c reads 6
  link,    \* physical link generation of each GPU
  advert,  \* the maximal generation NVIDIA reports for each GPU
  aux,     \* the auxiliary modules that are loaded
  svc      \* how systemd holds each unit, see Held

regVars  == <<tensor, policy, vector>>
linkVars == <<link, advert>>
platformVars == <<fw, hook, drv, tensor, policy, vector, link, advert, aux, svc>>

(* The three firmware files, in the order every copy loop writes them.     *)
Fecs  == 1
Bl    == 2
Ucode == 3
File  == 1 .. 3

Payload == {"tensor", "policy", "vector"}
Content == {"stock", "custom", "torn"} \cup Payload

(* is-active is true of "active" alone.  "queued": a start job is waiting  *)
(* or under way; "failed": a start was asked for, and was refused or did   *)
(* not succeed; "down": inactive, and nobody has asked for it since.       *)
Held == {"down", "queued", "active", "failed"}

Stock == [f \in File |-> "stock"]

(* The firmware set that runs payload p: custom descriptors, and p itself. *)
Image(p) == [f \in File |-> IF f = Ucode THEN p ELSE "custom"]

PlatformTypeOK ==
  /\ fw \in [File -> Content]
  /\ hook \in GPUs \cup {NoGPU}
  /\ drv \in [GPUs -> {"nvidia", "nouveau", "none"}]
  /\ tensor \in SUBSET GPUs
  /\ policy \in SUBSET GPUs
  /\ vector \in SUBSET GPUs
  /\ link \in [GPUs -> 1 .. 2]
  /\ advert \in [GPUs -> 1 .. 2]
  /\ aux \in SUBSET AuxModules
  /\ svc \in [Units -> Held]

PlatformInit ==
  /\ fw = Stock
  /\ hook = NoGPU
  /\ drv = [g \in GPUs |-> "nvidia"]
  /\ tensor \in SUBSET GPUs
  /\ policy = {}
  /\ vector = {}
  /\ link = [g \in GPUs |-> 1]
  /\ advert = [g \in GPUs |-> 1]
  /\ aux \in SUBSET AuxModules
  /\ svc \in [Units -> Held \ {"failed"}]

(***************************************************************************)
(* One firmware file is rewritten in place.  A writer that fails or dies   *)
(* inside the copy leaves the file truncated or half written: "torn".      *)
(***************************************************************************)
Put(f, c) == fw' = [fw EXCEPT ![f] = c]
Tear(f)   == Put(f, "torn")

(***************************************************************************)
(* Binding nouveau boots the ACR with whatever the firmware files hold.    *)
(* The signed write of a payload can happen only when the files are that   *)
(* payload's image and the hook is armed for this GPU's bus; even then it  *)
(* may fail.                                                               *)
(***************************************************************************)
NouveauBoot(g) ==
  /\ drv' = [drv EXCEPT ![g] = "nouveau"]
  /\ \/ UNCHANGED regVars
     \/ /\ hook = g
        /\ \/ fw = Image("tensor") /\ tensor' = tensor \cup {g}
                                   /\ UNCHANGED <<policy, vector>>
           \/ fw = Image("policy") /\ policy' = policy \cup {g}
                                   /\ UNCHANGED <<tensor, vector>>
           \/ fw = Image("vector") /\ vector' = vector \cup {g}
                                   /\ UNCHANGED <<tensor, policy>>

Unbind(g) == drv' = [drv EXCEPT ![g] = "none"]

(* NVIDIA binds and reports some maximal generation for the link.          *)
NvidiaBind(g) ==
  /\ drv' = [drv EXCEPT ![g] = "nvidia"]
  /\ \E m \in 1 .. 2 : advert' = [advert EXCEPT ![g] = m]

(***************************************************************************)
(* Reset or power cycle: registers, links and /run are volatile, the       *)
(* firmware files are not.                                                 *)
(***************************************************************************)
PlatformReset ==
  /\ hook' = NoGPU
  /\ drv' = [g \in GPUs |-> "nvidia"]
  /\ tensor' = {}
  /\ policy' = {}
  /\ vector' = {}
  /\ link' = [g \in GPUs |-> 1]
  /\ advert' = [g \in GPUs |-> 1]
  /\ aux' = AuxModules
  /\ svc' = [u \in Units |-> "queued"]

(* A start that was queued, without anybody waiting for it, comes to its   *)
(* end at any moment.                                                      *)
StartSettles(u) ==
  /\ svc[u] = "queued"
  /\ \E h \in {"active", "failed"} : svc' = [svc EXCEPT ![u] = h]
  /\ UNCHANGED <<fw, hook, drv, tensor, policy, vector, link, advert, aux>>

(* A link may be degraded by its environment.                              *)
Degrade(g) ==
  /\ link[g] = 2
  /\ link' = [link EXCEPT ![g] = 1]
  /\ UNCHANGED <<fw, hook, drv, tensor, policy, vector, advert, aux, svc>>
==============================================================================
