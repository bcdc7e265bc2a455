---------------------------- MODULE CuptiCollector ----------------------------
(***************************************************************************)
(* The optional CUPTI collector the llama.cpp patch adds to the server:    *)
(* a worker thread that samples the one enabled metric bank of each device *)
(* while requests run and switches banks between them, and the scheduler   *)
(* thread, which calls the hooks when a slot starts and ends a request and *)
(* which stops and starts the collector when the server sleeps and wakes,  *)
(* and for good when it cleans up before its exit.                         *)
(***************************************************************************)
EXTENDS Naturals, FiniteSets

CONSTANTS
  Requests,  \* server slots that may process a request
  Devices,   \* CUDA devices
  LastBank,  \* banks are numbered from 0: core_dram is 0, tensor is 1
  Nobody     \* boundary_mutex is free, or no request is being launched

ASSUME BankAssumption == LastBank \in Nat
ASSUME NobodyAssumption == Nobody \notin Requests \cup {"worker", "scheduler"}

VARIABLES
  sched,     \* the scheduler thread
  request,   \* the request it is launching
  running,   \* requests launched and not released: their CUDA work may run
  worker,    \* the worker thread, "none" when there is no collector
  todo,      \* the devices its current loop has not reached
  active,    \* active_requests
  signals,   \* which of stop_requested and rotate_requested are set
  boundary,  \* the holder of boundary_mutex
  ready,     \* devices with state.ready
  current,   \* active_bank_index of each device
  avail,     \* available banks
  enabled,   \* banks marked enabled
  disabled,  \* banks marked disabled
  fails,     \* consecutive_failures of each bank
  pmu        \* event group sets that are enabled in the hardware

threadVars == <<sched, request, running>>
bankVars   == <<ready, current, avail, enabled, disabled, fails, pmu>>
syncVars   == <<active, signals, boundary>>
vars == <<threadVars, worker, todo, syncVars, bankVars>>

Banks == 0 .. LastBank
Stopping == "stop" \in signals
RotateRequested == "rotate" \in signals

SchedLabel  == {"loop", "begin", "waiting", "joining", "asleep", "closing", "over"}
WorkerLabel == {"none", "wait", "look", "turn", "sample", "lock", "rotate", "done"}

TypeOK ==
  /\ sched \in SchedLabel
  /\ request \in Requests \cup {Nobody}
  /\ running \in SUBSET Requests
  /\ worker \in WorkerLabel
  /\ todo \in SUBSET Devices
  /\ active \in Nat
  /\ signals \in SUBSET {"stop", "rotate"}
  /\ boundary \in {Nobody, "worker"}
  /\ ready \in SUBSET Devices
  /\ current \in [Devices -> Banks]
  /\ avail \in [Devices -> SUBSET Banks]
  /\ enabled \in [Devices -> SUBSET Banks]
  /\ disabled \in [Devices -> SUBSET Banks]
  /\ fails \in [Devices -> [Banks -> 0 .. 3]]
  /\ pmu \in [Devices -> SUBSET Banks]

Each(v) == [d \in Devices |-> v]

NoCollector ==
  /\ worker = "none" /\ todo = {} /\ active = 0 /\ signals = {}
  /\ boundary = Nobody /\ ready = {} /\ current = Each(0) /\ avail = Each({})
  /\ enabled = Each({}) /\ disabled = Each({}) /\ pmu = Each({})
  /\ fails = Each([b \in Banks |-> 0])

(* The model is loaded, the collector is not started yet.                  *)
Init ==
  /\ sched = "asleep" /\ request = Nobody /\ running = {}
  /\ NoCollector

------------------------------------------------------------------------------
(* Starting and stopping, on the scheduler thread.                         *)

(* start: prepare_bank makes some banks available, select_first_bank       *)
(* enables the first that lets itself be enabled.  Without a ready device  *)
(* there is no collector, and the hooks do nothing.                        *)
Start ==
  /\ sched = "asleep"
  /\ sched' = "loop"
  /\ \E ok \in [Devices -> SUBSET Banks], a \in [Devices -> SUBSET Banks] :
       LET usable(d) == a[d] \cap ok[d]
           first(d)  == CHOOSE b \in usable(d) : \A x \in usable(d) : b <= x
           up        == {d \in Devices : usable(d) # {}}
       IN IF up = {}
          THEN UNCHANGED <<worker, bankVars>>
          ELSE /\ worker' = "wait"
               /\ ready' = up
               /\ avail' = a
               /\ current' = [d \in Devices |-> IF d \in up THEN first(d) ELSE 0]
               /\ enabled' = [d \in Devices |-> IF d \in up THEN {first(d)} ELSE {}]
               /\ pmu' = enabled'
               /\ UNCHANGED <<disabled, fails>>
  /\ UNCHANGED <<request, running, todo, syncVars>>

(* stop, whatever runs: the worker is told to end and is waited for.       *)
Stop(waits, then) ==
  /\ IF worker = "none"
     THEN sched' = then /\ signals' = signals
     ELSE sched' = waits /\ signals' = signals \cup {"stop"}
  /\ UNCHANGED <<request, running, worker, todo, active, boundary, bankVars>>

(* The server goes to sleep, which it does when no slot is busy.           *)
Sleep == sched = "loop" /\ running = {} /\ Stop("joining", "asleep")

(* clean_up, when a signal has ended the loop of the server: the requests  *)
(* of its slots are never ended.                                           *)
CleanUp == sched \in {"loop", "asleep"} /\ Stop("closing", "over")

(* join, then ~impl destroys what is still enabled.                        *)
Join ==
  /\ sched \in {"joining", "closing"}
  /\ worker = "done"
  /\ sched' = IF sched = "joining" THEN "asleep" ELSE "over"
  /\ worker' = "none" /\ todo' = {} /\ active' = 0 /\ signals' = {}
  /\ boundary' = Nobody /\ ready' = {} /\ current' = Each(0)
  /\ avail' = Each({}) /\ enabled' = Each({}) /\ disabled' = Each({})
  /\ pmu' = Each({}) /\ fails' = Each([b \in Banks |-> 0])
  /\ UNCHANGED <<request, running>>

------------------------------------------------------------------------------
(* The hooks.                                                              *)

Launch(r) ==
  /\ sched = "loop"
  /\ r \notin running
  /\ sched' = "begin" /\ request' = r
  /\ UNCHANGED <<running, worker, todo, syncVars, bankVars>>

Launched ==
  /\ sched' = "loop" /\ request' = Nobody
  /\ running' = running \cup {request}

(* Mistake: begin does not take boundary_mutex.                            *)
RequestBeginUnlocked ==
  /\ sched = "begin"
  /\ IF worker # "none" /\ active = 0 /\ RotateRequested
     THEN sched' = "waiting" /\ UNCHANGED <<request, running, active>>
     ELSE Launched /\ active' = IF worker = "none" THEN active ELSE active + 1
  /\ UNCHANGED <<worker, todo, signals, boundary, bankVars>>

(* request_begin counts, unless it finds the idle boundary waiting for its *)
(* bank switch: then it waits for boundary_changed, releasing the mutex.   *)
RequestBegin ==
  /\ sched = "begin"
  /\ IF worker = "none"
     THEN Launched /\ active' = active
     ELSE /\ boundary = Nobody
          /\ IF active = 0 /\ RotateRequested /\ ~Stopping
             THEN sched' = "waiting" /\ UNCHANGED <<request, running, active>>
             ELSE /\ Launched
                  /\ active' = IF Stopping THEN active ELSE active + 1
  /\ UNCHANGED <<worker, todo, signals, boundary, bankVars>>

(* request_end: the last one asks for a bank switch.                       *)
RequestEnd(r) ==
  /\ sched = "loop"
  /\ r \in running
  /\ running' = running \ {r}
  /\ IF worker = "none"
     THEN UNCHANGED <<active, signals>>
     ELSE /\ boundary = Nobody
          /\ active' = IF active = 0 THEN 0 ELSE active - 1
          /\ signals' = IF active = 1 THEN signals \cup {"rotate"} ELSE signals
  /\ UNCHANGED <<sched, request, worker, todo, boundary, bankVars>>

------------------------------------------------------------------------------
(* The worker.  Each test of an atomic is a step of its own.               *)

(* wait_for returns on a notification or, at the latest, after window_ms.  *)
Wake ==
  /\ worker = "wait"
  /\ worker' = IF Stopping THEN "done" ELSE "look"
  /\ UNCHANGED <<threadVars, todo, syncVars, bankVars>>

(* Mistake: the idle branch of the loop is missing.                        *)
LookOnlyBusy ==
  /\ worker = "look"
  /\ IF active # 0 THEN worker' = "sample" /\ todo' = Devices
                   ELSE worker' = "wait" /\ todo' = todo
  /\ UNCHANGED <<threadVars, syncVars, bankVars>>

Look ==
  /\ worker = "look"
  /\ IF active # 0 THEN worker' = "sample" /\ todo' = Devices
                   ELSE worker' = "turn" /\ todo' = todo
  /\ UNCHANGED <<threadVars, syncVars, bankVars>>

Turn ==
  /\ worker = "turn"
  /\ worker' = IF RotateRequested THEN "lock" ELSE "wait"
  /\ UNCHANGED <<threadVars, todo, syncVars, bankVars>>

(* Mistake: failures are counted and never acted on.                       *)
SampleForever(d) ==
  /\ worker = "sample"
  /\ d \in todo
  /\ todo' = todo \ {d}
  /\ fails' = IF d \in ready THEN [fails EXCEPT ![d][current[d]] = @ + 1] ELSE fails
  /\ UNCHANGED <<threadVars, worker, syncVars, ready, current, avail, enabled,
                 disabled, pmu>>

(* read_bank of one device: a third failure in a row marks the bank        *)
(* disabled and asks for a switch, but leaves its groups enabled.          *)
Sample(d) ==
  /\ worker = "sample"
  /\ d \in todo
  /\ todo' = todo \ {d}
  /\ LET b == current[d]
     IN IF d \in ready /\ b \in enabled[d] /\ b \notin disabled[d]
        THEN \/ /\ fails' = [fails EXCEPT ![d][b] = 0]
               /\ UNCHANGED <<disabled, signals>>
            \/ /\ fails' = [fails EXCEPT ![d][b] = @ + 1]
               /\ IF fails'[d][b] >= 3
                  THEN /\ disabled' = [disabled EXCEPT ![d] = @ \cup {b}]
                       /\ signals' = signals \cup {"rotate"}
                  ELSE UNCHANGED <<disabled, signals>>
        ELSE UNCHANGED <<fails, disabled, signals>>
  /\ UNCHANGED <<threadVars, worker, active, boundary, ready, current, avail,
                 enabled, pmu>>

Sampled ==
  /\ worker = "sample"
  /\ todo = {}
  /\ worker' = "wait"
  /\ UNCHANGED <<threadVars, todo, syncVars, bankVars>>

(* rotate_at_idle_boundary: everything under boundary_mutex.               *)
Lock ==
  /\ worker = "lock"
  /\ boundary = Nobody
  /\ IF active # 0 \/ ~RotateRequested
     THEN worker' = "wait" /\ UNCHANGED <<todo, boundary, signals>>
     ELSE /\ worker' = "rotate"
          /\ boundary' = "worker"
          /\ signals' = signals \ {"rotate"}
          /\ todo' = Devices
  /\ UNCHANGED <<threadVars, active, bankVars>>

(* The order in which the candidates of a device are tried, the current    *)
(* bank last.                                                              *)
Candidate(d, offset) == (current[d] + offset) % (LastBank + 1)

(* Mistake: the next bank is enabled beside the current one.               *)
SwitchBeside(d) ==
  \E b \in avail[d] \ disabled[d] :
     /\ enabled' = [enabled EXCEPT ![d] = @ \cup {b}]
     /\ pmu' = [pmu EXCEPT ![d] = @ \cup {b}]
     /\ current' = [current EXCEPT ![d] = b]
     /\ UNCHANGED <<disabled, ready>>

(* Mistake: candidates are not tested for disabled.                        *)
SwitchToAny(d) ==
  \E b \in avail[d] :
     /\ enabled' = [enabled EXCEPT ![d] = {b}]
     /\ pmu' = [pmu EXCEPT ![d] = {b}]
     /\ current' = [current EXCEPT ![d] = b]
     /\ UNCHANGED <<disabled, ready>>

(* One device: the current bank is switched off, the next candidate that   *)
(* lets itself be enabled is switched on, and those that did not are       *)
(* disabled for good.  The hardware may refuse to switch a bank off; the   *)
(* bank counts as off all the same.                                        *)
Switch(d) ==
  LET old      == current[d]
      eligible == {o \in 1 .. LastBank + 1 :
                     Candidate(d, o) \in avail[d] \ disabled[d]}
      after    == enabled[d] \ {old}
  IN \E off \in (SUBSET (enabled[d] \cap {old})), chosen \in eligible \cup {0} :
       LET tried == {Candidate(d, o) : o \in {x \in eligible : chosen = 0 \/ x < chosen}}
           on    == IF chosen = 0 THEN {} ELSE {Candidate(d, chosen)}
       IN /\ disabled' = [disabled EXCEPT ![d] = @ \cup tried]
          /\ enabled' = [enabled EXCEPT ![d] = after \cup on]
          /\ pmu' = [pmu EXCEPT ![d] = (@ \ off) \cup on]
          /\ current' = [current EXCEPT ![d] = IF chosen = 0 THEN old
                                               ELSE Candidate(d, chosen)]
          /\ ready' = IF chosen = 0 THEN ready \ {d} ELSE ready

RotateDevice(d) ==
  /\ worker = "rotate"
  /\ d \in todo
  /\ todo' = todo \ {d}
  /\ \/ d \in ready /\ Switch(d)
     \/ UNCHANGED <<ready, current, enabled, disabled, pmu>>  \* not ready, or no context
  /\ UNCHANGED <<threadVars, worker, syncVars, avail, fails>>

(* Mistake: no notify_all on boundary_changed.                             *)
RotatedSilently ==
  /\ worker = "rotate"
  /\ todo = {}
  /\ worker' = "wait"
  /\ boundary' = Nobody
  /\ UNCHANGED <<threadVars, todo, active, signals, bankVars>>

(* notify_all: a waiting request_begin looks again.                        *)
Rotated ==
  /\ worker = "rotate"
  /\ todo = {}
  /\ worker' = "wait"
  /\ boundary' = Nobody
  /\ sched' = IF sched = "waiting" THEN "begin" ELSE sched
  /\ UNCHANGED <<request, running, todo, active, signals, bankVars>>

------------------------------------------------------------------------------
Scheduler == Start \/ Sleep \/ CleanUp \/ Join \/ RequestBegin
             \/ \E r \in Requests : Launch(r) \/ RequestEnd(r)

Worker == Wake \/ Look \/ Turn \/ Sampled \/ Lock \/ Rotated
          \/ \E d \in Devices : Sample(d) \/ RotateDevice(d)

(* The process is gone.                                                    *)
Terminated == sched = "over" /\ UNCHANGED vars

Next == Scheduler \/ Worker \/ Terminated

Spec == Init /\ [][Next]_vars

(* The worker never waits longer than window_ms, no reading or switch      *)
(* blocks, and the mutex is not kept from a thread that waits for it.      *)
FairSpec == Spec /\ WF_vars(Worker) /\ WF_vars(RequestBegin) /\ WF_vars(Join)
------------------------------------------------------------------------------
(* Properties.                                                             *)

(* Event groups are enabled and disabled only while no request is active,  *)
(* through overlapping requests, the failure path of the sampler, bank     *)
(* switches, start and sleep.  The one exception to the hook comment of    *)
(* server-cupti.h is clean_up: it takes the groups down under whatever the *)
(* slots were running, all of them, and enables none.                      *)
QuietWhileActive ==
  [][pmu' # pmu => running = {} \/ (sched = "closing" /\ pmu' = Each({}))]_vars

(* A device that reports ready has its current bank enabled, in the        *)
(* hardware too, and no other marked enabled: the two banks conflict.      *)
OneBankEnabled ==
  \A d \in Devices : /\ d \in ready => enabled[d] = {current[d]}
                     /\ d \notin ready => enabled[d] = {}
                     /\ enabled[d] \subseteq pmu[d]

(* A bank that failed three times in a row, or could not be enabled, is    *)
(* not enabled again in the life of the collector.                         *)
DisabledForGood ==
  [][\A d \in Devices : (enabled'[d] \ enabled[d]) \cap disabled[d] = {}]_vars

(* request_begin always returns, whatever CUPTI does: a bank switch it     *)
(* waits for is made even when its notification of the worker is lost.     *)
LaunchReturns == \A r \in Requests : request = r ~> r \in running

(* A switch that is due at an idle boundary is made, or the collector ends *)
(* with its server asleep or gone.                                         *)
SwitchMade ==
  (active = 0 /\ RotateRequested) ~> (~RotateRequested \/ sched \in {"asleep", "over"})
==============================================================================
