------------------------ MODULE CuptiCollector_proofs ------------------------
(***************************************************************************)
(* Proofs about CuptiCollector for any number of slots, devices and banks. *)
(* The argument: active_requests is the number of requests that run, the   *)
(* worker switches banks only with boundary_mutex and with that number at  *)
(* zero, and nothing else changes the number while it holds the mutex.     *)
(***************************************************************************)
EXTENDS CuptiCollector, FiniteSetTheorems, TLAPS

(* active_requests counts the requests, while there is a collector.        *)
Counted ==
  /\ IsFiniteSet(running)
  /\ worker # "none" => active = Cardinality(running)

(* What the scheduler thread may rely on at each of its labels.            *)
Scheduled ==
  /\ sched \in {"joining", "asleep"} => running = {}
  /\ sched \in {"asleep", "over"} => worker = "none"
  /\ sched \in {"begin", "waiting"} => request \in Requests \ running
  /\ Stopping => sched \in {"joining", "closing"}

(* The worker: without a collector its state is at rest, and boundary_mutex *)
(* is held through the whole bank switch, which starts with no request.    *)
Switching ==
  /\ worker = "none" => NoCollector
  /\ worker = "rotate" <=> boundary = "worker"
  /\ worker = "rotate" => active = 0

(* The third failure in a row disables the bank, so none is ever counted   *)
(* beyond it.                                                              *)
Failures ==
  \A d \in Devices, b \in Banks : fails[d][b] = 3 => b \in disabled[d]

IInv == /\ TypeOK
        /\ Counted
        /\ Scheduled
        /\ Switching
        /\ Failures
        /\ OneBankEnabled
------------------------------------------------------------------------------

(* The bank select_first_bank chooses is one of those it may choose.       *)
LEMMA Least ==
  ASSUME NEW B \in SUBSET Nat, B # {}
  PROVE  (CHOOSE b \in B : \A x \in B : b <= x) \in B
  <1>1. PICK b \in B : \A x \in B : ~(<<x, b>> \in OpToRel(<, Nat))
    BY WFMin, NatLessThanWellFounded
  <1>2. ASSUME NEW x \in B
        PROVE  b <= x
    <2>1. <<x, b>> \in Nat \X Nat => ~(<<x, b>>[1] < <<x, b>>[2])
      BY <1>1 DEF OpToRel
    <2>2. QED
      BY <2>1
  <1>3. QED
    BY <1>2

(* start leaves no collector behind, or one that holds a bank of every     *)
(* device that is ready, and nothing else.                                 *)
LEMMA Started ==
  ASSUME Start
  PROVE  \/ UNCHANGED <<worker, bankVars>>
         \/ /\ worker' = "wait"
            /\ ready' \in SUBSET Devices
            /\ avail' \in [Devices -> SUBSET Banks]
            /\ current' \in [Devices -> Banks]
            /\ enabled' = [d \in Devices |-> IF d \in ready' THEN {current'[d]}
                                                             ELSE {}]
            /\ pmu' = enabled'
            /\ UNCHANGED <<disabled, fails>>
  <1>1. PICK ok \in [Devices -> SUBSET Banks], a \in [Devices -> SUBSET Banks] :
          LET usable(d) == a[d] \cap ok[d]
              first(d)  == CHOOSE b \in usable(d) : \A x \in usable(d) : b <= x
              up        == {d \in Devices : usable(d) # {}}
          IN IF up = {}
             THEN UNCHANGED <<worker, bankVars>>
             ELSE /\ worker' = "wait"
                  /\ ready' = up
                  /\ avail' = a
                  /\ current' = [d \in Devices |-> IF d \in up THEN first(d) ELSE 0]
                  /\ enabled' = [d \in Devices |-> IF d \in up THEN {first(d)} ELSE {}]
                  /\ pmu' = enabled'
                  /\ UNCHANGED <<disabled, fails>>
    BY DEF Start
  <1> DEFINE usable(d) == a[d] \cap ok[d]
             first(d)  == CHOOSE b \in usable(d) : \A x \in usable(d) : b <= x
             up        == {d \in Devices : usable(d) # {}}
  <1>2. CASE up = {}
    BY <1>1, <1>2
  <1>3. CASE up # {}
    <2>1. /\ worker' = "wait" /\ ready' = up /\ avail' = a
          /\ current' = [d \in Devices |-> IF d \in up THEN first(d) ELSE 0]
          /\ enabled' = [d \in Devices |-> IF d \in up THEN {first(d)} ELSE {}]
          /\ pmu' = enabled'
          /\ UNCHANGED <<disabled, fails>>
      BY <1>1, <1>3
    <2>2. \A d \in up : first(d) \in Banks
      <3> SUFFICES ASSUME NEW d \in up PROVE first(d) \in Banks
        OBVIOUS
      <3>1. usable(d) \in SUBSET Nat /\ usable(d) # {} /\ usable(d) \in SUBSET Banks
        BY DEF Banks
      <3> HIDE DEF usable
      <3>2. first(d) \in usable(d)
        BY <3>1, Least
      <3>3. QED
        BY <3>1, <3>2
    <2>3. 0 \in Banks
      BY BankAssumption DEF Banks
    <2> HIDE DEF usable, first
    <2>4. current' \in [Devices -> Banks]
      BY <2>1, <2>2, <2>3
    <2>5. enabled' = [d \in Devices |-> IF d \in ready' THEN {current'[d]} ELSE {}]
      BY <2>1
    <2>6. QED
      BY <2>1, <2>4, <2>5
  <1>4. QED
    BY <1>2, <1>3

(* A candidate of the switch is a bank.                                    *)
LEMMA CandidateType ==
  ASSUME TypeOK, NEW d \in Devices, NEW o \in Nat
  PROVE  Candidate(d, o) \in Banks
  <1>1. current[d] + o \in Nat /\ LastBank + 1 \in Nat \ {0}
    BY BankAssumption DEF TypeOK, Banks
  <1>2. \A x \in Nat, m \in Nat \ {0} : x % m \in 0 .. m - 1
    OBVIOUS
  <1>3. QED
    <2>1. (current[d] + o) % (LastBank + 1) \in 0 .. (LastBank + 1) - 1
      BY <1>1, <1>2
    <2>2. (LastBank + 1) - 1 = LastBank
      BY BankAssumption
    <2>3. QED
      BY <2>1, <2>2 DEF Candidate, Banks

(* One device's switch, seen from outside: the old bank is off, and unless *)
(* the device stopped being ready one bank that was not disabled is on.    *)
LEMMA Switched ==
  ASSUME TypeOK, NEW d \in Devices, Switch(d)
  PROVE  /\ \E more \in SUBSET Banks :
              disabled' = [disabled EXCEPT ![d] = @ \cup more]
         /\ \/ /\ enabled' = [enabled EXCEPT ![d] = @ \ {current[d]}]
               /\ \E off \in SUBSET Banks :
                    pmu' = [pmu EXCEPT ![d] = @ \ (off \cap {current[d]})]
               /\ current' = current /\ ready' = ready \ {d}
            \/ \E b \in Banks \ disabled[d] :
                 /\ enabled' = [enabled EXCEPT ![d] = (@ \ {current[d]}) \cup {b}]
                 /\ \E off \in SUBSET Banks :
                      pmu' = [pmu EXCEPT ![d] = (@ \ (off \cap {current[d]})) \cup {b}]
                 /\ current' = [current EXCEPT ![d] = b] /\ ready' = ready
  <1> DEFINE old      == current[d]
             eligible == {o \in 1 .. LastBank + 1 :
                            Candidate(d, o) \in avail[d] \ disabled[d]}
             tried(c) == {Candidate(d, o) : o \in {x \in eligible : c = 0 \/ x < c}}
             on(c)    == IF c = 0 THEN {} ELSE {Candidate(d, c)}
  <1>1. PICK off \in (SUBSET (enabled[d] \cap {old})), c \in eligible \cup {0} :
          /\ disabled' = [disabled EXCEPT ![d] = @ \cup tried(c)]
          /\ enabled' = [enabled EXCEPT ![d] = (enabled[d] \ {old}) \cup on(c)]
          /\ pmu' = [pmu EXCEPT ![d] = (@ \ off) \cup on(c)]
          /\ current' = [current EXCEPT ![d] = IF c = 0 THEN old
                                               ELSE Candidate(d, c)]
          /\ ready' = IF c = 0 THEN ready \ {d} ELSE ready
    BY DEF Switch
  <1>2. \A o \in eligible : Candidate(d, o) \in Banks \ disabled[d] /\ o # 0
    BY CandidateType, BankAssumption
  <1>3. tried(c) \in SUBSET Banks
    BY <1>2
  <1>4. off \in SUBSET Banks /\ off = off \cap {old}
    BY DEF TypeOK
  <1>5. CASE c = 0
    <2>1. on(c) = {}
      BY <1>5
    <2>2. enabled' = [enabled EXCEPT ![d] = @ \ {current[d]}]
      BY <1>1, <2>1
    <2>3. pmu' = [pmu EXCEPT ![d] = @ \ (off \cap {current[d]})]
      BY <1>1, <1>4, <2>1
    <2>4. current' = current /\ ready' = ready \ {d}
      BY <1>1, <1>5 DEF TypeOK
    <2> HIDE DEF tried, on
    <2>5. QED
      BY <1>1, <1>3, <1>4, <2>2, <2>3, <2>4
  <1>6. CASE c # 0
    <2>1. PICK b \in Banks \ disabled[d] : b = Candidate(d, c)
      BY <1>2, <1>6
    <2>2. on(c) = {b}
      BY <1>6, <2>1
    <2>3. enabled' = [enabled EXCEPT ![d] = (@ \ {current[d]}) \cup {b}]
      BY <1>1, <2>2
    <2>4. pmu' = [pmu EXCEPT ![d] = (@ \ (off \cap {current[d]})) \cup {b}]
      BY <1>1, <1>4, <2>2
    <2>5. current' = [current EXCEPT ![d] = b] /\ ready' = ready
      BY <1>1, <1>6, <2>1
    <2> HIDE DEF tried, on
    <2>6. QED
      BY <1>1, <1>3, <1>4, <2>1, <2>3, <2>4, <2>5
  <1>7. QED
    BY <1>5, <1>6

(* Types: one step per action.                                             *)
LEMMA TypeStep ==
  ASSUME TypeOK, Scheduled, Switching, Failures, Next
  PROVE  TypeOK'
  <1> USE BankAssumption DEF Scheduled, TypeOK, Each, SchedLabel, WorkerLabel,
  threadVars, bankVars, syncVars, Stopping, RotateRequested
  <1>1. ASSUME Start
        PROVE  TypeOK'
    <2>1. CASE UNCHANGED <<worker, bankVars>>
      BY <1>1, <2>1 DEF Start
    <2>2. CASE worker' = "wait"
      <3>1. enabled' \in [Devices -> SUBSET Banks]
        BY <1>1, Started
      <3>2. QED
        BY <1>1, <3>1, Started DEF Start
    <2>3. QED
      BY <1>1, <2>1, <2>2, Started
  <1>2. ASSUME Sleep \/ CleanUp
        PROVE  TypeOK'
    BY <1>2 DEF Sleep, CleanUp, Stop
  <1>3. ASSUME Join
        PROVE  TypeOK'
    <2>1. 0 \in Banks
      BY DEF Banks
    <2>2. QED
      BY <1>3, <2>1 DEF Join
  <1>4. ASSUME RequestBegin
        PROVE  TypeOK'
    BY <1>4 DEF RequestBegin, Launched
  <1>5. ASSUME NEW r \in Requests, Launch(r)
        PROVE  TypeOK'
    BY <1>5 DEF Launch
  <1>6. ASSUME NEW r \in Requests, RequestEnd(r)
        PROVE  TypeOK'
    <2>1. active' \in Nat
      BY <1>6 DEF RequestEnd
    <2>2. running' \in SUBSET Requests /\ signals' \in SUBSET {"stop", "rotate"}
      BY <1>6 DEF RequestEnd
    <2>3. QED
      BY <1>6, <2>1, <2>2 DEF RequestEnd
  <1>7. ASSUME Wake
        PROVE  TypeOK'
    BY <1>7 DEF Wake
  <1>8. ASSUME Look
        PROVE  TypeOK'
    BY <1>8 DEF Look
  <1>9. ASSUME Turn
        PROVE  TypeOK'
    BY <1>9 DEF Turn
  <1>10. ASSUME Sampled
         PROVE  TypeOK'
    BY <1>10 DEF Sampled
  <1>11. ASSUME Lock
         PROVE  TypeOK'
    BY <1>11 DEF Lock
  <1>12. ASSUME Rotated
         PROVE  TypeOK'
    BY <1>12 DEF Rotated
  <1>13. ASSUME NEW d \in Devices, Sample(d)
         PROVE  TypeOK'
    <2> DEFINE b == current[d]
    <2>1. /\ b \in Banks /\ fails[d][b] \in 0 .. 3
          /\ fails[d][b] = 3 => b \in disabled[d]
      BY DEF Failures
    <2>2. fails' \in [Devices -> [Banks -> 0 .. 3]]
      <3>1. CASE UNCHANGED fails
        BY <3>1
      <3>2. CASE fails' = [fails EXCEPT ![d][b] = 0]
        BY <2>1, <3>2
      <3>3. CASE b \notin disabled[d] /\ fails' = [fails EXCEPT ![d][b] = @ + 1]
        <4>1. fails[d][b] + 1 \in 0 .. 3
          BY <2>1, <3>3
        <4>2. QED
          BY <2>1, <3>3, <4>1
      <3>4. QED
        BY <1>13, <3>1, <3>2, <3>3 DEF Sample
    <2>3. disabled' \in [Devices -> SUBSET Banks]
      BY <1>13, <2>1 DEF Sample
    <2>4. signals' \in SUBSET {"stop", "rotate"}
      BY <1>13 DEF Sample
    <2>5. todo' \in SUBSET Devices
      BY <1>13 DEF Sample
    <2>6. QED
      BY <1>13, <2>2, <2>3, <2>4, <2>5 DEF Sample
  <1>14. ASSUME NEW d \in Devices, RotateDevice(d)
         PROVE  TypeOK'
    <2>1. CASE Switch(d)
      <3>1. disabled' \in [Devices -> SUBSET Banks]
        <4>1. PICK more \in SUBSET Banks :
                disabled' = [disabled EXCEPT ![d] = disabled[d] \cup more]
          BY <2>1, Switched
        <4>2. disabled[d] \cup more \in SUBSET Banks
          OBVIOUS
        <4>3. QED
          BY <4>1, <4>2
      <3>2. ready' \in SUBSET Devices
        BY <2>1, Switched
      <3>3. /\ enabled' \in [Devices -> SUBSET Banks]
            /\ current' \in [Devices -> Banks]
            /\ pmu' \in [Devices -> SUBSET Banks]
        <4>1. CASE \E off \in SUBSET Banks :
                /\ enabled' = [enabled EXCEPT ![d] = enabled[d] \ {current[d]}]
                /\ pmu' = [pmu EXCEPT ![d] = pmu[d] \ (off \cap {current[d]})]
                /\ current' = current
          BY <4>1
        <4>2. CASE \E off \in SUBSET Banks, b \in Banks :
                /\ enabled' = [enabled EXCEPT ![d] = (enabled[d] \ {current[d]})
                                                      \cup {b}]
                /\ pmu' = [pmu EXCEPT ![d] = (pmu[d] \ (off \cap {current[d]}))
                                              \cup {b}]
                /\ current' = [current EXCEPT ![d] = b]
          <5> PICK off \in SUBSET Banks, b \in Banks :
                /\ enabled' = [enabled EXCEPT ![d] = (enabled[d] \ {current[d]})
                                                      \cup {b}]
                /\ pmu' = [pmu EXCEPT ![d] = (pmu[d] \ (off \cap {current[d]}))
                                              \cup {b}]
                /\ current' = [current EXCEPT ![d] = b]
            BY <4>2
          <5>1. /\ (enabled[d] \ {current[d]}) \cup {b} \in SUBSET Banks
                /\ (pmu[d] \ (off \cap {current[d]})) \cup {b} \in SUBSET Banks
            OBVIOUS
          <5>2. QED
            BY <5>1
        <4>3. QED
          BY <2>1, <4>1, <4>2, Switched
      <3>4. QED
        BY <1>14, <3>1, <3>2, <3>3 DEF RotateDevice
    <2>2. CASE UNCHANGED <<ready, current, enabled, disabled, pmu>>
      BY <1>14, <2>2 DEF RotateDevice
    <2>3. QED
      BY <1>14, <2>1, <2>2 DEF RotateDevice
  <1>15. ASSUME Terminated
         PROVE  TypeOK'
    BY <1>15 DEF Terminated, vars
  <1>16. QED
    BY <1>1, <1>2, <1>3, <1>4, <1>5, <1>6, <1>7, <1>8, <1>9, <1>10, <1>11,
    <1>12, <1>13, <1>14, <1>15
    DEF Next, Scheduler, Worker

(* The count of requests.                                                  *)
LEMMA CountedStep ==
  ASSUME TypeOK, Counted, Scheduled, Switching, Next
  PROVE  Counted'
  <1> USE DEF Counted, Scheduled, threadVars, bankVars, syncVars, Stopping,
  RotateRequested
  <1>1. ASSUME Start
        PROVE  Counted'
    <2>1. running = {} /\ running' = {} /\ active' = active /\ active = 0
      BY <1>1 DEF Start, Switching, NoCollector
    <2>2. QED
      BY <2>1, FS_EmptySet
  <1>2. ASSUME Sleep \/ CleanUp
        PROVE  Counted'
    BY <1>2 DEF Sleep, CleanUp, Stop
  <1>3. ASSUME Join
        PROVE  Counted'
    BY <1>3 DEF Join
  <1>4. ASSUME RequestBegin
        PROVE  Counted'
    <2>1. CASE sched' = "waiting"
      BY <1>4, <2>1 DEF RequestBegin, Launched
    <2>2. CASE Launched
      <3>1. /\ IsFiniteSet(running')
            /\ Cardinality(running') = Cardinality(running) + 1
        BY <1>4, <2>2, FS_AddElement DEF RequestBegin, Launched
      <3>2. worker # "none" => active' = active + 1
        BY <1>4, <2>2 DEF RequestBegin, Launched
      <3>3. QED
        BY <1>4, <3>1, <3>2 DEF RequestBegin
    <2>3. QED
      BY <1>4, <2>1, <2>2 DEF RequestBegin
  <1>5. ASSUME NEW r \in Requests, Launch(r)
        PROVE  Counted'
    BY <1>5 DEF Launch
  <1>6. ASSUME NEW r \in Requests, RequestEnd(r)
        PROVE  Counted'
    <2>1. /\ IsFiniteSet(running')
          /\ Cardinality(running') = Cardinality(running) - 1
      BY <1>6, FS_RemoveElement DEF RequestEnd
    <2>2. Cardinality(running) # 0
      BY <1>6, FS_EmptySet DEF RequestEnd
    <2>3. QED
      BY <1>6, <2>1, <2>2 DEF RequestEnd
  <1>7. ASSUME Wake
        PROVE  Counted'
    BY <1>7 DEF Wake
  <1>8. ASSUME Look
        PROVE  Counted'
    BY <1>8 DEF Look
  <1>9. ASSUME Turn
        PROVE  Counted'
    BY <1>9 DEF Turn
  <1>10. ASSUME Sampled
         PROVE  Counted'
    BY <1>10 DEF Sampled
  <1>11. ASSUME Lock
         PROVE  Counted'
    BY <1>11 DEF Lock
  <1>12. ASSUME Rotated
         PROVE  Counted'
    BY <1>12 DEF Rotated
  <1>13. ASSUME NEW d \in Devices, Sample(d)
         PROVE  Counted'
    BY <1>13 DEF Sample
  <1>14. ASSUME NEW d \in Devices, RotateDevice(d)
         PROVE  Counted'
    BY <1>14 DEF RotateDevice
  <1>15. ASSUME Terminated
         PROVE  Counted'
    BY <1>15 DEF Terminated, vars
  <1>16. QED
    BY <1>1, <1>2, <1>3, <1>4, <1>5, <1>6, <1>7, <1>8, <1>9, <1>10, <1>11,
    <1>12, <1>13, <1>14, <1>15
    DEF Next, Scheduler, Worker

(* The scheduler thread.                                                   *)
LEMMA ScheduledStep ==
  ASSUME TypeOK, Scheduled, Next
  PROVE  Scheduled'
  <1> USE DEF Scheduled, TypeOK, threadVars, bankVars, syncVars, Stopping,
  RotateRequested
  <1>1. ASSUME Start
        PROVE  Scheduled'
    BY <1>1 DEF Start
  <1>2. ASSUME Sleep \/ CleanUp
        PROVE  Scheduled'
    BY <1>2 DEF Sleep, CleanUp, Stop
  <1>3. ASSUME Join
        PROVE  Scheduled'
    BY <1>3 DEF Join
  <1>4. ASSUME RequestBegin
        PROVE  Scheduled'
    BY <1>4 DEF RequestBegin, Launched
  <1>5. ASSUME NEW r \in Requests, Launch(r)
        PROVE  Scheduled'
    BY <1>5 DEF Launch
  <1>6. ASSUME NEW r \in Requests, RequestEnd(r)
        PROVE  Scheduled'
    BY <1>6 DEF RequestEnd
  <1>7. ASSUME Wake
        PROVE  Scheduled'
    BY <1>7 DEF Wake
  <1>8. ASSUME Look
        PROVE  Scheduled'
    BY <1>8 DEF Look
  <1>9. ASSUME Turn
        PROVE  Scheduled'
    BY <1>9 DEF Turn
  <1>10. ASSUME Sampled
         PROVE  Scheduled'
    BY <1>10 DEF Sampled
  <1>11. ASSUME Lock
         PROVE  Scheduled'
    BY <1>11 DEF Lock
  <1>12. ASSUME Rotated
         PROVE  Scheduled'
    BY <1>12 DEF Rotated
  <1>13. ASSUME NEW d \in Devices, Sample(d)
         PROVE  Scheduled'
    BY <1>13 DEF Sample
  <1>14. ASSUME NEW d \in Devices, RotateDevice(d)
         PROVE  Scheduled'
    BY <1>14 DEF RotateDevice
  <1>15. ASSUME Terminated
         PROVE  Scheduled'
    BY <1>15 DEF Terminated, vars
  <1>16. QED
    BY <1>1, <1>2, <1>3, <1>4, <1>5, <1>6, <1>7, <1>8, <1>9, <1>10, <1>11,
    <1>12, <1>13, <1>14, <1>15
    DEF Next, Scheduler, Worker

(* The worker thread and boundary_mutex.                                   *)
LEMMA SwitchingStep ==
  ASSUME TypeOK, Scheduled, Switching, Next
  PROVE  Switching'
  <1> USE NobodyAssumption DEF Switching, NoCollector, Scheduled, TypeOK, Each,
  threadVars, bankVars, syncVars, Stopping, RotateRequested
  <1>1. ASSUME Start
        PROVE  Switching'
    <2>1. CASE UNCHANGED <<worker, bankVars>>
      BY <1>1, <2>1 DEF Start
    <2>2. CASE worker' = "wait"
      BY <1>1, <2>2 DEF Start
    <2>3. QED
      BY <1>1, <2>1, <2>2, Started
  <1>2. ASSUME Sleep \/ CleanUp
        PROVE  Switching'
    BY <1>2 DEF Sleep, CleanUp, Stop
  <1>3. ASSUME Join
        PROVE  Switching'
    BY <1>3 DEF Join
  <1>4. ASSUME RequestBegin
        PROVE  Switching'
    BY <1>4 DEF RequestBegin, Launched
  <1>5. ASSUME NEW r \in Requests, Launch(r)
        PROVE  Switching'
    BY <1>5 DEF Launch
  <1>6. ASSUME NEW r \in Requests, RequestEnd(r)
        PROVE  Switching'
    BY <1>6 DEF RequestEnd
  <1>7. ASSUME Wake
        PROVE  Switching'
    BY <1>7 DEF Wake
  <1>8. ASSUME Look
        PROVE  Switching'
    BY <1>8 DEF Look
  <1>9. ASSUME Turn
        PROVE  Switching'
    BY <1>9 DEF Turn
  <1>10. ASSUME Sampled
         PROVE  Switching'
    BY <1>10 DEF Sampled
  <1>11. ASSUME Lock
         PROVE  Switching'
    BY <1>11 DEF Lock
  <1>12. ASSUME Rotated
         PROVE  Switching'
    BY <1>12 DEF Rotated
  <1>13. ASSUME NEW d \in Devices, Sample(d)
         PROVE  Switching'
    BY <1>13 DEF Sample
  <1>14. ASSUME NEW d \in Devices, RotateDevice(d)
         PROVE  Switching'
    BY <1>14 DEF RotateDevice
  <1>15. ASSUME Terminated
         PROVE  Switching'
    BY <1>15 DEF Terminated, vars
  <1>16. QED
    BY <1>1, <1>2, <1>3, <1>4, <1>5, <1>6, <1>7, <1>8, <1>9, <1>10, <1>11,
    <1>12, <1>13, <1>14, <1>15
    DEF Next, Scheduler, Worker

(* The failures of each bank.                                              *)
LEMMA FailuresStep ==
  ASSUME TypeOK, Scheduled, Switching, Failures, Next
  PROVE  Failures'
  <1> USE DEF Failures, TypeOK, Each, threadVars, bankVars, syncVars, Stopping,
  RotateRequested
  <1>1. ASSUME Start
        PROVE  Failures'
    BY <1>1, Started
  <1>2. ASSUME Sleep \/ CleanUp
        PROVE  Failures'
    BY <1>2 DEF Sleep, CleanUp, Stop
  <1>3. ASSUME Join
        PROVE  Failures'
    BY <1>3 DEF Join
  <1>4. ASSUME RequestBegin
        PROVE  Failures'
    BY <1>4 DEF RequestBegin, Launched
  <1>5. ASSUME NEW r \in Requests, Launch(r)
        PROVE  Failures'
    BY <1>5 DEF Launch
  <1>6. ASSUME NEW r \in Requests, RequestEnd(r)
        PROVE  Failures'
    BY <1>6 DEF RequestEnd
  <1>7. ASSUME Wake
        PROVE  Failures'
    BY <1>7 DEF Wake
  <1>8. ASSUME Look
        PROVE  Failures'
    BY <1>8 DEF Look
  <1>9. ASSUME Turn
        PROVE  Failures'
    BY <1>9 DEF Turn
  <1>10. ASSUME Sampled
         PROVE  Failures'
    BY <1>10 DEF Sampled
  <1>11. ASSUME Lock
         PROVE  Failures'
    BY <1>11 DEF Lock
  <1>12. ASSUME Rotated
         PROVE  Failures'
    BY <1>12 DEF Rotated
  <1>13. ASSUME NEW d \in Devices, Sample(d)
         PROVE  Failures'
    <2> DEFINE b == current[d]
    <2>1. b \in Banks
      OBVIOUS
    <2>2. CASE UNCHANGED <<fails, disabled>>
      BY <2>2
    <2>3. CASE fails' = [fails EXCEPT ![d][b] = 0] /\ UNCHANGED disabled
      BY <2>1, <2>3
    <2>4. CASE /\ fails' = [fails EXCEPT ![d][b] = @ + 1]
               /\ IF fails'[d][b] >= 3
                  THEN disabled' = [disabled EXCEPT ![d] = @ \cup {b}]
                  ELSE UNCHANGED disabled
      BY <2>1, <2>4
    <2>5. QED
      BY <1>13, <2>2, <2>3, <2>4 DEF Sample
  <1>14. ASSUME NEW d \in Devices, RotateDevice(d)
         PROVE  Failures'
    <2>1. CASE Switch(d)
      <3>1. PICK more \in SUBSET Banks :
              disabled' = [disabled EXCEPT ![d] = disabled[d] \cup more]
        BY <2>1, Switched
      <3>2. QED
        BY <1>14, <3>1 DEF RotateDevice
    <2>2. CASE UNCHANGED disabled
      BY <1>14, <2>2 DEF RotateDevice
    <2>3. QED
      BY <1>14, <2>1, <2>2 DEF RotateDevice
  <1>15. ASSUME Terminated
         PROVE  Failures'
    BY <1>15 DEF Terminated, vars
  <1>16. QED
    BY <1>1, <1>2, <1>3, <1>4, <1>5, <1>6, <1>7, <1>8, <1>9, <1>10, <1>11,
    <1>12, <1>13, <1>14, <1>15
    DEF Next, Scheduler, Worker

(* One bank per device.                                                    *)
LEMMA BankStep ==
  ASSUME TypeOK, Scheduled, Switching, OneBankEnabled, Next
  PROVE  OneBankEnabled'
  <1> USE DEF OneBankEnabled, TypeOK, Each, threadVars, bankVars, syncVars,
  Stopping, RotateRequested
  <1>1. ASSUME Start
        PROVE  OneBankEnabled'
    BY <1>1, Started
  <1>2. ASSUME Sleep \/ CleanUp
        PROVE  OneBankEnabled'
    BY <1>2 DEF Sleep, CleanUp, Stop
  <1>3. ASSUME Join
        PROVE  OneBankEnabled'
    BY <1>3 DEF Join
  <1>4. ASSUME RequestBegin
        PROVE  OneBankEnabled'
    BY <1>4 DEF RequestBegin, Launched
  <1>5. ASSUME NEW r \in Requests, Launch(r)
        PROVE  OneBankEnabled'
    BY <1>5 DEF Launch
  <1>6. ASSUME NEW r \in Requests, RequestEnd(r)
        PROVE  OneBankEnabled'
    BY <1>6 DEF RequestEnd
  <1>7. ASSUME Wake
        PROVE  OneBankEnabled'
    BY <1>7 DEF Wake
  <1>8. ASSUME Look
        PROVE  OneBankEnabled'
    BY <1>8 DEF Look
  <1>9. ASSUME Turn
        PROVE  OneBankEnabled'
    BY <1>9 DEF Turn
  <1>10. ASSUME Sampled
         PROVE  OneBankEnabled'
    BY <1>10 DEF Sampled
  <1>11. ASSUME Lock
         PROVE  OneBankEnabled'
    BY <1>11 DEF Lock
  <1>12. ASSUME Rotated
         PROVE  OneBankEnabled'
    BY <1>12 DEF Rotated
  <1>13. ASSUME NEW d \in Devices, Sample(d)
         PROVE  OneBankEnabled'
    BY <1>13 DEF Sample
  <1>14. ASSUME NEW d \in Devices, RotateDevice(d)
         PROVE  OneBankEnabled'
    <2>1. CASE d \in ready /\ Switch(d)
      BY <2>1, Switched
    <2>2. CASE UNCHANGED <<ready, current, enabled, disabled, pmu>>
      BY <2>2
    <2>3. QED
      BY <1>14, <2>1, <2>2 DEF RotateDevice
  <1>15. ASSUME Terminated
         PROVE  OneBankEnabled'
    BY <1>15 DEF Terminated, vars
  <1>16. QED
    BY <1>1, <1>2, <1>3, <1>4, <1>5, <1>6, <1>7, <1>8, <1>9, <1>10, <1>11,
    <1>12, <1>13, <1>14, <1>15
    DEF Next, Scheduler, Worker

------------------------------------------------------------------------------

(* The model is loaded and there is no collector.                          *)
LEMMA InitIInv == Init => IInv
  <1> SUFFICES ASSUME Init PROVE IInv
    OBVIOUS
  <1> USE DEF Init, NoCollector, Each
  <1>1. 0 \in Banks
    BY BankAssumption DEF Banks
  <1>2. TypeOK
    BY <1>1 DEF TypeOK, SchedLabel, WorkerLabel
  <1>3. Counted
    BY FS_EmptySet DEF Counted
  <1>4. Scheduled /\ Switching
    BY NobodyAssumption DEF Scheduled, Switching, Stopping
  <1>5. Failures /\ OneBankEnabled
    BY DEF Failures, OneBankEnabled
  <1>6. QED
    BY <1>2, <1>3, <1>4, <1>5 DEF IInv

(* Every step preserves the invariant.                                     *)
LEMMA NextIInv == IInv /\ [Next]_vars => IInv'
  <1>1. CASE Next
    BY <1>1, TypeStep, CountedStep, ScheduledStep, SwitchingStep, FailuresStep,
       BankStep DEF IInv
  <1>2. CASE UNCHANGED vars
    BY <1>2 DEF vars, threadVars, syncVars, bankVars, IInv, TypeOK, Counted,
       Scheduled, Stopping, Switching, NoCollector, Each, Failures,
       OneBankEnabled
  <1>3. QED
    BY <1>1, <1>2

(* The invariant holds in every reachable state.                           *)
THEOREM Invariance == Spec => []IInv
  BY InitIInv, NextIInv, PTL DEF Spec

(* Every reachable state is well typed (TypeOK).                           *)
THEOREM Typing == Spec => []TypeOK
  <1>1. IInv => TypeOK
    BY DEF IInv
  <1>2. QED
    BY <1>1, Invariance, PTL

(* A ready device has its current bank on and no other marked enabled,     *)
(* however many devices and banks there are (OneBankEnabled).              *)
THEOREM OneBank == Spec => []OneBankEnabled
  <1>1. IInv => OneBankEnabled
    BY DEF IInv
  <1>2. QED
    BY <1>1, Invariance, PTL

(* active_requests is exactly the number of requests that run, so the test *)
(* for zero the worker makes is a test for none.                           *)
THEOREM ExactCount ==
  Spec => [](worker # "none" => active = Cardinality(running))
  <1>1. IInv => (worker # "none" => active = Cardinality(running))
    BY DEF IInv, Counted
  <1>2. QED
    BY <1>1, Invariance, PTL

(* Event groups change only while no request runs, or all of them go off   *)
(* when the server cleans up before its exit (QuietWhileActive).           *)
THEOREM Quiet == Spec => QuietWhileActive
  <1>1. ASSUME IInv, Next, pmu' # pmu
        PROVE  running = {} \/ (sched = "closing" /\ pmu' = Each({}))
    <2> USE DEF IInv, Scheduled, Switching
    <2>1. CASE Start
      BY <1>1, <2>1 DEF Start
    <2>2. CASE Join
      BY <1>1, <2>2 DEF Join
    <2>3. CASE worker = "rotate"
      BY <1>1, <2>3, FS_EmptySet DEF Counted
    <2>4. QED
      BY <1>1, <2>1, <2>2, <2>3 DEF Next, Scheduler, Worker, Sleep, CleanUp, Stop,
         Terminated, vars, RequestBegin, Launch, RequestEnd, Wake, Look, Turn,
         Sampled, Lock, Rotated, Sample, RotateDevice, bankVars
  <1>2. QED
    BY <1>1, Invariance, PTL DEF Spec, QuietWhileActive, vars, bankVars

(* No bank that was disabled is ever switched on again (DisabledForGood).  *)
THEOREM Disabled == Spec => DisabledForGood
  <1>1. ASSUME IInv, Next
        PROVE  \A d \in Devices : (enabled'[d] \ enabled[d]) \cap disabled[d] = {}
    <2> SUFFICES ASSUME NEW d \in Devices
                 PROVE  (enabled'[d] \ enabled[d]) \cap disabled[d] = {}
      OBVIOUS
    <2> USE DEF IInv, TypeOK
    <2>1. CASE UNCHANGED enabled
      BY <2>1
    <2>2. CASE Start
      <3>1. disabled[d] = {}
        BY <1>1, <2>2 DEF Start, Scheduled, Switching, NoCollector, Each
      <3>2. QED
        BY <3>1
    <2>3. CASE Join
      BY <2>3 DEF Join, Each
    <2>4. ASSUME NEW e \in Devices, Switch(e)
          PROVE  (enabled'[d] \ enabled[d]) \cap disabled[d] = {}
      BY <1>1, <2>4, Switched
    <2>5. QED
      BY <1>1, <2>1, <2>2, <2>3, <2>4 DEF Next, Scheduler, Worker, Sleep,
         CleanUp, Stop, Terminated, vars, RequestBegin, Launch, RequestEnd, Wake, Look, Turn, Sampled, Lock,
         Rotated, Sample, RotateDevice, bankVars
  <1>2. QED
    BY <1>1, Invariance, PTL DEF Spec, DisabledForGood, vars, bankVars

==============================================================================
