------------------------ MODULE HostCoordinator_proofs ------------------------
(***************************************************************************)
(* Proofs about HostCoordinator for any set of coordinators and GPUs, any  *)
(* number of guest boots and of helper processes.  The argument: the host  *)
(* flock leaves one instance with a program counter, so its picture of the *)
(* state file (seen, latch) is current; a picture of the guest boot may be *)
(* stale, but a boot also starts the count of attempts again.              *)
(***************************************************************************)
EXTENDS HostCoordinator, TLAPS

(* The labels of run() with a boot_id, before and after the helper starts. *)
Armed    == {"record", "tensor", "pending", "launch"}
Launched == {"wait", "verify"}

(* The flock: the one instance that is not idle is the one that holds it.  *)
Exclusive == \A c \in Coordinators : pc[c] # "idle" <=> lock = c

(* boot_id is None until the agent answers, and is that of a boot that has *)
(* been.                                                                   *)
Identified ==
  \A c \in Coordinators :
    /\ pc[c] \in Armed \cup Launched <=> id[c] # 0
    /\ id[c] <= boot

(* What the instance at work has read is what the state file says.         *)
Current ==
  /\ \A c \in Coordinators : pc[c] = "ready" => seen[c] = latch
  /\ InFlightLatched

(* An instance whose boot_id is not that of this boot has lived through a  *)
(* reboot: no attempt in this boot but its own.  An unforced one with the  *)
(* right boot_id has not found it latched.                                 *)
Attempts ==
  \A c \in Coordinators :
    /\ (pc[c] \in Armed /\ id[c] # boot) => attempts = 0
    /\ (pc[c] \in Launched /\ id[c] # boot) => attempts <= 1
    /\ (pc[c] \in Armed /\ mode[c] # "retry" /\ clean) => attempts <= 1

IInv == /\ TypeOK
        /\ Exclusive
        /\ Identified
        /\ Current
        /\ Attempts
        /\ LatchRemembers
        /\ FewAttempts
------------------------------------------------------------------------------

(* No helper and no link changes what the coordinators know or count.      *)
LEMMA GuestStep ==
  ASSUME Next
  PROVE  \/ \E c \in Coordinators : Invoke(c) \/ Progress(c) \/ Kill(c)
         \/ UNCHANGED <<boot, hostVars>>
         \/ Reboot \/ Stop
  BY DEF Next, Guest, Acquire, GiveUp, Work, End, LinkFallsBack

(* What an instance leaves behind is well typed.                           *)
LEMMA LeaveType ==
  ASSUME TypeOK, NEW c \in Coordinators, Leave(c)
  PROVE  /\ lock' = NoOne
         /\ pc' \in [Coordinators -> Label]
         /\ mode' \in [Coordinators -> Mode]
         /\ seen' \in [Coordinators -> 0 .. Garbage]
         /\ id' \in [Coordinators -> 0 .. MaxBoot]
         /\ pending' \in [Coordinators -> SUBSET GPUs]
         /\ mine' \in [Coordinators -> 0 .. MaxCalls]
         /\ call' \in [Slots -> [st : CallState, targets : SUBSET GPUs]]
         /\ UNCHANGED <<vm, boot, contractVars>>
  <1> USE BoundAssumption DEF TypeOK, Leave, Boots, Garbage
  <1>1. /\ pc' \in [Coordinators -> Label]
        /\ mode' \in [Coordinators -> Mode]
    BY DEF Label, Mode
  <1>2. /\ seen' \in [Coordinators -> 0 .. Garbage]
        /\ id' \in [Coordinators -> 0 .. MaxBoot]
        /\ mine' \in [Coordinators -> 0 .. MaxCalls]
    OBVIOUS
  <1>3. pending' \in [Coordinators -> SUBSET GPUs]
    OBVIOUS
  <1>4. Free \in [st : CallState, targets : SUBSET GPUs]
    BY DEF Free, CallState
  <1>5. call' \in [Slots -> [st : CallState, targets : SUBSET GPUs]]
    BY <1>4 DEF Forget
  <1>6. QED
    BY <1>1, <1>2, <1>3, <1>5

(* Types: one step per action.                                             *)
LEMMA TypeStep ==
  ASSUME TypeOK, Next
  PROVE  TypeOK'
  <1> USE BoundAssumption, TimerAssumption DEF TypeOK, ContractTypeOK, Boots,
  Garbage, Slots, Mode, Label, CallState, Free, Verdict, AttemptCap, BootUnit,
  guestVars, localVars, pastVars, hostVars, contractVars, Goto
  <1>1. ASSUME NEW c \in Coordinators, Invoke(c)
        PROVE  TypeOK'
    BY <1>1 DEF Invoke
  <1>2. ASSUME NEW c \in Coordinators, CheckVM(c)
        PROVE  TypeOK'
    <2>1. CASE Leave(c)
      BY <1>2, <2>1, LeaveType DEF CheckVM
    <2>2. CASE ~Leave(c)
      BY <1>2, <2>2 DEF CheckVM
    <2>3. QED
      BY <2>1, <2>2
  <1>3. ASSUME NEW c \in Coordinators, Inventory(c)
        PROVE  TypeOK'
    <2>1. CASE Leave(c)
      BY <1>3, <2>1, LeaveType DEF Inventory
    <2>2. CASE /\ seen' = [seen EXCEPT ![c] = latch] /\ Goto(c, "ready")
               /\ UNCHANGED <<guestVars, lock, latch, mode, id, pending, mine, pastVars>>
      <3>1. seen' \in [Coordinators -> 0 .. Garbage]
        BY <2>2
      <3>2. pc' \in [Coordinators -> Label]
        BY <2>2
      <3>3. QED
        BY <2>2, <3>1, <3>2
    <2>3. QED
      BY <1>3, <2>1, <2>2 DEF Inventory
  <1>4. ASSUME NEW c \in Coordinators, ReadBootId(c)
        PROVE  TypeOK'
    <2>1. CASE Leave(c)
      BY <1>4, <2>1, LeaveType DEF ReadBootId
    <2>2. CASE /\ id' = [id EXCEPT ![c] = boot] /\ Goto(c, "record")
               /\ UNCHANGED <<guestVars, lock, latch, mode, seen, pending, mine, pastVars>>
      <3>1. id' \in [Coordinators -> 0 .. MaxBoot]
        BY <2>2
      <3>2. pc' \in [Coordinators -> Label]
        BY <2>2
      <3>3. QED
        BY <2>2, <3>1, <3>2
    <2>3. QED
      BY <1>4, <2>1, <2>2 DEF ReadBootId
  <1>5. ASSUME NEW c \in Coordinators, ReadGarbage(c)
        PROVE  TypeOK'
    <2>1. /\ latch' \in 0 .. Garbage
          /\ attempts' = attempts /\ clean' = FALSE
      BY <1>5 DEF ReadGarbage
    <2>2. Leave(c)
      BY <1>5 DEF ReadGarbage
    <2>3. QED
      BY <2>1, <2>2, LeaveType
  <1>6. ASSUME NEW c \in Coordinators, Record(c)
        PROVE  TypeOK'
    BY <1>6 DEF Record
  <1>7. ASSUME NEW c \in Coordinators, StartTensor(c)
        PROVE  TypeOK'
    BY <1>7 DEF StartTensor
  <1>8. ASSUME NEW c \in Coordinators, SelectPending(c)
        PROVE  TypeOK'
    BY <1>8 DEF SelectPending
  <1>9. ASSUME NEW c \in Coordinators, Launch(c)
        PROVE  TypeOK'
    BY <1>9 DEF Launch, Count
  <1>10. ASSUME NEW c \in Coordinators, Answer(c)
         PROVE  TypeOK'
    BY <1>10 DEF Answer, Forget
  <1>11. ASSUME NEW c \in Coordinators, Verify(c)
         PROVE  TypeOK'
    BY <1>11 DEF Verify, Leave, Forget
  <1>12. ASSUME NEW c \in Coordinators, Raise(c)
         PROVE  TypeOK'
    BY <1>12 DEF Raise, Leave, Forget
  <1>13. ASSUME NEW c \in Coordinators, Kill(c)
         PROVE  TypeOK'
    BY <1>13 DEF Kill, Leave, Forget
  <1>14. ASSUME NEW s \in Slots, Acquire(s)
         PROVE  TypeOK'
    BY <1>14 DEF Acquire, Begin
  <1>15. ASSUME NEW s \in Slots, GiveUp(s)
         PROVE  TypeOK'
    BY <1>15 DEF GiveUp, EndCall
  <1>16. ASSUME NEW s \in Slots, Work(s)
         PROVE  TypeOK'
    BY <1>16 DEF Work, Retrain
  <1>17. ASSUME NEW s \in Slots, End(s)
         PROVE  TypeOK'
    <2>1. ContractTypeOK' /\ UNCHANGED <<vm, boot, hostVars>>
      BY <1>17 DEF End, Finish
    <2>2. call' \in [Slots -> [st : CallState, targets : SUBSET GPUs]]
      <3>1. \A st \in {"passed", "failed"} :
              [call[s] EXCEPT !.st = st] \in [st : CallState, targets : SUBSET GPUs]
        OBVIOUS
      <3>2. Free \in [st : CallState, targets : SUBSET GPUs]
        OBVIOUS
      <3>3. QED
        BY <1>17, <3>1, <3>2 DEF End, EndCall
    <2>3. QED
      BY <2>1, <2>2
  <1>18. ASSUME LinkFallsBack
         PROVE  TypeOK'
    BY <1>18 DEF LinkFallsBack, FallBack
  <1>19. ASSUME Reboot
         PROVE  TypeOK'
    BY <1>19 DEF Reboot, BootGuest, Reset
  <1>20. ASSUME Stop
         PROVE  TypeOK'
    BY <1>20 DEF Stop, BootGuest, Reset
  <1>21. QED
    BY <1>1, <1>2, <1>3, <1>4, <1>5, <1>6, <1>7, <1>8, <1>9, <1>10, <1>11,
    <1>12, <1>13, <1>14, <1>15, <1>16, <1>17, <1>18, <1>19, <1>20 DEF Next,
    Progress, Guest

(* The host flock.                                                         *)
LEMMA ExclusiveStep ==
  ASSUME TypeOK, Exclusive, Next
  PROVE  Exclusive'
  <1> USE TimerAssumption DEF TypeOK, Exclusive, Label, guestVars, localVars,
  pastVars, hostVars, contractVars, Goto
  <1>1. ASSUME NEW c \in Coordinators, Invoke(c)
        PROVE  Exclusive'
    BY <1>1 DEF Invoke
  <1>2. ASSUME NEW c \in Coordinators, CheckVM(c)
        PROVE  Exclusive'
    BY <1>2 DEF CheckVM, Leave, Forget
  <1>3. ASSUME NEW c \in Coordinators, Inventory(c)
        PROVE  Exclusive'
    BY <1>3 DEF Inventory, Leave, Forget
  <1>4. ASSUME NEW c \in Coordinators, ReadBootId(c)
        PROVE  Exclusive'
    BY <1>4 DEF ReadBootId, Leave, Forget
  <1>5. ASSUME NEW c \in Coordinators, ReadGarbage(c)
        PROVE  Exclusive'
    BY <1>5 DEF ReadGarbage, Leave, Forget
  <1>6. ASSUME NEW c \in Coordinators, Record(c)
        PROVE  Exclusive'
    BY <1>6 DEF Record
  <1>7. ASSUME NEW c \in Coordinators, StartTensor(c)
        PROVE  Exclusive'
    BY <1>7 DEF StartTensor
  <1>8. ASSUME NEW c \in Coordinators, SelectPending(c)
        PROVE  Exclusive'
    BY <1>8 DEF SelectPending
  <1>9. ASSUME NEW c \in Coordinators, Launch(c)
        PROVE  Exclusive'
    BY <1>9 DEF Launch, Count
  <1>10. ASSUME NEW c \in Coordinators, Answer(c)
         PROVE  Exclusive'
    BY <1>10 DEF Answer, Forget
  <1>11. ASSUME NEW c \in Coordinators, Verify(c)
         PROVE  Exclusive'
    BY <1>11 DEF Verify, Leave, Forget
  <1>12. ASSUME NEW c \in Coordinators, Raise(c)
         PROVE  Exclusive'
    BY <1>12 DEF Raise, Leave, Forget
  <1>13. ASSUME NEW c \in Coordinators, Kill(c)
         PROVE  Exclusive'
    BY <1>13 DEF Kill, Leave, Forget
  <1>14. ASSUME UNCHANGED <<boot, hostVars>>
         PROVE  Exclusive'
    BY <1>14 DEF hostVars, localVars, pastVars
  <1>15. ASSUME Reboot
         PROVE  Exclusive'
    BY <1>15 DEF Reboot, BootGuest, Reset
  <1>16. ASSUME Stop
         PROVE  Exclusive'
    BY <1>16 DEF Stop, BootGuest, Reset
  <1>17. QED
    BY GuestStep, <1>1, <1>2, <1>3, <1>4, <1>5, <1>6, <1>7, <1>8, <1>9, <1>10,
    <1>11, <1>12, <1>13, <1>14, <1>15, <1>16 DEF Progress

(* The boot_id of each instance.                                           *)
LEMMA IdentifiedStep ==
  ASSUME TypeOK, Identified, Next
  PROVE  Identified'
  <1> USE BoundAssumption DEF TypeOK, Identified, Armed, Launched, Label, Boots,
  guestVars, localVars, pastVars, hostVars, contractVars, Goto
  <1>1. ASSUME NEW c \in Coordinators, Invoke(c)
        PROVE  Identified'
    BY <1>1 DEF Invoke
  <1>2. ASSUME NEW c \in Coordinators, CheckVM(c)
        PROVE  Identified'
    BY <1>2 DEF CheckVM, Leave, Forget
  <1>3. ASSUME NEW c \in Coordinators, Inventory(c)
        PROVE  Identified'
    BY <1>3 DEF Inventory, Leave, Forget
  <1>4. ASSUME NEW c \in Coordinators, ReadBootId(c)
        PROVE  Identified'
    BY <1>4 DEF ReadBootId, Leave, Forget
  <1>5. ASSUME NEW c \in Coordinators, ReadGarbage(c)
        PROVE  Identified'
    BY <1>5 DEF ReadGarbage, Leave, Forget
  <1>6. ASSUME NEW c \in Coordinators, Record(c)
        PROVE  Identified'
    BY <1>6 DEF Record
  <1>7. ASSUME NEW c \in Coordinators, StartTensor(c)
        PROVE  Identified'
    BY <1>7 DEF StartTensor
  <1>8. ASSUME NEW c \in Coordinators, SelectPending(c)
        PROVE  Identified'
    BY <1>8 DEF SelectPending
  <1>9. ASSUME NEW c \in Coordinators, Launch(c)
        PROVE  Identified'
    BY <1>9 DEF Launch, Count
  <1>10. ASSUME NEW c \in Coordinators, Answer(c)
         PROVE  Identified'
    BY <1>10 DEF Answer, Forget
  <1>11. ASSUME NEW c \in Coordinators, Verify(c)
         PROVE  Identified'
    BY <1>11 DEF Verify, Leave, Forget
  <1>12. ASSUME NEW c \in Coordinators, Raise(c)
         PROVE  Identified'
    BY <1>12 DEF Raise, Leave, Forget
  <1>13. ASSUME NEW c \in Coordinators, Kill(c)
         PROVE  Identified'
    BY <1>13 DEF Kill, Leave, Forget
  <1>14. ASSUME UNCHANGED <<boot, hostVars>>
         PROVE  Identified'
    BY <1>14 DEF hostVars, localVars, pastVars
  <1>15. ASSUME Reboot
         PROVE  Identified'
    BY <1>15 DEF Reboot, BootGuest, Reset
  <1>16. ASSUME Stop
         PROVE  Identified'
    BY <1>16 DEF Stop, BootGuest, Reset
  <1>17. QED
    BY GuestStep, <1>1, <1>2, <1>3, <1>4, <1>5, <1>6, <1>7, <1>8, <1>9, <1>10,
    <1>11, <1>12, <1>13, <1>14, <1>15, <1>16 DEF Progress

(* What the instance at work knows of the state file.                      *)
LEMMA CurrentStep ==
  ASSUME TypeOK, Exclusive, Current, Next
  PROVE  Current'
  <1> USE DEF TypeOK, Exclusive, Current, InFlightLatched, Label, guestVars,
  localVars, pastVars, hostVars, contractVars, Goto
  <1>1. ASSUME NEW c \in Coordinators, Invoke(c)
        PROVE  Current'
    BY <1>1 DEF Invoke
  <1>2. ASSUME NEW c \in Coordinators, CheckVM(c)
        PROVE  Current'
    BY <1>2 DEF CheckVM, Leave, Forget
  <1>3. ASSUME NEW c \in Coordinators, Inventory(c)
        PROVE  Current'
    BY <1>3 DEF Inventory, Leave, Forget
  <1>4. ASSUME NEW c \in Coordinators, ReadBootId(c)
        PROVE  Current'
    BY <1>4 DEF ReadBootId, Leave, Forget
  <1>5. ASSUME NEW c \in Coordinators, ReadGarbage(c)
        PROVE  Current'
    BY <1>5 DEF ReadGarbage, Leave, Forget
  <1>6. ASSUME NEW c \in Coordinators, Record(c)
        PROVE  Current'
    BY <1>6 DEF Record
  <1>7. ASSUME NEW c \in Coordinators, StartTensor(c)
        PROVE  Current'
    BY <1>7 DEF StartTensor
  <1>8. ASSUME NEW c \in Coordinators, SelectPending(c)
        PROVE  Current'
    BY <1>8 DEF SelectPending
  <1>9. ASSUME NEW c \in Coordinators, Launch(c)
        PROVE  Current'
    BY <1>9 DEF Launch, Count
  <1>10. ASSUME NEW c \in Coordinators, Answer(c)
         PROVE  Current'
    BY <1>10 DEF Answer, Forget
  <1>11. ASSUME NEW c \in Coordinators, Verify(c)
         PROVE  Current'
    BY <1>11 DEF Verify, Leave, Forget
  <1>12. ASSUME NEW c \in Coordinators, Raise(c)
         PROVE  Current'
    BY <1>12 DEF Raise, Leave, Forget
  <1>13. ASSUME NEW c \in Coordinators, Kill(c)
         PROVE  Current'
    BY <1>13 DEF Kill, Leave, Forget
  <1>14. ASSUME UNCHANGED <<boot, hostVars>>
         PROVE  Current'
    BY <1>14 DEF hostVars, localVars, pastVars
  <1>15. ASSUME Reboot
         PROVE  Current'
    BY <1>15 DEF Reboot, BootGuest, Reset
  <1>16. ASSUME Stop
         PROVE  Current'
    BY <1>16 DEF Stop, BootGuest, Reset
  <1>17. QED
    BY GuestStep, <1>1, <1>2, <1>3, <1>4, <1>5, <1>6, <1>7, <1>8, <1>9, <1>10,
    <1>11, <1>12, <1>13, <1>14, <1>15, <1>16 DEF Progress

(* The count of attempts.                                                  *)
LEMMA AttemptsStep ==
  ASSUME TypeOK, Exclusive, Identified, Current, Attempts, LatchRemembers,
  FewAttempts, Next
  PROVE  Attempts'
  <1> USE BoundAssumption DEF TypeOK, Exclusive, Identified, Current, Attempts,
  LatchRemembers, Armed, Launched, AttemptCap, Label, Boots, guestVars,
  localVars, pastVars, hostVars, contractVars, Goto
  <1>1. ASSUME NEW c \in Coordinators, Invoke(c)
        PROVE  Attempts'
    BY <1>1 DEF Invoke
  <1>2. ASSUME NEW c \in Coordinators, CheckVM(c)
        PROVE  Attempts'
    BY <1>2 DEF CheckVM, Leave, Forget
  <1>3. ASSUME NEW c \in Coordinators, Inventory(c)
        PROVE  Attempts'
    BY <1>3 DEF Inventory, Leave, Forget
  <1>4. ASSUME NEW c \in Coordinators, ReadBootId(c)
        PROVE  Attempts'
    BY <1>4 DEF ReadBootId, Leave, Forget
  <1>5. ASSUME NEW c \in Coordinators, ReadGarbage(c)
        PROVE  Attempts'
    BY <1>5 DEF ReadGarbage, Leave, Forget
  <1>6. ASSUME NEW c \in Coordinators, Record(c)
        PROVE  Attempts'
    BY <1>6 DEF Record
  <1>7. ASSUME NEW c \in Coordinators, StartTensor(c)
        PROVE  Attempts'
    BY <1>7 DEF StartTensor
  <1>8. ASSUME NEW c \in Coordinators, SelectPending(c)
        PROVE  Attempts'
    BY <1>8 DEF SelectPending
  <1>9. ASSUME NEW c \in Coordinators, Launch(c)
        PROVE  Attempts'
    BY <1>9 DEF Launch, Count
  <1>10. ASSUME NEW c \in Coordinators, Answer(c)
         PROVE  Attempts'
    BY <1>10 DEF Answer, Forget
  <1>11. ASSUME NEW c \in Coordinators, Verify(c)
         PROVE  Attempts'
    BY <1>11 DEF Verify, Leave, Forget
  <1>12. ASSUME NEW c \in Coordinators, Raise(c)
         PROVE  Attempts'
    BY <1>12 DEF Raise, Leave, Forget
  <1>13. ASSUME NEW c \in Coordinators, Kill(c)
         PROVE  Attempts'
    BY <1>13 DEF Kill, Leave, Forget
  <1>14. ASSUME UNCHANGED <<boot, hostVars>>
         PROVE  Attempts'
    BY <1>14 DEF hostVars, localVars, pastVars
  <1>15. ASSUME Reboot
         PROVE  Attempts'
    BY <1>15 DEF Reboot, BootGuest, Reset
  <1>16. ASSUME Stop
         PROVE  Attempts'
    BY <1>16 DEF Stop, BootGuest, Reset
  <1>17. QED
    BY GuestStep, <1>1, <1>2, <1>3, <1>4, <1>5, <1>6, <1>7, <1>8, <1>9, <1>10,
    <1>11, <1>12, <1>13, <1>14, <1>15, <1>16 DEF Progress

(* The state file against the count of attempts.                           *)
LEMMA RecordStep ==
  ASSUME TypeOK, Exclusive, Identified, Current, Attempts, LatchRemembers,
  FewAttempts, Next
  PROVE  LatchRemembers' /\ FewAttempts'
  <1> USE BoundAssumption DEF TypeOK, Exclusive, Identified, Current,
  InFlightLatched, Attempts, LatchRemembers, FewAttempts, Armed, Launched,
  AttemptCap, Label, Boots, guestVars, localVars, pastVars, hostVars,
  contractVars, Goto
  <1>1. ASSUME NEW c \in Coordinators, Invoke(c)
        PROVE  LatchRemembers' /\ FewAttempts'
    BY <1>1 DEF Invoke
  <1>2. ASSUME NEW c \in Coordinators, CheckVM(c)
        PROVE  LatchRemembers' /\ FewAttempts'
    BY <1>2 DEF CheckVM, Leave, Forget
  <1>3. ASSUME NEW c \in Coordinators, Inventory(c)
        PROVE  LatchRemembers' /\ FewAttempts'
    BY <1>3 DEF Inventory, Leave, Forget
  <1>4. ASSUME NEW c \in Coordinators, ReadBootId(c)
        PROVE  LatchRemembers' /\ FewAttempts'
    BY <1>4 DEF ReadBootId, Leave, Forget
  <1>5. ASSUME NEW c \in Coordinators, ReadGarbage(c)
        PROVE  LatchRemembers' /\ FewAttempts'
    BY <1>5 DEF ReadGarbage, Leave, Forget
  <1>6. ASSUME NEW c \in Coordinators, Record(c)
        PROVE  LatchRemembers' /\ FewAttempts'
    BY <1>6 DEF Record
  <1>7. ASSUME NEW c \in Coordinators, StartTensor(c)
        PROVE  LatchRemembers' /\ FewAttempts'
    BY <1>7 DEF StartTensor
  <1>8. ASSUME NEW c \in Coordinators, SelectPending(c)
        PROVE  LatchRemembers' /\ FewAttempts'
    BY <1>8 DEF SelectPending
  <1>9. ASSUME NEW c \in Coordinators, Launch(c)
        PROVE  LatchRemembers' /\ FewAttempts'
    BY <1>9 DEF Launch, Count
  <1>10. ASSUME NEW c \in Coordinators, Answer(c)
         PROVE  LatchRemembers' /\ FewAttempts'
    BY <1>10 DEF Answer, Forget
  <1>11. ASSUME NEW c \in Coordinators, Verify(c)
         PROVE  LatchRemembers' /\ FewAttempts'
    BY <1>11 DEF Verify, Leave, Forget
  <1>12. ASSUME NEW c \in Coordinators, Raise(c)
         PROVE  LatchRemembers' /\ FewAttempts'
    BY <1>12 DEF Raise, Leave, Forget
  <1>13. ASSUME NEW c \in Coordinators, Kill(c)
         PROVE  LatchRemembers' /\ FewAttempts'
    BY <1>13 DEF Kill, Leave, Forget
  <1>14. ASSUME UNCHANGED <<boot, hostVars>>
         PROVE  LatchRemembers' /\ FewAttempts'
    BY <1>14 DEF hostVars, localVars, pastVars
  <1>15. ASSUME Reboot
         PROVE  LatchRemembers' /\ FewAttempts'
    BY <1>15 DEF Reboot, BootGuest, Reset
  <1>16. ASSUME Stop
         PROVE  LatchRemembers' /\ FewAttempts'
    BY <1>16 DEF Stop, BootGuest, Reset
  <1>17. QED
    BY GuestStep, <1>1, <1>2, <1>3, <1>4, <1>5, <1>6, <1>7, <1>8, <1>9, <1>10,
    <1>11, <1>12, <1>13, <1>14, <1>15, <1>16 DEF Progress

------------------------------------------------------------------------------

(* The initial state: a booted guest, no state file, no coordinator.       *)
LEMMA InitIInv == Init => IInv
  <1> SUFFICES ASSUME Init PROVE IInv
    OBVIOUS
  <1> USE BoundAssumption, TimerAssumption DEF Init, ContractInit
  <1>1. call \in [Slots -> [st : CallState, targets : SUBSET GPUs]]
    <2>1. /\ Free \in [st : CallState, targets : SUBSET GPUs]
          /\ [st |-> "waiting", targets |-> GPUs]
               \in [st : CallState, targets : SUBSET GPUs]
      BY DEF Free, CallState
    <2>2. QED
      BY <2>1 DEF BootUnit
  <1>2. TypeOK
    BY <1>1 DEF TypeOK, ContractTypeOK, Boots, Garbage, Label, Mode, AttemptCap
  <1>3. Exclusive /\ Identified /\ Current
    BY DEF Exclusive, Identified, Armed, Launched, Current, InFlightLatched
  <1>4. Attempts /\ LatchRemembers /\ FewAttempts
    BY DEF Attempts, Armed, Launched, LatchRemembers, FewAttempts
  <1>5. QED
    BY <1>2, <1>3, <1>4 DEF IInv

(* Every step preserves the invariant.                                     *)
LEMMA NextIInv == IInv /\ [Next]_vars => IInv'
  <1>1. CASE Next
    BY <1>1, TypeStep, ExclusiveStep, IdentifiedStep, CurrentStep, AttemptsStep,
       RecordStep DEF IInv
  <1>2. CASE UNCHANGED vars
    BY <1>2 DEF vars, guestVars, hostVars, localVars, pastVars, contractVars,
       IInv, TypeOK, ContractTypeOK, Exclusive, Identified, Current,
       InFlightLatched, Attempts, LatchRemembers, FewAttempts
  <1>3. QED
    BY <1>1, <1>2

(* The invariant holds in every reachable state.                           *)
THEOREM Invariance == Spec => []IInv
  BY InitIInv, NextIInv, PTL DEF Spec

(* Every reachable state is well typed (TypeOK).                           *)
THEOREM Typing == Spec => []TypeOK
  <1>1. IInv => TypeOK
    BY DEF IInv
  <1>2. QED
    BY <1>1, Invariance, PTL

(* The state file remembers every unforced attempt until a PASS, through   *)
(* errors, kills and reboots (LatchRemembers).                             *)
THEOREM Memory == Spec => []LatchRemembers
  <1>1. IInv => LatchRemembers
    BY DEF IInv
  <1>2. QED
    BY <1>1, Invariance, PTL

(* However many coordinators and boots there are, no guest boot sees more  *)
(* than two unforced attempts without a PASS (FewAttempts).                *)
THEOREM Restraint == Spec => []FewAttempts
  <1>1. IInv => FewAttempts
    BY DEF IInv
  <1>2. QED
    BY <1>1, Invariance, PTL

(* No other instance touches the state file of one in flight               *)
(* (InFlightLatched).                                                      *)
THEOREM Latching == Spec => []InFlightLatched
  <1>1. IInv => InFlightLatched
    BY DEF IInv, Current
  <1>2. QED
    BY <1>1, Invariance, PTL

(* At most one instance is past the host flock.                            *)
THEOREM MutualExclusion ==
  Spec => [](\A c, d \in Coordinators :
               pc[c] # "idle" /\ pc[d] # "idle" => c = d)
  <1>1. IInv => \A c, d \in Coordinators :
                  pc[c] # "idle" /\ pc[d] # "idle" => c = d
    BY DEF IInv, Exclusive
  <1>2. QED
    BY <1>1, Invariance, PTL

(* The only step that lifts a latch, while the agent answers with boot_ids, *)
(* is the verification of all links (LiftedByPass).                        *)
THEOREM Lifting == Spec => LiftedByPass
  <1>1. ASSUME IInv, Next, latch # 0, latch' = 0, clean'
        PROVE  Settled
    <2> USE DEF IInv, TypeOK, Identified, Armed
    <2>1. ASSUME NEW c \in Coordinators, Record(c)
          PROVE  FALSE
      BY <1>1, <2>1 DEF Record
    <2>2. ASSUME NEW c \in Coordinators, Raise(c)
          PROVE  FALSE
      BY <1>1, <2>2 DEF Raise
    <2>3. ASSUME NEW c \in Coordinators, ReadGarbage(c)
          PROVE  FALSE
      BY <1>1, <2>3 DEF ReadGarbage
    <2>4. ASSUME NEW c \in Coordinators, Verify(c)
          PROVE  Settled
      BY <2>4 DEF Verify
    <2>5. ASSUME UNCHANGED latch
          PROVE  FALSE
      BY <1>1, <2>5
    <2>6. CASE \E c \in Coordinators : Invoke(c) \/ Progress(c) \/ Kill(c)
      BY <2>1, <2>2, <2>3, <2>4, <2>5, <2>6 DEF Progress, Invoke, CheckVM,
         Inventory, ReadBootId, StartTensor, SelectPending, Launch, Answer, Kill
    <2>7. QED
      BY <1>1, <2>5, <2>6, GuestStep DEF hostVars, Reboot, Stop, BootGuest
  <1>2. QED
    BY <1>1, Invariance, PTL DEF Spec, LiftedByPass, vars, hostVars, pastVars

==============================================================================
