------------------------- MODULE HbmProfile_proofs -------------------------
(* Safety of the HBM boot profile for any number of GPUs and of runs. A run    *)
(* inside owns the directory unless another run has taken it (Holding), and   *)
(* every taking is on record (Robbing). Where nothing was taken only the run   *)
(* inside writes to a GPU: what it has verified stays true (Verified), what it *)
(* changed is in APPLIED when it fails (Recorded) and reset in the end        *)
(* (Undone).                                                                 *)
EXTENDS HbmProfile, TLAPS

Ending ==
  \A p \in Runs :
    /\ verdict[p] # "none" <=> pc[p] \in {"cleanup", "over"}
    /\ verdict[p] = "pass" => todo[p] = {}
    /\ verdict[p] # "killed" /\ pc[p] = "over" => todo[p] = {}

Entering ==
  \A p \in Runs :
    \/ p \in entered
    \/ pc[p] \notin Busy /\ todo[p] = {} /\ applied[p] = {} /\ owed[p] = {}

Holding ==
  /\ \A p \in Runs \ Robbed : Inside(p) => lock = p
  /\ Robbed = {} => \A p \in Runs : Inside(p) => last = p

Robbing ==
  /\ \A p \in entered : pc[p] \notin {"off", "lock"}
  /\ \A p \in Robbed : p \in entered /\ lock # p
  /\ \A p \in Robbed : pc[robber[p]] = "over"
  /\ \A p, q \in Robbed : robber[p] = robber[q] => p = q
  /\ Robbed # {} => \E p \in Robbed : robber[p] \notin entered

Verified ==
  Robbed = {} /\ driver = "steady" =>
    \A p \in Runs : last = p =>
      /\ \A g \in GPUs :
           \/ pc[p] = "verify" /\ g \notin todo[p]
           \/ pc[p] \in {"limits", "report"}
           \/ verdict[p] = "pass"
           => offset[g] = "hbm"
      /\ Watts /\ (pc[p] = "report" \/ verdict[p] = "pass") =>
           \A g \in GPUs : limit[g] = "watts"

Recorded ==
  /\ \A p \in Runs : verdict[p] \in {"none", "failed"} /\ pc[p] # "over" => \A g \in owed[p] :
       g \in applied[p] \/ (pc[p] = "mark" /\ g = cur[p])
  /\ ~Watts => \A g \in GPUs : limit[g] = "default"
  /\ \A p \in Runs : pc[p] = "tune" => Watts

Undone ==
  Robbed = {} =>
    \A p \in Runs : last = p /\ verdict[p] = "failed" =>
      \A g \in owed[p] \ todo[p] : offset[g] = "stock" /\ limit[g] = "default"

IInv == TypeOK /\ Ending /\ Entering /\ Holding /\ Robbing /\ Verified /\ Recorded /\ Undone

(* Every action keeps the types.                                            *)
LEMMA TypingStep == IInv /\ [Next]_vars => TypeOK'
  <1> SUFFICES ASSUME IInv, [Next]_vars PROVE TypeOK'
    OBVIOUS
  <1> USE DEF IInv, TypeOK, Busy, Locations, Verdicts
  <1>1. ASSUME NEW p \in Runs, Start(p) PROVE TypeOK'
    BY <1>1 DEF Start, Goto, Trap, Fail, gpus, history
  <1>2. ASSUME NEW p \in Runs, Lock(p) PROVE TypeOK'
    BY <1>2 DEF Lock, Goto, Trap, Fail, gpus, history
  <1>3. ASSUME NEW p \in Runs, Gate(p) PROVE TypeOK'
    BY <1>3 DEF Gate, Goto, Trap, Fail, gpus, history
  <1>4. ASSUME NEW p \in Runs, Apply(p) PROVE TypeOK'
    BY <1>4 DEF Apply, Goto, Trap, Fail, gpus, history
  <1>5. ASSUME NEW p \in Runs, Mark(p) PROVE TypeOK'
    BY <1>5 DEF Mark, Goto, gpus, history
  <1>6. ASSUME NEW p \in Runs, Tune(p) PROVE TypeOK'
    BY <1>6 DEF Tune, Goto, Trap, Fail, gpus, history
  <1>7. ASSUME NEW p \in Runs, Verify(p) PROVE TypeOK'
    BY <1>7 DEF Verify, Goto, Trap, Fail, gpus, history
  <1>8. ASSUME NEW p \in Runs, Limits(p) PROVE TypeOK'
    BY <1>8 DEF Limits, Goto, Trap, Fail, gpus, history
  <1>9. ASSUME NEW p \in Runs, Report(p) PROVE TypeOK'
    BY <1>9 DEF Report, Goto, gpus, history
  <1>10. ASSUME NEW p \in Runs, Reset(p) PROVE TypeOK'
    BY <1>10 DEF Reset, Goto, gpus, history
  <1>11. ASSUME NEW p \in Runs, Release(p) PROVE TypeOK'
    BY <1>11 DEF Release, Rob, Exit, Goto, gpus, history
  <1>12. ASSUME NEW p \in Runs, Signal(p) PROVE TypeOK'
    BY <1>12 DEF Signal, Goto, Trap, gpus, history
  <1>13. ASSUME NEW p \in Runs, Kill(p) PROVE TypeOK'
    BY <1>13 DEF Kill, Exit, Goto, gpus, history
  <1>14. CASE Reload
    BY <1>14 DEF Reload, history
  <1>15. CASE UNCHANGED vars
    BY <1>15 DEF vars
  <1>16. QED
    BY <1>1, <1>2, <1>3, <1>4, <1>5, <1>6, <1>7, <1>8, <1>9, <1>10, <1>11,
       <1>12, <1>13, <1>14, <1>15 DEF Next, Step

(* A verdict is there exactly from the trap on.                              *)
LEMMA EndingStep == IInv /\ [Next]_vars => Ending'
  <1> SUFFICES ASSUME IInv, [Next]_vars PROVE Ending'
    OBVIOUS
  <1> USE DEF IInv, TypeOK, Ending, Busy
  <1>1. ASSUME NEW p \in Runs, Start(p) PROVE Ending'
    BY <1>1 DEF Start, Goto, Trap, Fail, gpus, history
  <1>2. ASSUME NEW p \in Runs, Lock(p) PROVE Ending'
    BY <1>2 DEF Lock, Goto, Trap, Fail, gpus, history
  <1>3. ASSUME NEW p \in Runs, Gate(p) PROVE Ending'
    BY <1>3 DEF Gate, Goto, Trap, Fail, gpus, history
  <1>4. ASSUME NEW p \in Runs, Apply(p) PROVE Ending'
    BY <1>4 DEF Apply, Goto, Trap, Fail, gpus, history
  <1>5. ASSUME NEW p \in Runs, Mark(p) PROVE Ending'
    BY <1>5 DEF Mark, Goto, gpus, history
  <1>6. ASSUME NEW p \in Runs, Tune(p) PROVE Ending'
    BY <1>6 DEF Tune, Goto, Trap, Fail, gpus, history
  <1>7. ASSUME NEW p \in Runs, Verify(p) PROVE Ending'
    BY <1>7 DEF Verify, Goto, Trap, Fail, gpus, history
  <1>8. ASSUME NEW p \in Runs, Limits(p) PROVE Ending'
    BY <1>8 DEF Limits, Goto, Trap, Fail, gpus, history
  <1>9. ASSUME NEW p \in Runs, Report(p) PROVE Ending'
    BY <1>9 DEF Report, Goto, gpus, history
  <1>10. ASSUME NEW p \in Runs, Reset(p) PROVE Ending'
    BY <1>10 DEF Reset, Goto, gpus, history
  <1>11. ASSUME NEW p \in Runs, Release(p) PROVE Ending'
    BY <1>11 DEF Release, Rob, Exit, Goto, gpus, history
  <1>12. ASSUME NEW p \in Runs, Signal(p) PROVE Ending'
    BY <1>12 DEF Signal, Goto, Trap, gpus, history
  <1>13. ASSUME NEW p \in Runs, Kill(p) PROVE Ending'
    BY <1>13 DEF Kill, Exit, Goto, gpus, history
  <1>14. CASE Reload
    BY <1>14 DEF Reload, history
  <1>15. CASE UNCHANGED vars
    BY <1>15 DEF vars
  <1>16. QED
    BY <1>1, <1>2, <1>3, <1>4, <1>5, <1>6, <1>7, <1>8, <1>9, <1>10, <1>11,
       <1>12, <1>13, <1>14, <1>15 DEF Next, Step

(* Only a run that has made the directory goes on to the GPUs.                *)
LEMMA EnteringStep == IInv /\ [Next]_vars => Entering'
  <1> SUFFICES ASSUME IInv, [Next]_vars PROVE Entering'
    OBVIOUS
  <1> USE DEF IInv, TypeOK, Entering, Busy
  <1>1. ASSUME NEW p \in Runs, Start(p) PROVE Entering'
    BY <1>1 DEF Start, Goto, Trap, Fail, gpus, history
  <1>2. ASSUME NEW p \in Runs, Lock(p) PROVE Entering'
    BY <1>2 DEF Lock, Goto, Trap, Fail, gpus, history
  <1>3. ASSUME NEW p \in Runs, Gate(p) PROVE Entering'
    BY <1>3 DEF Gate, Goto, Trap, Fail, gpus, history
  <1>4. ASSUME NEW p \in Runs, Apply(p) PROVE Entering'
    BY <1>4 DEF Apply, Goto, Trap, Fail, gpus, history
  <1>5. ASSUME NEW p \in Runs, Mark(p) PROVE Entering'
    BY <1>5 DEF Mark, Goto, gpus, history
  <1>6. ASSUME NEW p \in Runs, Tune(p) PROVE Entering'
    BY <1>6 DEF Tune, Goto, Trap, Fail, gpus, history
  <1>7. ASSUME NEW p \in Runs, Verify(p) PROVE Entering'
    BY <1>7 DEF Verify, Goto, Trap, Fail, gpus, history
  <1>8. ASSUME NEW p \in Runs, Limits(p) PROVE Entering'
    BY <1>8 DEF Limits, Goto, Trap, Fail, gpus, history
  <1>9. ASSUME NEW p \in Runs, Report(p) PROVE Entering'
    BY <1>9 DEF Report, Goto, gpus, history
  <1>10. ASSUME NEW p \in Runs, Reset(p) PROVE Entering'
    BY <1>10 DEF Reset, Goto, gpus, history
  <1>11. ASSUME NEW p \in Runs, Release(p) PROVE Entering'
    BY <1>11 DEF Release, Rob, Exit, Goto, gpus, history
  <1>12. ASSUME NEW p \in Runs, Signal(p) PROVE Entering'
    BY <1>12 DEF Signal, Goto, Trap, gpus, history
  <1>13. ASSUME NEW p \in Runs, Kill(p) PROVE Entering'
    BY <1>13 DEF Kill, Exit, Goto, gpus, history
  <1>14. CASE Reload
    BY <1>14 DEF Reload, history
  <1>15. CASE UNCHANGED vars
    BY <1>15 DEF vars
  <1>16. QED
    BY <1>1, <1>2, <1>3, <1>4, <1>5, <1>6, <1>7, <1>8, <1>9, <1>10, <1>11,
       <1>12, <1>13, <1>14, <1>15 DEF Next, Step

(* A directory that was taken stays taken.                                    *)
LEMMA TakenStays ==
  ASSUME TypeOK, NEW p \in Runs, Release(p)
  PROVE  Robbed \subseteq Robbed'
  BY RunsAssumption DEF TypeOK, Release, Rob, Robbed

(* mkdir and rmdir are the only steps that matter to the directory.            *)
LEMMA HoldingStep == IInv /\ [Next]_vars => Holding'
  <1> SUFFICES ASSUME IInv, [Next]_vars PROVE Holding'
    OBVIOUS
  <1> USE DEF IInv, TypeOK, Holding, Inside, Robbed, Busy
  <1>1. ASSUME NEW p \in Runs, Start(p) PROVE Holding'
    BY <1>1, RunsAssumption DEF Start, Goto, Trap, Fail, gpus, history
  <1>2. ASSUME NEW p \in Runs, Lock(p) PROVE Holding'
    BY <1>2, RunsAssumption DEF Lock, Goto, Trap, Fail, gpus, history
  <1>3. ASSUME NEW p \in Runs, Gate(p) PROVE Holding'
    BY <1>3, RunsAssumption DEF Gate, Goto, Trap, Fail, gpus, history
  <1>4. ASSUME NEW p \in Runs, Apply(p) PROVE Holding'
    BY <1>4, RunsAssumption DEF Apply, Goto, Trap, Fail, gpus, history
  <1>5. ASSUME NEW p \in Runs, Mark(p) PROVE Holding'
    BY <1>5, RunsAssumption DEF Mark, Goto, gpus, history
  <1>6. ASSUME NEW p \in Runs, Tune(p) PROVE Holding'
    BY <1>6, RunsAssumption DEF Tune, Goto, Trap, Fail, gpus, history
  <1>7. ASSUME NEW p \in Runs, Verify(p) PROVE Holding'
    BY <1>7, RunsAssumption DEF Verify, Goto, Trap, Fail, gpus, history
  <1>8. ASSUME NEW p \in Runs, Limits(p) PROVE Holding'
    BY <1>8, RunsAssumption DEF Limits, Goto, Trap, Fail, gpus, history
  <1>9. ASSUME NEW p \in Runs, Report(p) PROVE Holding'
    BY <1>9, RunsAssumption DEF Report, Goto, gpus, history
  <1>10. ASSUME NEW p \in Runs, Reset(p) PROVE Holding'
    BY <1>10, RunsAssumption DEF Reset, Goto, gpus, history
  <1>11. ASSUME NEW p \in Runs, Release(p) PROVE Holding'
    BY <1>11, RunsAssumption DEF Release, Rob, Exit, Goto, gpus, history
  <1>12. ASSUME NEW p \in Runs, Signal(p) PROVE Holding'
    BY <1>12, RunsAssumption DEF Signal, Goto, Trap, gpus, history
  <1>13. ASSUME NEW p \in Runs, Kill(p) PROVE Holding'
    BY <1>13, RunsAssumption DEF Kill, Exit, Goto, gpus, history
  <1>14. CASE Reload
    BY <1>14 DEF Reload, history
  <1>15. CASE UNCHANGED vars
    BY <1>15 DEF vars
  <1>16. QED
    BY <1>1, <1>2, <1>3, <1>4, <1>5, <1>6, <1>7, <1>8, <1>9, <1>10, <1>11,
       <1>12, <1>13, <1>14, <1>15 DEF Next, Step

(* A run takes the directory of another with its last step.                   *)
LEMMA RobbingStep == IInv /\ [Next]_vars => Robbing'
  <1> SUFFICES ASSUME IInv, [Next]_vars PROVE Robbing'
    OBVIOUS
  <1> USE DEF IInv, TypeOK, Entering, Holding, Robbing, Inside, Robbed, Busy
  <1>1. ASSUME NEW p \in Runs, Start(p) PROVE Robbing'
    BY <1>1, RunsAssumption DEF Start, Goto, Trap, Fail, gpus, history
  <1>2. ASSUME NEW p \in Runs, Lock(p) PROVE Robbing'
    BY <1>2, RunsAssumption DEF Lock, Goto, Trap, Fail, gpus, history
  <1>3. ASSUME NEW p \in Runs, Gate(p) PROVE Robbing'
    BY <1>3, RunsAssumption DEF Gate, Goto, Trap, Fail, gpus, history
  <1>4. ASSUME NEW p \in Runs, Apply(p) PROVE Robbing'
    BY <1>4, RunsAssumption DEF Apply, Goto, Trap, Fail, gpus, history
  <1>5. ASSUME NEW p \in Runs, Mark(p) PROVE Robbing'
    BY <1>5, RunsAssumption DEF Mark, Goto, gpus, history
  <1>6. ASSUME NEW p \in Runs, Tune(p) PROVE Robbing'
    BY <1>6, RunsAssumption DEF Tune, Goto, Trap, Fail, gpus, history
  <1>7. ASSUME NEW p \in Runs, Verify(p) PROVE Robbing'
    BY <1>7, RunsAssumption DEF Verify, Goto, Trap, Fail, gpus, history
  <1>8. ASSUME NEW p \in Runs, Limits(p) PROVE Robbing'
    BY <1>8, RunsAssumption DEF Limits, Goto, Trap, Fail, gpus, history
  <1>9. ASSUME NEW p \in Runs, Report(p) PROVE Robbing'
    BY <1>9, RunsAssumption DEF Report, Goto, gpus, history
  <1>10. ASSUME NEW p \in Runs, Reset(p) PROVE Robbing'
    BY <1>10, RunsAssumption DEF Reset, Goto, gpus, history
  <1>11. ASSUME NEW p \in Runs, Release(p) PROVE Robbing'
    <2> USE RunsAssumption
    <2>1. pc[p] = "cleanup" /\ pc' = [pc EXCEPT ![p] = "over"] /\ entered' = entered
      BY <1>11 DEF Release, Exit, Goto
    <2>2. ASSUME NEW q \in Robbed' PROVE
            \/ q \in Robbed /\ robber'[q] = robber[q]
            \/ robber'[q] = p /\ q # p /\ lock = q /\ Inside(q)
      BY <1>11 DEF Release, Rob
    <2>3. ASSUME NEW q \in Robbed PROVE robber[q] # p
      BY <2>1
    <2>4. \A q \in Robbed' : pc'[robber'[q]] = "over" /\ q \in entered' /\ lock' # q
      BY <2>1, <2>2, <1>11 DEF Release
    <2>8. \A q \in entered' : pc'[q] \notin {"off", "lock"}
      BY <2>1
    <2>5. \A q, r \in Robbed' : robber'[q] = robber'[r] => q = r
      BY <2>2, <2>3
    <2>6. Robbed' # {} => \E q \in Robbed' : robber'[q] \notin entered'
      <3>1. CASE Robbed = {}
        BY <3>1, <2>1, <2>2
      <3>2. CASE Robbed # {}
        <4>1. PICK q \in Robbed : robber[q] \notin entered
          BY <3>2
        <4>2. q \in Robbed' /\ robber'[q] = robber[q]
          BY <1>11, TakenStays DEF Release, Rob
        <4>3. QED
          BY <4>1, <4>2, <2>1
      <3>3. QED
        BY <3>1, <3>2
    <2>7. QED
      BY <2>4, <2>5, <2>6, <2>8
  <1>12. ASSUME NEW p \in Runs, Signal(p) PROVE Robbing'
    BY <1>12, RunsAssumption DEF Signal, Goto, Trap, gpus, history
  <1>13. ASSUME NEW p \in Runs, Kill(p) PROVE Robbing'
    BY <1>13, RunsAssumption DEF Kill, Exit, Goto, gpus, history
  <1>14. CASE Reload
    BY <1>14 DEF Reload, history
  <1>15. CASE UNCHANGED vars
    BY <1>15 DEF vars
  <1>16. QED
    BY <1>1, <1>2, <1>3, <1>4, <1>5, <1>6, <1>7, <1>8, <1>9, <1>10, <1>11,
       <1>12, <1>13, <1>14, <1>15 DEF Next, Step

(* Nobody but the last run to enter writes to a GPU.                           *)
LEMMA VerifiedStep == IInv /\ [Next]_vars => Verified'
  <1> SUFFICES ASSUME IInv, [Next]_vars PROVE Verified'
    OBVIOUS
  <1> USE DEF IInv, TypeOK, Ending, Entering, Holding, Inside, Robbed, Verified, Busy
  <1>1. ASSUME NEW p \in Runs, Start(p) PROVE Verified'
    BY <1>1 DEF Start, Goto, Trap, Fail, gpus, history
  <1>2. ASSUME NEW p \in Runs, Lock(p) PROVE Verified'
    BY <1>2 DEF Lock, Goto, Trap, Fail, gpus, history
  <1>3. ASSUME NEW p \in Runs, Gate(p) PROVE Verified'
    BY <1>3 DEF Gate, Goto, Trap, Fail, gpus, history
  <1>4. ASSUME NEW p \in Runs, Apply(p) PROVE Verified'
    BY <1>4 DEF Apply, Goto, Trap, Fail, gpus, history
  <1>5. ASSUME NEW p \in Runs, Mark(p) PROVE Verified'
    BY <1>5 DEF Mark, Goto, gpus, history
  <1>6. ASSUME NEW p \in Runs, Tune(p) PROVE Verified'
    BY <1>6 DEF Tune, Goto, Trap, Fail, gpus, history
  <1>7. ASSUME NEW p \in Runs, Verify(p) PROVE Verified'
    BY <1>7 DEF Verify, Goto, Trap, Fail, gpus, history
  <1>8. ASSUME NEW p \in Runs, Limits(p) PROVE Verified'
    BY <1>8 DEF Limits, Goto, Trap, Fail, gpus, history
  <1>9. ASSUME NEW p \in Runs, Report(p) PROVE Verified'
    BY <1>9 DEF Report, Goto, gpus, history
  <1>10. ASSUME NEW p \in Runs, Reset(p) PROVE Verified'
    BY <1>10 DEF Reset, Goto, gpus, history
  <1>11. ASSUME NEW p \in Runs, Release(p) PROVE Verified'
    <2>1. Robbed' = {} => Robbed = {}
      BY <1>11, TakenStays
    <2>2. QED
      BY <1>11, <2>1 DEF Release, Exit, Goto, gpus, history
  <1>12. ASSUME NEW p \in Runs, Signal(p) PROVE Verified'
    BY <1>12 DEF Signal, Goto, Trap, gpus, history
  <1>13. ASSUME NEW p \in Runs, Kill(p) PROVE Verified'
    BY <1>13 DEF Kill, Exit, Goto, gpus, history
  <1>14. CASE Reload
    BY <1>14 DEF Reload, history
  <1>15. CASE UNCHANGED vars
    BY <1>15 DEF vars
  <1>16. QED
    BY <1>1, <1>2, <1>3, <1>4, <1>5, <1>6, <1>7, <1>8, <1>9, <1>10, <1>11,
       <1>12, <1>13, <1>14, <1>15 DEF Next, Step

(* APPLIED lags behind the tool between the two commands only.                  *)
LEMMA RecordedStep == IInv /\ [Next]_vars => Recorded'
  <1> SUFFICES ASSUME IInv, [Next]_vars PROVE Recorded'
    OBVIOUS
  <1> USE DEF IInv, TypeOK, Ending, Recorded, Busy
  <1>1. ASSUME NEW p \in Runs, Start(p) PROVE Recorded'
    BY <1>1 DEF Start, Goto, Trap, Fail, gpus, history
  <1>2. ASSUME NEW p \in Runs, Lock(p) PROVE Recorded'
    BY <1>2 DEF Lock, Goto, Trap, Fail, gpus, history
  <1>3. ASSUME NEW p \in Runs, Gate(p) PROVE Recorded'
    BY <1>3 DEF Gate, Goto, Trap, Fail, gpus, history
  <1>4. ASSUME NEW p \in Runs, Apply(p) PROVE Recorded'
    BY <1>4 DEF Apply, Goto, Trap, Fail, gpus, history
  <1>5. ASSUME NEW p \in Runs, Mark(p) PROVE Recorded'
    BY <1>5 DEF Mark, Goto, gpus, history
  <1>6. ASSUME NEW p \in Runs, Tune(p) PROVE Recorded'
    BY <1>6 DEF Tune, Goto, Trap, Fail, gpus, history
  <1>7. ASSUME NEW p \in Runs, Verify(p) PROVE Recorded'
    BY <1>7 DEF Verify, Goto, Trap, Fail, gpus, history
  <1>8. ASSUME NEW p \in Runs, Limits(p) PROVE Recorded'
    BY <1>8 DEF Limits, Goto, Trap, Fail, gpus, history
  <1>9. ASSUME NEW p \in Runs, Report(p) PROVE Recorded'
    BY <1>9 DEF Report, Goto, gpus, history
  <1>10. ASSUME NEW p \in Runs, Reset(p) PROVE Recorded'
    BY <1>10 DEF Reset, Goto, gpus, history
  <1>11. ASSUME NEW p \in Runs, Release(p) PROVE Recorded'
    BY <1>11 DEF Release, Rob, Exit, Goto, gpus, history
  <1>12. ASSUME NEW p \in Runs, Signal(p) PROVE Recorded'
    BY <1>12 DEF Signal, Goto, Trap, gpus, history
  <1>13. ASSUME NEW p \in Runs, Kill(p) PROVE Recorded'
    BY <1>13 DEF Kill, Exit, Goto, gpus, history
  <1>14. CASE Reload
    BY <1>14 DEF Reload, history
  <1>15. CASE UNCHANGED vars
    BY <1>15 DEF vars
  <1>16. QED
    BY <1>1, <1>2, <1>3, <1>4, <1>5, <1>6, <1>7, <1>8, <1>9, <1>10, <1>11,
       <1>12, <1>13, <1>14, <1>15 DEF Next, Step

(* The trap resets what APPLIED names, one GPU after the other.                 *)
LEMMA UndoneStep == IInv /\ [Next]_vars => Undone'
  <1> SUFFICES ASSUME IInv, [Next]_vars PROVE Undone'
    OBVIOUS
  <1> USE DEF IInv, TypeOK, Ending, Entering, Holding, Inside, Recorded,
     Robbed, Undone, Busy
  <1>1. ASSUME NEW p \in Runs, Start(p) PROVE Undone'
    BY <1>1 DEF Start, Goto, Trap, Fail, gpus, history
  <1>2. ASSUME NEW p \in Runs, Lock(p) PROVE Undone'
    BY <1>2 DEF Lock, Goto, Trap, Fail, gpus, history
  <1>3. ASSUME NEW p \in Runs, Gate(p) PROVE Undone'
    BY <1>3 DEF Gate, Goto, Trap, Fail, gpus, history
  <1>4. ASSUME NEW p \in Runs, Apply(p) PROVE Undone'
    BY <1>4 DEF Apply, Goto, Trap, Fail, gpus, history
  <1>5. ASSUME NEW p \in Runs, Mark(p) PROVE Undone'
    BY <1>5 DEF Mark, Goto, gpus, history
  <1>6. ASSUME NEW p \in Runs, Tune(p) PROVE Undone'
    BY <1>6 DEF Tune, Goto, Trap, Fail, gpus, history
  <1>7. ASSUME NEW p \in Runs, Verify(p) PROVE Undone'
    BY <1>7 DEF Verify, Goto, Trap, Fail, gpus, history
  <1>8. ASSUME NEW p \in Runs, Limits(p) PROVE Undone'
    BY <1>8 DEF Limits, Goto, Trap, Fail, gpus, history
  <1>9. ASSUME NEW p \in Runs, Report(p) PROVE Undone'
    BY <1>9 DEF Report, Goto, gpus, history
  <1>10. ASSUME NEW p \in Runs, Reset(p) PROVE Undone'
    BY <1>10 DEF Reset, Goto, gpus, history
  <1>11. ASSUME NEW p \in Runs, Release(p) PROVE Undone'
    <2>1. Robbed' = {} => Robbed = {}
      BY <1>11, TakenStays
    <2>2. QED
      BY <1>11, <2>1 DEF Release, Exit, Goto, gpus, history
  <1>12. ASSUME NEW p \in Runs, Signal(p) PROVE Undone'
    BY <1>12 DEF Signal, Goto, Trap, gpus, history
  <1>13. ASSUME NEW p \in Runs, Kill(p) PROVE Undone'
    BY <1>13 DEF Kill, Exit, Goto, gpus, history
  <1>14. CASE Reload
    BY <1>14 DEF Reload, history
  <1>15. CASE UNCHANGED vars
    BY <1>15 DEF vars
  <1>16. QED
    BY <1>1, <1>2, <1>3, <1>4, <1>5, <1>6, <1>7, <1>8, <1>9, <1>10, <1>11,
       <1>12, <1>13, <1>14, <1>15 DEF Next, Step

(* The invariant holds in every reachable state.                              *)
THEOREM Invariance == Spec => []IInv
  <1>1. Init => IInv
    BY RunsAssumption DEF Init, IInv, TypeOK, Ending, Entering, Holding,
       Robbing, Robbed, Verified, Recorded, Undone, Inside, Busy, Locations, Verdicts
  <1>2. IInv /\ [Next]_vars => IInv'
    BY TypingStep, EndingStep, EnteringStep, HoldingStep, RobbingStep, VerifiedStep,
       RecordedStep, UndoneStep DEF IInv
  <1>3. QED
    BY <1>1, <1>2, PTL DEF Spec

(* Type correctness for any GPUs and runs.                                    *)
THEOREM Typing == Spec => []TypeOK
  <1>1. IInv => TypeOK
    BY DEF IInv
  <1>2. QED
    BY <1>1, Invariance, PTL

(* Two runs are inside together only where one has lost its directory; each    *)
(* run takes one at most, and the first to take one never had one.            *)
THEOREM Exclusion == Spec => []Exclusive
  <1>1. IInv => Exclusive
    BY DEF IInv, TypeOK, Holding, Robbing, Exclusive
  <1>2. QED
    BY <1>1, Invariance, PTL

(* A PASS stays true until the next run enters or the driver is reloaded.        *)
THEOREM Passes == Spec => []PassHolds
  <1>1. IInv => PassHolds
    BY DEF IInv, Verified, PassHolds
  <1>2. QED
    BY <1>1, Invariance, PTL

(* A run that fails on its own has reset every GPU the tool let it reset.         *)
THEOREM Failures == Spec => []FailureUndone
  <1>1. IInv => FailureUndone
    BY DEF IInv, TypeOK, Ending, Undone, FailureUndone
  <1>2. QED
    BY <1>1, Invariance, PTL
=============================================================================
