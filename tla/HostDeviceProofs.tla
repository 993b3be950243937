--------------------------- MODULE HostDeviceProofs ---------------------------
(***************************************************************************)
(* Resets, transfers and power transitions of the host driver do not get   *)
(* in each other's way, for any number of transfers, resets and starts.    *)
(***************************************************************************)
EXTENDS HostDevice, TLAPS

\* PipeOrder names each pipe once.
LEMMA PipeOrderFacts ==
  /\ Pipes = {"InterruptPipe", "BulkReadPipe", "BulkWritePipe"}
  /\ \A i \in 1 .. 3 : PipeOrder[i] \in Pipes
  /\ \A p \in Pipes : \E i \in 1 .. 3 : p = PipeOrder[i]
  /\ \A i, j \in 1 .. 3 : PipeOrder[i] = PipeOrder[j] => i = j
<1>1. /\ PipeOrder[1] = "InterruptPipe"
      /\ PipeOrder[2] = "BulkReadPipe"
      /\ PipeOrder[3] = "BulkWritePipe"
  BY DEF PipeOrder
<1>2. \A i \in 1 .. 3 : i = 1 \/ i = 2 \/ i = 3
  OBVIOUS
<1>3. Pipes = {PipeOrder[1], PipeOrder[2], PipeOrder[3]}
  BY <1>2 DEF Pipes
<1>4. QED
  BY <1>1, <1>2, <1>3

LEMMA PipeOfFacts ==
  /\ PipeOf["Read"] = "BulkReadPipe"
  /\ PipeOf["Write"] = "BulkWritePipe"
  /\ \A d \in Dirs : PipeOf[d] \in Pipes /\ PipeOf[d] # "InterruptPipe"
BY PipeOrderFacts DEF PipeOf, Dirs

-----------------------------------------------------------------------------
(* Types, and the count of transfers on which the bound of "done" rests *)

Count == TypeOK /\ TransfersCompletedOnce

LEMMA CountInit == Init => Count
BY TransfersAssumption, StartsAssumption, PipeOrderFacts
DEF Init, Count, TypeOK, TransfersCompletedOnce, ResetPc, Dirs

\* A transfer that is completed was under way, so the counts stay in step.
LEMMA CompleteCounts ==
  ASSUME Count, NEW d \in Dirs, bulk[d] # "none", Complete(d), UNCHANGED issued
  PROVE  /\ bulk' \in [Dirs -> {"none", "send", "pended", "sent", "completing"}]
         /\ done' \in [Dirs -> 0 .. MaxTransfers]
         /\ TransfersCompletedOnce'
<1>1. /\ issued \in [Dirs -> 0 .. MaxTransfers]
      /\ done \in [Dirs -> 0 .. MaxTransfers]
      /\ bulk \in [Dirs -> {"none", "send", "pended", "sent", "completing"}]
      /\ \A e \in Dirs : done[e] + (IF bulk[e] = "none" THEN 0 ELSE 1) = issued[e]
  BY DEF Count, TypeOK, TransfersCompletedOnce
<1>2. done[d] + 1 = issued[d] /\ done[d] + 1 \in 0 .. MaxTransfers
  BY <1>1
<1>3. /\ bulk' = [bulk EXCEPT ![d] = "none"]
      /\ done' = [done EXCEPT ![d] = done[d] + 1]
      /\ issued' = issued
  BY DEF Complete
<1>4. /\ bulk' \in [Dirs -> {"none", "send", "pended", "sent", "completing"}]
      /\ done' \in [Dirs -> 0 .. MaxTransfers]
  BY <1>1, <1>2, <1>3
<1>5. \A e \in Dirs : done'[e] + (IF bulk'[e] = "none" THEN 0 ELSE 1) = issued'[e]
  BY <1>1, <1>2, <1>3, TransfersAssumption
<1>6. QED
  BY <1>4, <1>5 DEF TransfersCompletedOnce

\* Whatever moves transfers that are under way from one place to another
\* leaves the counts alone.
LEMMA MoveCounts ==
  ASSUME Count, UNCHANGED <<issued, done>>,
         bulk' \in [Dirs -> {"none", "send", "pended", "sent", "completing"}],
         \A d \in Dirs : bulk'[d] = "none" <=> bulk[d] = "none"
  PROVE  TransfersCompletedOnce'
BY DEF Count, TypeOK, TransfersCompletedOnce

LEMMA GotoType ==
  ASSUME TypeOK, NEW k \in Resets, NEW pc \in ResetPc, NEW at \in 1 .. 3, Goto(k, pc, at)
  PROVE  reset' \in [Resets -> [pc : ResetPc, at : 1 .. 3]]
BY DEF TypeOK, Goto

LEMMA GotoNextType ==
  ASSUME TypeOK, NEW k \in Resets, NEW pc \in ResetPc, NEW then \in ResetPc,
         GotoNext(k, pc, then)
  PROVE  reset' \in [Resets -> [pc : ResetPc, at : 1 .. 3]]
<1>1. reset[k].at \in 1 .. 3
  BY DEF TypeOK
<1>2. CASE reset[k].at < 3
  <2>1. reset[k].at + 1 \in 1 .. 3 /\ Goto(k, pc, reset[k].at + 1)
    BY <1>1, <1>2 DEF GotoNext
  <2>2. QED
    BY <2>1, GotoType
<1>3. CASE ~(reset[k].at < 3)
  <2>1. Goto(k, then, 1)
    BY <1>3 DEF GotoNext
  <2>2. QED
    BY <2>1, GotoType
<1>4. QED
  BY <1>2, <1>3

LEMMA CountPnp == Count /\ (PrepareHardware \/ D0Entry \/ LeaveD0 \/ D0Exit) => Count'
<1>1. SUFFICES ASSUME Count, PrepareHardware \/ D0Entry \/ LeaveD0 \/ D0Exit PROVE Count'
  OBVIOUS
<1>2. TypeOK /\ TransfersCompletedOnce
  BY <1>1 DEF Count
<1>3. CASE PrepareHardware
  <2>1. UNCHANGED <<action, lock, reset, stopped, issued, done>>
    BY <1>3 DEF PrepareHardware
  <2>2. /\ nStarts' \in 0 .. MaxStarts
        /\ startedOk' \in BOOLEAN
    <3>1. /\ nStarts < MaxStarts
          /\ \/ nStarts' = nStarts + 1 /\ startedOk' = TRUE
             \/ UNCHANGED <<nStarts, startedOk>>
      BY <1>3 DEF PrepareHardware
    <3>2. nStarts \in 0 .. MaxStarts /\ startedOk \in BOOLEAN
      BY <1>2 DEF TypeOK
    <3>3. nStarts' \in 0 .. MaxStarts
      BY <3>1, <3>2, StartsAssumption
    <3>4. startedOk' \in BOOLEAN
      BY <3>1, <3>2
    <3>5. QED
      BY <3>3, <3>4
  <2>3. target' \in [Pipes -> {"started", "stopped"}]
    BY <1>2, <1>3 DEF TypeOK, PrepareHardware
  <2>4. /\ bulk' \in [Dirs -> {"none", "send", "pended", "sent", "completing"}]
        /\ \A d \in Dirs : bulk'[d] = "none" <=> bulk[d] = "none"
    BY <1>2, <1>3 DEF TypeOK, PrepareHardware
  <2>5. /\ handle' \in [Pipes -> 0 .. MaxStarts]
        /\ power' \in {"stopped", "off", "D0", "leaving", "removed"}
    BY <1>2, <1>3, <2>2 DEF TypeOK, PrepareHardware, SelectInterfaces
  <2>6. TransfersCompletedOnce'
    BY <1>1, <2>1, <2>4, MoveCounts
  <2>7. QED
    BY <1>2, <2>1, <2>2, <2>3, <2>4, <2>5, <2>6 DEF Count, TypeOK
<1>4. CASE D0Entry
  BY <1>2, <1>4, PipeOrderFacts DEF Count, TypeOK, TransfersCompletedOnce, D0Entry, resetVars
<1>5. CASE LeaveD0
  BY <1>2, <1>5 DEF Count, TypeOK, TransfersCompletedOnce, LeaveD0, resetVars, bulkVars
<1>6. CASE D0Exit
  BY <1>2, <1>6, PipeOrderFacts
     DEF Count, TypeOK, TransfersCompletedOnce, D0Exit, resetVars, bulkVars
<1>7. QED
  BY <1>1, <1>3, <1>4, <1>5, <1>6

LEMMA CountBulk ==
  ASSUME Count, NEW d \in Dirs,
         EvtIoStop(d) \/ EvtIo(d) \/ EvtIoSend(d) \/ TargetCompletes(d) \/ CompletionRoutine(d)
  PROVE  Count'
<1>1. TypeOK /\ TransfersCompletedOnce
  BY DEF Count
<1>2. CASE EvtIoStop(d)
  BY <1>1, <1>2 DEF Count, TypeOK, TransfersCompletedOnce, EvtIoStop, pnpVars, resetVars
<1>3. CASE EvtIo(d)
  <2>1. UNCHANGED <<pnpVars, target, resetVars, stopped>>
    BY <1>3 DEF EvtIo
  <2>2. /\ issued' = [issued EXCEPT ![d] = issued[d] + 1]
        /\ issued[d] < MaxTransfers
        /\ bulk[d] = "none"
        /\ \/ bulk' = [bulk EXCEPT ![d] = "send"] /\ done' = done
           \/ /\ bulk' = [bulk EXCEPT ![d] = "none"]
              /\ done' = [done EXCEPT ![d] = done[d] + 1]
    BY <1>3 DEF EvtIo, Complete
  <2>3. /\ issued \in [Dirs -> 0 .. MaxTransfers]
        /\ done \in [Dirs -> 0 .. MaxTransfers]
        /\ bulk \in [Dirs -> {"none", "send", "pended", "sent", "completing"}]
        /\ \A e \in Dirs : done[e] + (IF bulk[e] = "none" THEN 0 ELSE 1) = issued[e]
    BY <1>1 DEF TypeOK, TransfersCompletedOnce
  <2>4. done[d] = issued[d]
    BY <2>2, <2>3
  <2>5. /\ issued' \in [Dirs -> 0 .. MaxTransfers]
        /\ done' \in [Dirs -> 0 .. MaxTransfers]
        /\ bulk' \in [Dirs -> {"none", "send", "pended", "sent", "completing"}]
    BY <2>2, <2>3, <2>4, TransfersAssumption
  <2>6. \A e \in Dirs : done'[e] + (IF bulk'[e] = "none" THEN 0 ELSE 1) = issued'[e]
    BY <2>2, <2>3, <2>4, TransfersAssumption
  <2>7. QED
    BY <1>1, <2>1, <2>5, <2>6
    DEF Count, TypeOK, TransfersCompletedOnce, pnpVars, resetVars
<1>4. CASE EvtIoSend(d)
  <2>1. UNCHANGED <<pnpVars, target, resetVars, stopped, issued>> /\ bulk[d] = "send"
    BY <1>4 DEF EvtIoSend
  <2>2. CASE Complete(d)
    <3>1. /\ bulk' \in [Dirs -> {"none", "send", "pended", "sent", "completing"}]
          /\ done' \in [Dirs -> 0 .. MaxTransfers]
          /\ TransfersCompletedOnce'
      BY <2>1, <2>2, CompleteCounts
    <3>2. QED
      BY <1>1, <2>1, <3>1 DEF Count, TypeOK, pnpVars, resetVars
  <2>3. CASE bulk' = [bulk EXCEPT ![d] = Sent(d)] /\ UNCHANGED done
    BY <1>1, <2>1, <2>3 DEF Count, TypeOK, TransfersCompletedOnce, Sent, pnpVars, resetVars
  <2>4. QED
    BY <1>4, <2>2, <2>3 DEF EvtIoSend
<1>5. CASE TargetCompletes(d)
  BY <1>1, <1>5 DEF Count, TypeOK, TransfersCompletedOnce, TargetCompletes, pnpVars, resetVars
<1>6. CASE CompletionRoutine(d)
  <2>1. /\ UNCHANGED <<pnpVars, target, resetVars, stopped, issued>>
        /\ bulk[d] = "completing"
        /\ Complete(d)
    BY <1>6 DEF CompletionRoutine
  <2>2. /\ bulk' \in [Dirs -> {"none", "send", "pended", "sent", "completing"}]
        /\ done' \in [Dirs -> 0 .. MaxTransfers]
        /\ TransfersCompletedOnce'
    BY <2>1, CompleteCounts
  <2>3. QED
    BY <1>1, <2>1, <2>2 DEF Count, TypeOK, pnpVars, resetVars
<1>7. QED
  BY <1>2, <1>3, <1>4, <1>5, <1>6

LEMMA CountReset ==
  ASSUME Count, NEW k \in Resets,
         ResetIoctl(k) \/ ResetAcquireFails(k) \/ ResetStep(k)
  PROVE  Count'
<1>1. TypeOK /\ TransfersCompletedOnce
  BY DEF Count
<1>2. reset[k].at \in 1 .. 3 /\ Pipe(k) \in Pipes
  BY <1>1, PipeOrderFacts DEF TypeOK, Pipe
<1>3. CASE ResetIoctl(k) \/ ResetAcquireFails(k) \/ ResetPort(k)
  <2>1. reset' \in [Resets -> [pc : ResetPc, at : 1 .. 3]]
    BY <1>1, <1>3, GotoType DEF ResetIoctl, ResetAcquireFails, ResetPort, ResetPc
  <2>2. UNCHANGED <<pnpVars, target, lock, startedOk, bulkVars>>
    BY <1>3 DEF ResetIoctl, ResetAcquireFails, ResetPort
  <2>3. QED
    BY <1>1, <2>1, <2>2 DEF Count, TypeOK, TransfersCompletedOnce, pnpVars, bulkVars
<1>4. CASE ResetAcquire(k) \/ ResetRelease(k)
  <2>1. reset' \in [Resets -> [pc : ResetPc, at : 1 .. 3]]
    BY <1>1, <1>4, GotoType DEF ResetAcquire, ResetRelease, ResetPc
  <2>2. UNCHANGED <<pnpVars, target, startedOk, bulkVars>> /\ lock' \in SUBSET Resets
    BY <1>4 DEF ResetAcquire, ResetRelease
  <2>3. QED
    BY <1>1, <2>1, <2>2 DEF Count, TypeOK, TransfersCompletedOnce, pnpVars, bulkVars
<1>5. CASE ResetStopped(k)
  <2>1. reset' \in [Resets -> [pc : ResetPc, at : 1 .. 3]]
    BY <1>1, <1>5, GotoNextType DEF ResetStopped, ResetPc
  <2>2. UNCHANGED <<pnpVars, target, lock, startedOk, bulkVars>>
    BY <1>5 DEF ResetStopped
  <2>3. QED
    BY <1>1, <2>1, <2>2 DEF Count, TypeOK, TransfersCompletedOnce, pnpVars, bulkVars
<1>6. CASE ResetStop(k)
  <2>1. reset' \in [Resets -> [pc : ResetPc, at : 1 .. 3]]
    BY <1>1, <1>2, <1>6, GotoType DEF ResetStop, ResetPc
  <2>2. UNCHANGED <<pnpVars, lock, startedOk, stopped, issued, done>>
    BY <1>6 DEF ResetStop
  <2>3. /\ target' \in [Pipes -> {"started", "stopped"}]
        /\ bulk' \in [Dirs -> {"none", "send", "pended", "sent", "completing"}]
        /\ \A d \in Dirs : bulk'[d] = "none" <=> bulk[d] = "none"
    BY <1>1, <1>2, <1>6 DEF TypeOK, ResetStop
  <2>4. TransfersCompletedOnce'
    BY <2>2, <2>3, MoveCounts
  <2>5. QED
    BY <1>1, <2>1, <2>2, <2>3, <2>4 DEF Count, TypeOK, pnpVars
<1>7. CASE ResetStart(k)
  <2>1. reset' \in [Resets -> [pc : ResetPc, at : 1 .. 3]]
    <3>1. {"start", "release"} \subseteq ResetPc /\ 1 \in 1 .. 3
      BY DEF ResetPc
    <3>2. GotoNext(k, "start", "release") \/ Goto(k, "release", 1)
      BY <1>7 DEF ResetStart
    <3>3. QED
      BY <1>1, <3>1, <3>2, GotoType, GotoNextType
  <2>2. UNCHANGED <<pnpVars, lock, stopped, issued, done>> /\ startedOk' \in BOOLEAN
    BY <1>7 DEF ResetStart
  <2>3. /\ target' \in [Pipes -> {"started", "stopped"}]
        /\ bulk' \in [Dirs -> {"none", "send", "pended", "sent", "completing"}]
        /\ \A d \in Dirs : bulk'[d] = "none" <=> bulk[d] = "none"
    BY <1>1, <1>2, <1>7 DEF TypeOK, ResetStart
  <2>4. TransfersCompletedOnce'
    BY <2>2, <2>3, MoveCounts
  <2>5. QED
    BY <1>1, <2>1, <2>2, <2>3, <2>4 DEF Count, TypeOK, pnpVars
<1>8. QED
  BY <1>3, <1>4, <1>5, <1>6, <1>7 DEF ResetStep

LEMMA CountStep == Count /\ [Next]_vars => Count'
<1>1. SUFFICES ASSUME Count, [Next]_vars PROVE Count'
  OBVIOUS
<1>2. CASE UNCHANGED vars
  BY <1>1, <1>2
  DEF Count, TypeOK, TransfersCompletedOnce, vars, pnpVars, resetVars, bulkVars
<1>3. CASE Next
  BY <1>1, <1>3, CountPnp, CountBulk, CountReset DEF Next
<1>4. QED
  BY <1>1, <1>2, <1>3

\* Types hold for any numbers of transfers, resets and starts.
THEOREM TypeCorrect == Spec => []TypeOK
<1>1. Init => Count
  BY CountInit
<1>2. Count /\ [Next]_vars => Count'
  BY CountStep
<1>3. Count => TypeOK
  BY DEF Count
<1>4. QED
  BY <1>1, <1>2, <1>3, PTL DEF Spec

\* The handlers of bulkrwr.c, their completion routines, OsrFxEvtIoStop, a
\* reset and a restart complete each transfer once between them.
THEOREM CompletedOnce == Spec => []TransfersCompletedOnce
<1>1. Init => Count
  BY CountInit
<1>2. Count /\ [Next]_vars => Count'
  BY CountStep
<1>3. Count => TransfersCompletedOnce
  BY DEF Count
<1>4. QED
  BY <1>1, <1>2, <1>3, PTL DEF Spec

-----------------------------------------------------------------------------
(* Port resets *)

\* A reset in one of these places holds the lock.
Critical == {"stop", "stopping", "port", "start", "release"}

\* Who holds the lock, and what the framework can be doing meanwhile.
Locked ==
  /\ lock = {k \in Resets : reset[k].pc \in Critical}
  /\ \A j, k \in Resets : reset[j].pc \in Critical /\ reset[k].pc \in Critical => j = k
  /\ \A k \in Resets : reset[k].pc \notin {"new", "done"} => power \in {"D0", "leaving"}

\* How far StopAllPipes has come.
Stopping ==
  \A k \in Resets : \A i \in 1 .. 3 :
    \/ reset[k].pc = "stop" /\ i < reset[k].at
    \/ reset[k].pc = "stopping" /\ i <= reset[k].at
    \/ reset[k].pc = "port"
    => target[PipeOrder[i]] = "stopped"

\* A transfer is on the bus if its pipe runs, and waits if it does not.
OnBus ==
  \A d \in Dirs : /\ bulk[d] = "sent" => target[PipeOf[d]] = "started"
                  /\ bulk[d] = "pended" => target[PipeOf[d]] = "stopped"

\* How far StartAllPipes has come, and what a device that has no reset in
\* progress can count on unless a failure was reported.
Starting ==
  /\ \A k \in Resets : \A i \in 1 .. 3 :
       \/ reset[k].pc = "start" /\ i < reset[k].at
       \/ reset[k].pc = "release" /\ startedOk
       => target[PipeOrder[i]] = "started"
  /\ power \in {"D0", "leaving"} /\ lock = {} /\ startedOk
       => \A p \in Pipes : target[p] = "started"
  /\ power = "off" /\ startedOk
       => target["BulkReadPipe"] = "started" /\ target["BulkWritePipe"] = "started"

IInv == TypeOK /\ Locked /\ Stopping /\ OnBus /\ Starting

LEMMA IInvInit == Init => IInv
<1>1. SUFFICES ASSUME Init PROVE IInv
  OBVIOUS
<1>2. TypeOK
  BY <1>1, CountInit DEF Count
<1>3. \A k \in Resets : reset[k].pc = "new"
  BY <1>1 DEF Init
<1>4. Locked
  BY <1>1, <1>3 DEF Init, Locked, Critical
<1>5. Stopping /\ OnBus /\ Starting
  BY <1>1, <1>3 DEF Init, Stopping, OnBus, Starting
<1>6. QED
  BY <1>2, <1>4, <1>5 DEF IInv

\* The transfers' own steps touch neither pipes nor resets.
LEMMA IInvBulk ==
  ASSUME IInv, TypeOK', NEW d \in Dirs,
         EvtIoStop(d) \/ EvtIo(d) \/ EvtIoSend(d) \/ TargetCompletes(d) \/ CompletionRoutine(d)
  PROVE  IInv'
<1>1. UNCHANGED <<pnpVars, target, resetVars>>
  BY DEF EvtIoStop, EvtIo, EvtIoSend, TargetCompletes, CompletionRoutine
<1>2. Locked' /\ Stopping' /\ Starting'
  BY <1>1 DEF IInv, Locked, Stopping, Starting, pnpVars, resetVars
<1>3. \A e \in Dirs : \/ bulk'[e] = bulk[e]
                      \/ bulk'[e] \notin {"sent", "pended"}
                      \/ bulk'[e] = Sent(e)
  <2>1. bulk \in [Dirs -> {"none", "send", "pended", "sent", "completing"}]
    BY DEF IInv, TypeOK
  <2>2. \E to \in {bulk[d], "completing", "none", "send", Sent(d)} :
          bulk' = [bulk EXCEPT ![d] = to]
    BY <2>1 DEF EvtIoStop, EvtIo, EvtIoSend, TargetCompletes, CompletionRoutine, Complete
  <2>3. QED
    BY <2>1, <2>2
<1>4. target \in [Pipes -> {"started", "stopped"}]
  BY DEF IInv, TypeOK
<1>5. OnBus'
  BY <1>1, <1>3, <1>4, PipeOfFacts DEF IInv, OnBus, Sent
<1>6. QED
  BY <1>2, <1>5 DEF IInv

\* Nobody is in the middle of a reset when the framework starts the device.
LEMMA IInvStart == IInv /\ TypeOK' /\ (PrepareHardware \/ D0Entry) => IInv'
<1>1. SUFFICES ASSUME IInv, TypeOK', PrepareHardware \/ D0Entry PROVE IInv'
  OBVIOUS
<1>2. power \in {"stopped", "off"} /\ UNCHANGED <<lock, reset>>
  BY <1>1 DEF PrepareHardware, D0Entry, resetVars
<1>3. \A k \in Resets : reset[k].pc \in {"new", "done"}
  BY <1>1, <1>2 DEF IInv, Locked
<1>4. \A k \in Resets : reset[k].pc \notin Critical
  BY <1>3 DEF Critical
<1>5. lock = {}
  BY <1>1, <1>4 DEF IInv, Locked
<1>6. Locked' /\ Stopping'
  BY <1>2, <1>3, <1>4, <1>5 DEF Locked, Stopping
<1>7. \A k \in Resets : reset'[k].pc \notin {"start", "release"}
  BY <1>2, <1>3
<1>8. target \in [Pipes -> {"started", "stopped"}]
  BY <1>1 DEF IInv, TypeOK
<1>9. CASE PrepareHardware
  <2>1. power' \in {"off", "removed"}
    BY <1>9 DEF PrepareHardware, SelectInterfaces
  <2>2. CASE UNCHANGED <<target, bulk, startedOk>> /\ power' = "removed"
    BY <1>1, <1>6, <1>7, <2>2 DEF IInv, OnBus, Starting
  <2>3. CASE /\ target' = [p \in Pipes |-> IF p = "InterruptPipe" THEN "stopped" ELSE "started"]
             /\ bulk' = [d \in Dirs |-> IF bulk[d] \in {"pended", "sent"}
                                        THEN "completing" ELSE bulk[d]]
    <3>1. OnBus'
      BY <2>3 DEF OnBus
    <3>2. target'["BulkReadPipe"] = "started" /\ target'["BulkWritePipe"] = "started"
      BY <2>3, PipeOrderFacts
    <3>3. Starting'
      BY <1>7, <2>1, <3>2 DEF Starting
    <3>4. QED
      BY <1>1, <1>6, <3>1, <3>3 DEF IInv
  <2>4. QED
    BY <1>9, <2>2, <2>3 DEF PrepareHardware
<1>10. CASE D0Entry
  <2>1. UNCHANGED <<bulk, startedOk>>
    BY <1>10 DEF D0Entry, resetVars
  <2>2. CASE UNCHANGED target /\ power' = "removed"
    BY <1>1, <1>6, <1>7, <2>1, <2>2 DEF IInv, OnBus, Starting
  <2>3. CASE target' = [target EXCEPT !["InterruptPipe"] = "started"] /\ power' = "D0"
    <3>1. \A p \in Pipes : p # "InterruptPipe" => target'[p] = target[p]
      BY <1>8, <2>3
    <3>2. target'["InterruptPipe"] = "started"
      BY <1>8, <2>3, PipeOrderFacts
    <3>3. OnBus'
      BY <1>1, <2>1, <3>1, PipeOfFacts DEF IInv, OnBus
    <3>4. startedOk => target["BulkReadPipe"] = "started" /\ target["BulkWritePipe"] = "started"
      BY <1>1, <1>10 DEF IInv, Starting, D0Entry
    <3>5. Starting'
      BY <1>7, <2>1, <2>3, <3>1, <3>2, <3>4, PipeOrderFacts DEF Starting
    <3>6. QED
      BY <1>1, <1>6, <3>3, <3>5 DEF IInv
  <2>4. QED
    BY <1>10, <2>2, <2>3 DEF D0Entry
<1>11. QED
  BY <1>1, <1>9, <1>10

LEMMA IInvLeave == IInv /\ TypeOK' /\ (LeaveD0 \/ D0Exit) => IInv'
<1>1. SUFFICES ASSUME IInv, TypeOK', LeaveD0 \/ D0Exit PROVE IInv'
  OBVIOUS
<1>2. CASE LeaveD0
  BY <1>1, <1>2 DEF IInv, Locked, Stopping, OnBus, Starting, LeaveD0, resetVars, bulkVars
<1>3. CASE D0Exit
  <2>1. /\ \A k \in Resets : reset[k].pc \in {"new", "done"}
        /\ power = "leaving" /\ power' \notin {"D0", "leaving"}
        /\ target' = [target EXCEPT !["InterruptPipe"] = "stopped"]
        /\ UNCHANGED <<lock, reset, startedOk, bulk>>
    BY <1>3 DEF D0Exit, resetVars, bulkVars
  <2>2. lock = {}
    BY <1>1, <2>1 DEF IInv, Locked, Critical
  <2>3. Locked' /\ Stopping'
    BY <1>1, <2>1 DEF IInv, Locked, Stopping
  <2>4. \A p \in Pipes : p # "InterruptPipe" => target'[p] = target[p]
    BY <1>1, <2>1 DEF IInv, TypeOK
  <2>5. OnBus'
    BY <1>1, <2>1, <2>4, PipeOfFacts DEF IInv, OnBus
  <2>6. startedOk => \A p \in Pipes : target[p] = "started"
    BY <1>1, <2>1, <2>2 DEF IInv, Starting
  <2>7. Starting'
    BY <2>1, <2>4, <2>6, PipeOrderFacts DEF Starting
  <2>8. QED
    BY <1>1, <2>3, <2>5, <2>7 DEF IInv
<1>4. QED
  BY <1>1, <1>2, <1>3

LEMMA GotoMoves ==
  ASSUME TypeOK, NEW k \in Resets, NEW pc, NEW at, Goto(k, pc, at)
  PROVE  /\ reset'[k].pc = pc /\ reset'[k].at = at
         /\ \A j \in Resets : j # k => reset'[j] = reset[j]
BY DEF TypeOK, Goto

\* Getting the lock, or not getting it.
LEMMA IInvAcquire ==
  ASSUME IInv, TypeOK', NEW k \in Resets,
         ResetIoctl(k) \/ ResetAcquireFails(k) \/ ResetAcquire(k)
  PROVE  IInv'
<1>1. UNCHANGED <<pnpVars, target, startedOk, bulkVars>>
  BY DEF ResetIoctl, ResetAcquireFails, ResetAcquire
<1>2. TypeOK /\ Locked /\ Stopping /\ OnBus /\ Starting
  BY DEF IInv
<1>3. /\ \A j \in Resets : j # k => reset'[j] = reset[j]
      /\ \/ /\ reset[k].pc \in {"new", "acquire"}
            /\ reset'[k].pc \in {"acquire", "done"}
            /\ reset'[k].pc = "acquire" => power = "D0"
            /\ lock' = lock
         \/ /\ reset[k].pc = "acquire"
            /\ reset'[k].pc = "stop" /\ reset'[k].at = 1
            /\ lock = {} /\ lock' = {k}
  BY <1>2, GotoMoves DEF ResetIoctl, ResetAcquireFails, ResetAcquire
<1>4. Locked'
  BY <1>1, <1>2, <1>3 DEF Locked, Critical, pnpVars
<1>5. Stopping'
  BY <1>1, <1>2, <1>3 DEF Stopping
<1>6. OnBus'
  BY <1>1, <1>2 DEF OnBus, bulkVars
<1>7. Starting'
  BY <1>1, <1>2, <1>3 DEF Starting, pnpVars
<1>8. QED
  BY <1>4, <1>5, <1>6, <1>7 DEF IInv

\* What the holder of the lock does, nobody else is in the middle of.
LEMMA IInvHeld ==
  ASSUME IInv, NEW k \in Resets, reset[k].pc \in Critical
  PROVE  /\ lock = {k}
         /\ power \in {"D0", "leaving"}
         /\ \A j \in Resets : j # k => reset[j].pc \notin Critical
BY DEF IInv, Locked, Critical

LEMMA LockedKept ==
  ASSUME IInv, NEW k \in Resets, reset[k].pc \in Critical, reset'[k].pc \in Critical,
         \A j \in Resets : j # k => reset'[j] = reset[j], UNCHANGED <<lock, power>>
  PROVE  Locked'
BY IInvHeld DEF IInv, Locked

LEMMA IInvStop ==
  ASSUME IInv, TypeOK', NEW k \in Resets, ResetStop(k)
  PROVE  IInv'
<1>1. TypeOK /\ Locked /\ Stopping /\ OnBus /\ Starting
  BY DEF IInv
<1>2. /\ reset[k].pc = "stop" /\ reset[k].at \in 1 .. 3
      /\ reset'[k].pc = "stopping" /\ reset'[k].at = reset[k].at
      /\ \A j \in Resets : j # k => reset'[j] = reset[j]
      /\ UNCHANGED <<lock, power, startedOk>>
  BY <1>1, GotoMoves DEF ResetStop, pnpVars, TypeOK
<1>3. /\ lock = {k}
      /\ \A j \in Resets : j # k => reset[j].pc \notin Critical
      /\ power \in {"D0", "leaving"}
  BY <1>2, IInvHeld DEF Critical
<1>4. Locked'
  BY <1>2, LockedKept DEF Critical
<1>5. /\ Pipe(k) \in Pipes /\ Pipe(k) = PipeOrder[reset[k].at]
      /\ target' = [target EXCEPT ![Pipe(k)] = "stopped"]
      /\ target \in [Pipes -> {"started", "stopped"}]
  BY <1>1, <1>2, PipeOrderFacts DEF ResetStop, Pipe, TypeOK
<1>6. \A p \in Pipes : target'[p] = IF p = Pipe(k) THEN "stopped" ELSE target[p]
  BY <1>5
<1>7. Stopping'
  <2>1. \A i \in 1 .. 3 : i < reset[k].at => target[PipeOrder[i]] = "stopped"
    BY <1>1, <1>2 DEF Stopping
  <2>2. \A i \in 1 .. 3 : i <= reset[k].at => target'[PipeOrder[i]] = "stopped"
    BY <1>2, <1>5, <1>6, <2>1, PipeOrderFacts
  <2>3. QED
    BY <1>2, <1>3, <2>2 DEF Stopping, Critical
<1>8. OnBus'
  <2>1. bulk' = [d \in Dirs |-> IF PipeOf[d] = Pipe(k) /\ bulk[d] = "sent"
                                THEN "completing" ELSE bulk[d]]
    BY DEF ResetStop
  <2>2. QED
    BY <1>1, <1>6, <2>1, PipeOfFacts DEF OnBus
<1>9. Starting'
  BY <1>2, <1>3 DEF Starting, Critical
<1>10. QED
  BY <1>4, <1>7, <1>8, <1>9 DEF IInv

LEMMA IInvStopped ==
  ASSUME IInv, TypeOK', NEW k \in Resets, ResetStopped(k)
  PROVE  IInv'
<1>1. TypeOK /\ Locked /\ Stopping /\ OnBus /\ Starting
  BY DEF IInv
<1>2. /\ reset[k].pc = "stopping" /\ reset[k].at \in 1 .. 3
      /\ \/ reset'[k].pc = "stop" /\ reset'[k].at = reset[k].at + 1
         \/ reset'[k].pc = "port" /\ reset[k].at = 3
      /\ \A j \in Resets : j # k => reset'[j] = reset[j]
      /\ UNCHANGED <<lock, power, startedOk, target, bulk>>
  <2>1. reset[k].pc = "stopping" /\ GotoNext(k, "stop", "port")
    BY DEF ResetStopped
  <2>2. reset[k].at \in 1 .. 3
    BY <1>1 DEF TypeOK
  <2>3. UNCHANGED <<lock, power, startedOk, target, bulk>>
    BY DEF ResetStopped, pnpVars, bulkVars
  <2>4. QED
    BY <1>1, <2>1, <2>2, <2>3, GotoMoves DEF GotoNext
<1>3. /\ lock = {k}
      /\ \A j \in Resets : j # k => reset[j].pc \notin Critical
      /\ power \in {"D0", "leaving"}
  BY <1>2, IInvHeld DEF Critical
<1>4. Locked'
  BY <1>2, LockedKept DEF Critical
<1>5. Stopping'
  <2>1. \A i \in 1 .. 3 : i <= reset[k].at => target[PipeOrder[i]] = "stopped"
    BY <1>1, <1>2 DEF Stopping
  <2>2. \A i \in 1 .. 3 : reset[k].at = 3 \/ i < reset[k].at + 1 => i <= reset[k].at
    BY <1>2
  <2>3. QED
    BY <1>2, <1>3, <2>1, <2>2 DEF Stopping, Critical
<1>6. OnBus' /\ Starting'
  BY <1>1, <1>2, <1>3 DEF OnBus, Starting, Critical
<1>7. QED
  BY <1>4, <1>5, <1>6 DEF IInv

LEMMA IInvPort ==
  ASSUME IInv, TypeOK', NEW k \in Resets, ResetPort(k)
  PROVE  IInv'
<1>1. TypeOK /\ Locked /\ Stopping /\ OnBus /\ Starting
  BY DEF IInv
<1>2. /\ reset[k].pc = "port"
      /\ reset'[k].pc = "start" /\ reset'[k].at = 1
      /\ \A j \in Resets : j # k => reset'[j] = reset[j]
      /\ UNCHANGED <<lock, power, startedOk, target, bulk>>
  BY <1>1, GotoMoves DEF ResetPort, pnpVars, bulkVars
<1>3. /\ lock = {k}
      /\ \A j \in Resets : j # k => reset[j].pc \notin Critical
      /\ power \in {"D0", "leaving"}
  BY <1>2, IInvHeld DEF Critical
<1>4. Locked'
  BY <1>2, LockedKept DEF Critical
<1>5. Stopping' /\ OnBus'
  BY <1>1, <1>2, <1>3 DEF Stopping, OnBus, Critical
<1>6. Starting'
  BY <1>2, <1>3 DEF Starting, Critical
<1>7. QED
  BY <1>4, <1>5, <1>6 DEF IInv

LEMMA IInvStartPipe ==
  ASSUME IInv, TypeOK', NEW k \in Resets, ResetStart(k)
  PROVE  IInv'
<1>1. TypeOK /\ Locked /\ Stopping /\ OnBus /\ Starting
  BY DEF IInv
<1>2. /\ reset[k].pc = "start" /\ reset[k].at \in 1 .. 3
      /\ UNCHANGED <<lock, power>>
  BY <1>1 DEF ResetStart, pnpVars, TypeOK
<1>3. /\ lock = {k}
      /\ \A j \in Resets : j # k => reset[j].pc \notin Critical
      /\ power \in {"D0", "leaving"}
  BY <1>2, IInvHeld DEF Critical
<1>4. CASE /\ target' = [target EXCEPT ![Pipe(k)] = "started"]
           /\ bulk' = [d \in Dirs |-> IF PipeOf[d] = Pipe(k) /\ bulk[d] = "pended"
                                      THEN "sent" ELSE bulk[d]]
           /\ GotoNext(k, "start", "release")
           /\ startedOk' = TRUE
  <2>1. /\ \/ reset'[k].pc = "start" /\ reset'[k].at = reset[k].at + 1
           \/ reset'[k].pc = "release" /\ reset[k].at = 3
        /\ \A j \in Resets : j # k => reset'[j] = reset[j]
    BY <1>1, <1>2, <1>4, GotoMoves DEF GotoNext
  <2>2. Locked'
    BY <1>2, <2>1, LockedKept DEF Critical
  <2>3. Stopping'
    BY <1>3, <2>1 DEF Stopping, Critical
  <2>4. /\ Pipe(k) \in Pipes /\ Pipe(k) = PipeOrder[reset[k].at]
        /\ target \in [Pipes -> {"started", "stopped"}]
    BY <1>1, <1>2, PipeOrderFacts DEF Pipe, TypeOK
  <2>5. \A p \in Pipes : target'[p] = IF p = Pipe(k) THEN "started" ELSE target[p]
    BY <1>4, <2>4
  <2>6. OnBus'
    BY <1>1, <1>4, <2>5, PipeOfFacts DEF OnBus
  <2>7. Starting'
    <3>1. \A i \in 1 .. 3 : i < reset[k].at => target[PipeOrder[i]] = "started"
      BY <1>1, <1>2 DEF Starting
    <3>2. \A i \in 1 .. 3 : i <= reset[k].at => target'[PipeOrder[i]] = "started"
      BY <1>2, <2>4, <2>5, <3>1, PipeOrderFacts
    <3>3. \A i \in 1 .. 3 : reset[k].at = 3 \/ i < reset[k].at + 1 => i <= reset[k].at
      BY <1>2
    <3>4. QED
      BY <1>2, <1>3, <2>1, <3>2, <3>3 DEF Starting, Critical
  <2>8. QED
    BY <2>2, <2>3, <2>6, <2>7 DEF IInv
<1>5. CASE Goto(k, "release", 1) /\ startedOk' = FALSE /\ UNCHANGED <<target, bulk>>
  <2>1. /\ reset'[k].pc = "release"
        /\ \A j \in Resets : j # k => reset'[j] = reset[j]
    BY <1>1, <1>5, GotoMoves
  <2>2. Locked'
    BY <1>2, <2>1, LockedKept DEF Critical
  <2>3. Stopping' /\ OnBus'
    BY <1>1, <1>3, <1>5, <2>1 DEF Stopping, OnBus, Critical
  <2>4. Starting'
    BY <1>2, <1>3, <1>5, <2>1 DEF Starting, Critical
  <2>5. QED
    BY <2>2, <2>3, <2>4 DEF IInv
<1>6. QED
  BY <1>4, <1>5 DEF ResetStart

LEMMA IInvRelease ==
  ASSUME IInv, TypeOK', NEW k \in Resets, ResetRelease(k)
  PROVE  IInv'
<1>1. TypeOK /\ Locked /\ Stopping /\ OnBus /\ Starting
  BY DEF IInv
<1>2. /\ reset[k].pc = "release"
      /\ reset'[k].pc = "done"
      /\ \A j \in Resets : j # k => reset'[j] = reset[j]
      /\ lock' = {}
      /\ UNCHANGED <<power, startedOk, target, bulk>>
  BY <1>1, GotoMoves DEF ResetRelease, pnpVars, bulkVars
<1>3. /\ \A j \in Resets : j # k => reset[j].pc \notin Critical
      /\ power \in {"D0", "leaving"}
  BY <1>2, IInvHeld DEF Critical
<1>4. Locked'
  BY <1>1, <1>2, <1>3 DEF Locked, Critical
<1>5. Stopping' /\ OnBus'
  BY <1>1, <1>2, <1>3 DEF Stopping, OnBus, Critical
<1>6. startedOk => \A p \in Pipes : target[p] = "started"
  BY <1>1, <1>2, PipeOrderFacts DEF Starting
<1>7. Starting'
  BY <1>2, <1>3, <1>6 DEF Starting, Critical
<1>8. QED
  BY <1>4, <1>5, <1>7 DEF IInv

LEMMA IInvStep == IInv /\ TypeOK' /\ [Next]_vars => IInv'
<1>1. SUFFICES ASSUME IInv, TypeOK', [Next]_vars PROVE IInv'
  OBVIOUS
<1>2. CASE UNCHANGED vars
  BY <1>1, <1>2
  DEF IInv, Locked, Stopping, OnBus, Starting, vars, pnpVars, resetVars, bulkVars
<1>3. ASSUME NEW k \in Resets, ResetIoctl(k) \/ ResetAcquireFails(k) \/ ResetStep(k)
      PROVE  IInv'
  BY <1>1, <1>3, IInvAcquire, IInvStop, IInvStopped, IInvPort, IInvStartPipe, IInvRelease
  DEF ResetStep
<1>4. CASE Next
  BY <1>1, <1>3, <1>4, IInvStart, IInvLeave, IInvBulk DEF Next
<1>5. QED
  BY <1>1, <1>2, <1>4

LEMMA Invariant == Spec => []IInv
<1>1. Init => IInv
  BY IInvInit
<1>2. IInv /\ TypeOK' /\ [Next]_vars => IInv'
  BY IInvStep
<1>3. QED
  BY <1>1, <1>2, TypeCorrect, PTL DEF Spec

\* Between StopAllPipes and StartAllPipes no pipe runs and nothing is on the
\* bus, whatever the other callbacks do: the lock keeps other resets out, and
\* the framework does not start the device while the IOCTL is being handled.
THEOREM PortIsQuiet == Spec => []PortResetQuiet
<1>1. IInv => PortResetQuiet
  <2>1. SUFFICES ASSUME IInv, NEW k \in Resets, reset[k].pc = "port"
                 PROVE  /\ \A p \in Pipes : target[p] = "stopped"
                        /\ \A d \in Dirs : bulk[d] # "sent"
    BY DEF PortResetQuiet
  <2>2. \A p \in Pipes : target[p] = "stopped"
    BY <2>1, PipeOrderFacts DEF IInv, Stopping
  <2>3. QED
    BY <2>1, <2>2, PipeOfFacts DEF IInv, OnBus
<1>2. QED
  BY <1>1, Invariant, PTL

\* No transfer waits for a stopped pipe in D0 unless a reset is in progress or
\* has reported that it could not start the pipes.
THEOREM StoppedIsReported == Spec => []RunningUnlessReported
<1>1. IInv => RunningUnlessReported
  <2>1. SUFFICES ASSUME IInv, power = "D0", lock = {}, startedOk
                 PROVE  /\ \A p \in Pipes : target[p] = "started"
                        /\ \A d \in Dirs : bulk[d] # "pended"
    BY DEF RunningUnlessReported
  <2>2. \A p \in Pipes : target[p] = "started"
    BY <2>1 DEF IInv, Starting
  <2>3. QED
    BY <2>1, <2>2, PipeOfFacts DEF IInv, OnBus
<1>2. QED
  BY <1>1, Invariant, PTL
=============================================================================
