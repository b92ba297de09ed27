-------------------------- MODULE DaemonLockProofs --------------------------
(* Proofs of the safety of main_lock and about stopping: what the answers  *)
(* of the daemons mean, and which rows a process leaves in main_lock, for  *)
(* every set of daemons, every order of stopping, all faults and any       *)
(* number of crashes and restarts.                                         *)
EXTENDS DaemonLock, SequenceTheorems, TLAPS

Inv == TypeOK /\ LockInv

LEMMA OrderFacts ==
    /\ Len(DaemonSeq) \in Nat
    /\ Len(DaemonSeq) > 0
    /\ \A k \in 1 .. Len(DaemonSeq) : DaemonSeq[k] \in Daemons
<1>1. DaemonSeq \in Seq(Daemons) /\ DaemonSeq # <<>>
  BY SeqAssumption
<1>2. Len(DaemonSeq) \in Nat /\ Len(DaemonSeq) # 0
  BY <1>1, EmptySeq
<1> QED
  BY <1>1, <1>2

LEMMA InitInv == Init => Inv
<1> SUFFICES ASSUME Init PROVE Inv
  OBVIOUS
<1>1. 1 \in 1 .. Len(DaemonSeq)
  BY OrderFacts
<1>2. TypeOK
  <2>1. stop \in [Stoppers -> [phase : Phases, k : 1 .. Len(DaemonSeq)]]
    BY <1>1 DEF Init, Phases
  <2>2. pc \in [Daemons -> Points] /\ turn \in [Daemons -> 1 .. 2]
    BY DEF Init, Points
  <2>3. breaker \in [Daemons -> BOOLEAN] /\ answer \in [Daemons -> BOOLEAN]
    BY Zenon DEF Init
  <2> QED
    BY <2>1, <2>2, <2>3 DEF Init, TypeOK
<1>3. LockInv
  BY DEF Init, LockInv, Holds
<1> QED
  BY <1>2, <1>3 DEF Inv

(* The types, one daemon's step at a time.                                 *)
LEMMA DaemonTypes ==
    ASSUME Inv, NEW d \in Daemons, Daemon(d)
    PROVE  TypeOK'
<1> USE DEF Inv, TypeOK, Points, LockInv, stopVars, runVars
<1>1. CASE Break(d)
  BY <1>1 DEF Break, TakeBreaker, Goto
<1>2. CASE Boot(d)
  BY <1>2 DEF Boot, Goto, chanVars
<1>3. CASE BeginRound(d)
  BY <1>3 DEF BeginRound, Enter, chanVars
<1>4. CASE EndRound(d)
  BY <1>4 DEF EndRound, Goto, chanVars
<1>5. CASE PollFree(d)
  BY <1>5 DEF PollFree, Goto, chanVars
<1>6. CASE PollError(d)
  BY <1>6 DEF PollError, Goto, chanVars
<1>7. CASE Insert(d)
  BY <1>7 DEF Insert, Goto, chanVars
<1>8. CASE InsertError(d)
  BY <1>8 DEF InsertError, Goto, chanVars
<1>9. CASE Unlock(d)
  BY <1>9 DEF Unlock, Goto, DeleteRow, AfterSection, chanVars
<1>10. CASE Leak(d)
  BY <1>10 DEF Leak, Goto, chanVars
<1>11. CASE BreakHolding(d)
  BY <1>11 DEF BreakHolding, TakeBreaker, Goto
<1>12. CASE AnswerHolding(d)
  BY <1>12 DEF AnswerHolding, TakeBreaker, Goto
<1>13. CASE UnlockParting(d)
  BY <1>13 DEF UnlockParting, Goto, DeleteRow, chanVars
<1>14. CASE Part(d)
  BY <1>14 DEF Part, Goto, chanVars
<1>15. CASE Download(d)
  BY <1>15 DEF Download, TakeBreaker, daemonVars
<1>16. CASE Pause(d)
  BY <1>16 DEF Pause, Enter, chanVars
<1>17. CASE AskNodes(d)
  BY <1>17 DEF AskNodes, Enter, chanVars
<1> QED
  BY <1>1, <1>2, <1>3, <1>4, <1>5, <1>6, <1>7, <1>8, <1>9, <1>10, <1>11, <1>12, <1>13, <1>14, <1>15, <1>16, <1>17 DEF Daemon

(* The inductive core: what one daemon's step does to the lock.            *)
LEMMA DaemonLocks ==
    ASSUME Inv, NEW d \in Daemons, Daemon(d)
    PROVE  LockInv'
<1> USE KindsAssumption DEF Inv, TypeOK, LockInv, Holds
<1>1. CASE Break(d)
  BY <1>1 DEF Break, TakeBreaker, Goto
<1>2. CASE Boot(d)
  BY <1>2 DEF Boot, Goto, chanVars
<1>3. CASE BeginRound(d)
  BY <1>3 DEF BeginRound, Enter, chanVars
<1>4. CASE EndRound(d)
  BY <1>4 DEF EndRound, Goto, chanVars
<1>5. CASE PollFree(d)
  BY <1>5 DEF PollFree, Goto, chanVars
<1>6. CASE PollError(d)
  BY <1>6 DEF PollError, Goto, chanVars
<1>7. CASE Insert(d)
  BY <1>7 DEF Insert, Goto, chanVars
<1>8. CASE InsertError(d)
  BY <1>8 DEF InsertError, Goto, chanVars
<1>9. CASE Unlock(d)
  BY <1>9 DEF Unlock, Goto, DeleteRow, AfterSection, chanVars
<1>10. CASE Leak(d)
  BY <1>10 DEF Leak, Goto, chanVars
<1>11. CASE BreakHolding(d)
  BY <1>11 DEF BreakHolding, TakeBreaker, Goto
<1>12. CASE AnswerHolding(d)
  BY <1>12 DEF AnswerHolding, TakeBreaker, Goto
<1>13. CASE UnlockParting(d)
  BY <1>13 DEF UnlockParting, Goto, DeleteRow, chanVars
<1>14. CASE Part(d)
  BY <1>14 DEF Part, Goto, chanVars
<1>15. CASE Download(d)
  BY <1>15 DEF Download, TakeBreaker, daemonVars
<1>16. CASE Pause(d)
  BY <1>16 DEF Pause, Enter, chanVars
<1>17. CASE AskNodes(d)
  BY <1>17 DEF AskNodes, Enter, chanVars
<1> QED
  BY <1>1, <1>2, <1>3, <1>4, <1>5, <1>6, <1>7, <1>8, <1>9, <1>10, <1>11, <1>12, <1>13, <1>14, <1>15, <1>16, <1>17 DEF Daemon

(* A stopping goroutine moves tokens and answers, and no daemon.           *)
LEMMA StopperTypes ==
    ASSUME Inv, NEW s \in Stoppers, Stopper(s)
    PROVE  TypeOK'
<1> DEFINE N == Len(DaemonSeq)
           d == DaemonSeq[stop[s].k]
<1> USE DEF Inv, TypeOK, Phases, daemonVars, chanVars, stopVars, runVars
<1>1. N \in Nat /\ N > 0 /\ stop[s].k \in 1 .. N /\ d \in Daemons
  BY OrderFacts
<1>2. CASE BeginStop(s)
  BY <1>1, <1>2 DEF BeginStop
<1>3. CASE SendBreaker(s)
  BY <1>1, <1>3 DEF SendBreaker, Advance
<1>4. CASE ReceiveAnswer(s)
  BY <1>1, <1>4 DEF ReceiveAnswer, Advance
<1>5. CASE CloseDB(s)
  BY <1>5 DEF CloseDB
<1> QED
  BY <1>2, <1>3, <1>4, <1>5 DEF Stopper

LEMMA StopperLocks ==
    ASSUME Inv, NEW s \in Stoppers, Stopper(s)
    PROVE  LockInv'
BY DEF Inv, LockInv, Holds, Stopper, BeginStop, SendBreaker, ReceiveAnswer,
       CloseDB, Advance, daemonVars, chanVars, stopVars, runVars

(* Nobody is inside a section once the process has ended.                  *)
LEMMA EndInv ==
    ASSUME Inv, ProcessEnds, crashes' \in Nat, starts' \in Nat
    PROVE  Inv'
BY SeqAssumption
   DEF Inv, TypeOK, LockInv, Holds, Points, Phases, ProcessEnds

LEMMA StepInv == Inv /\ [Next]_vars => Inv'
<1> SUFFICES ASSUME Inv, [Next]_vars PROVE Inv'
  OBVIOUS
<1>1. ASSUME NEW d \in Daemons, Daemon(d) PROVE Inv'
  BY <1>1, DaemonTypes, DaemonLocks DEF Inv
<1>2. ASSUME NEW s \in Stoppers, Stopper(s) PROVE Inv'
  BY <1>2, StopperTypes, StopperLocks DEF Inv
<1>3. CASE WatcherStarts
  BY <1>3 DEF Inv, TypeOK, LockInv, Holds, Phases, Stoppers, WatcherStarts,
              daemonVars, chanVars, runVars
<1>4. CASE RequestStop
  BY <1>4 DEF Inv, TypeOK, LockInv, Holds, RequestStop, daemonVars, chanVars,
              runVars
<1>5. CASE Exit
  BY <1>5, EndInv DEF Exit, runVars, Inv, TypeOK
<1>6. CASE Crash
  BY <1>6, EndInv DEF Crash, Inv, TypeOK
<1>7. CASE Start
  <2>1. TypeOK'
    BY <1>7, SeqAssumption DEF Inv, TypeOK, Points, Phases, Start, chanVars
  <2>2. LockInv'
    BY <1>7 DEF Inv, TypeOK, LockInv, Holds, Start
  <2> QED
    BY <2>1, <2>2 DEF Inv
<1>8. CASE Off \/ UNCHANGED vars
  BY <1>8 DEF Inv, TypeOK, LockInv, Holds, Off, vars, daemonVars, chanVars,
              stopVars, runVars
<1> QED
  BY <1>1, <1>2, <1>3, <1>4, <1>5, <1>6, <1>7, <1>8 DEF Next

LEMMA InvAlways == Spec => []Inv
BY InitInv, StepInv, PTL DEF Spec

(* Every variable keeps its type.                                          *)
THEOREM TypeCorrect == Spec => []TypeOK
<1>1. Inv => TypeOK
  BY DEF Inv
<1> QED
  BY <1>1, InvAlways, PTL

(* A daemon in its section owns the row of main_lock, and whoever is about *)
(* to insert its row has seen none, alone under the mutex (utils.DbLock).  *)
THEOREM LockCorrect == Spec => []LockInv
<1>1. Inv => LockInv
  BY DEF Inv
<1> QED
  BY <1>1, InvAlways, PTL

(* At most one daemon is inside a lock section, however many rows were     *)
(* leaked, crashes survived and processes started before.                  *)
THEOREM Exclusion == Spec => []MutualExclusion
<1>1. LockInv => MutualExclusion
  BY DEF LockInv, MutualExclusion
<1> QED
  BY <1>1, LockCorrect, PTL

-----------------------------------------------------------------------------
(* Stopping.                                                               *)

(* An answer of a daemon that is no collector is its last act.             *)
AnswerIsEnd == \A d \in Daemons \ Collectors : answer[d] => pc[d] = "done"

(* The answer of the k-th daemon has been received.                        *)
Received(s, k) ==
    \/ stop[s].phase = "closing"
    \/ stop[s].phase = "receive" /\ k < stop[s].k

ReceivedIsEnd ==
    \A s \in Stoppers : \A k \in 1 .. Len(DaemonSeq) :
        Received(s, k) /\ DaemonSeq[k] \notin Collectors
            => pc[DaemonSeq[k]] = "done"

(* Who closed the database had all answers; no daemon outlives a process.  *)
ClosedByStopper ==
    /\ proc = "closing" => \E s \in Stoppers : stop[s].phase = "closing"
    /\ proc = "down" => \A d \in Daemons : pc[d] = "dead"

(* The daemons that are neither generators nor collectors.                 *)
Tidy == Daemons \ (Generators \cup Collectors)

Faultless == crashes = 0 /\ "db" \notin Faults

TidyRow == Faultless => \A d \in Tidy : row = d => pc[d] = "in"

StopInv == AnswerIsEnd /\ ReceivedIsEnd /\ ClosedByStopper /\ TidyRow

LEMMA InitStop == Init => StopInv
<1> SUFFICES ASSUME Init PROVE StopInv
  OBVIOUS
<1>1. AnswerIsEnd /\ ClosedByStopper
  BY DEF Init, AnswerIsEnd, ClosedByStopper
<1>2. ReceivedIsEnd
  BY DEF Init, ReceivedIsEnd, Received
<1>3. TidyRow
  BY KindsAssumption DEF Init, TidyRow, Tidy
<1> QED
  BY <1>1, <1>2, <1>3 DEF StopInv

(* What a step of daemon d can change: its own place, unless it is done;   *)
(* its answer, which ends it unless it is a collector; and the row, which  *)
(* it leaves behind only if it is untidy or its DELETE fails.              *)
OwnPlace(d) ==
    /\ pc[d] \notin {"done", "dead"}
    /\ \A e \in Daemons : e # d => pc'[e] = pc[e]

OwnAnswer(d) ==
    /\ \A e \in Daemons : e # d => answer'[e] = answer[e]
    /\ answer'[d] => answer[d] \/ d \in Collectors \/ pc'[d] = "done"

OwnRow(d) ==
    \/ row' = Nobody
    \/ row' = d /\ pc'[d] = "in"
    \/ row' = row /\ (row = d /\ pc[d] = "in" =>
                          \/ pc'[d] = "in" \/ d \notin Tidy
                          \/ proc # "up" \/ "db" \in Faults)

OwnStep(d) == OwnPlace(d) /\ OwnAnswer(d) /\ OwnRow(d)

LEMMA DaemonSteps ==
    ASSUME Inv, NEW d \in Daemons, Daemon(d)
    PROVE  OwnStep(d) /\ UNCHANGED <<proc, stop, crashes>>
<1> USE DEF Inv, TypeOK, OwnStep, OwnPlace, OwnAnswer, OwnRow, stopVars,
            runVars
<1>1. CASE Break(d)
  BY <1>1 DEF Break, TakeBreaker, Goto, CheckPoints
<1>2. CASE Boot(d)
  BY <1>2 DEF Boot, Goto, chanVars
<1>3. CASE BeginRound(d)
  BY <1>3 DEF BeginRound, Enter, chanVars
<1>4. CASE EndRound(d)
  BY <1>4 DEF EndRound, Goto, chanVars
<1>5. CASE PollFree(d)
  BY <1>5 DEF PollFree, Goto, chanVars
<1>6. CASE PollError(d)
  BY <1>6 DEF PollError, Goto, chanVars
<1>7. CASE Insert(d)
  BY <1>7 DEF Insert, Goto, chanVars
<1>8. CASE InsertError(d)
  BY <1>8 DEF InsertError, Goto, chanVars
<1>9. CASE Unlock(d)
  BY <1>9 DEF Unlock, Goto, DeleteRow, chanVars
<1>10. CASE Leak(d)
  BY <1>10 DEF Leak, Goto, Tidy, chanVars
<1>11. CASE BreakHolding(d)
  BY <1>11 DEF BreakHolding, TakeBreaker, Goto, Tidy
<1>12. CASE AnswerHolding(d)
  BY <1>12 DEF AnswerHolding, TakeBreaker, Goto, Tidy
<1>13. CASE UnlockParting(d)
  BY <1>13 DEF UnlockParting, Goto, DeleteRow, chanVars
<1>14. CASE Part(d)
  BY <1>14 DEF Part, Goto, chanVars
<1>15. CASE Download(d)
  BY <1>15 DEF Download, TakeBreaker, daemonVars
<1>16. CASE Pause(d)
  BY <1>16 DEF Pause, Enter, chanVars
<1>17. CASE AskNodes(d)
  BY <1>17 DEF AskNodes, Enter, chanVars
<1> QED
  BY <1>1, <1>2, <1>3, <1>4, <1>5, <1>6, <1>7, <1>8, <1>9, <1>10, <1>11, <1>12, <1>13, <1>14, <1>15, <1>16, <1>17 DEF Daemon

(* Once a stopping goroutine closes, all but the collectors are done.      *)
LEMMA ClosingIsEnd ==
    ASSUME ReceivedIsEnd, NEW s \in Stoppers, stop[s].phase = "closing",
           NEW d \in Daemons \ Collectors
    PROVE  pc[d] = "done"
<1>1. PICK k \in 1 .. Len(DaemonSeq) : DaemonSeq[k] = d
  BY SeqAssumption
<1> QED
  BY <1>1 DEF ReceivedIsEnd, Received

LEMMA DaemonStop ==
    ASSUME Inv, StopInv, NEW d \in Daemons, Daemon(d)
    PROVE  StopInv'
<1>1. OwnStep(d) /\ UNCHANGED <<proc, stop, crashes>>
  BY DaemonSteps
<1> USE <1>1 DEF StopInv, OwnStep
<1>2. AnswerIsEnd'
  BY DEF AnswerIsEnd, OwnPlace, OwnAnswer
<1>3. ReceivedIsEnd'
  BY OrderFacts DEF ReceivedIsEnd, Received, OwnPlace
<1>4. ClosedByStopper'
  BY DEF ClosedByStopper, OwnPlace
<1>5. TidyRow'
  <2> SUFFICES ASSUME Faultless, NEW e \in Tidy, row' = e PROVE pc'[e] = "in"
    BY DEF TidyRow, Faultless
  <2>1. e \in Daemons /\ e # Nobody /\ e \notin Collectors
    BY KindsAssumption DEF Tidy
  <2>2. CASE row' = d /\ pc'[d] = "in"
    BY <2>2
  <2>3. CASE row' = row
    <3>1. pc[e] = "in"
      BY <2>3 DEF TidyRow
    <3>2. proc = "up"
      <4>1. proc # "closing"
        BY <2>1, <3>1, ClosingIsEnd DEF ClosedByStopper
      <4>2. proc # "down"
        BY <2>1, <3>1 DEF ClosedByStopper
      <4> QED
        BY <4>1, <4>2 DEF Inv, TypeOK
    <3> QED
      BY <2>1, <2>2, <2>3, <3>1, <3>2 DEF OwnRow, OwnPlace, Faultless
  <2> QED
    BY <2>1, <2>2, <2>3 DEF OwnRow
<1> QED
  BY <1>2, <1>3, <1>4, <1>5

(* A stopping goroutine counts an answer only when it is there.            *)
LEMMA StopperStop ==
    ASSUME Inv, StopInv, NEW s \in Stoppers, Stopper(s)
    PROVE  StopInv'
<1> DEFINE N == Len(DaemonSeq)
           d == DaemonSeq[stop[s].k]
<1>1. N \in Nat /\ N > 0 /\ stop[s].k \in 1 .. N /\ d \in Daemons
  BY OrderFacts DEF Inv, TypeOK
<1>2. UNCHANGED <<pc, row, crashes>>
  BY DEF Stopper, BeginStop, SendBreaker, ReceiveAnswer, CloseDB, daemonVars,
         runVars
<1>3. AnswerIsEnd'
  BY <1>1, <1>2 DEF StopInv, AnswerIsEnd, Inv, TypeOK, Stopper, BeginStop, SendBreaker,
                    ReceiveAnswer, CloseDB, chanVars
<1>4. ReceivedIsEnd'
  <2> USE <1>1, <1>2 DEF StopInv, ReceivedIsEnd, Received, Inv, TypeOK
  <2>1. CASE BeginStop(s)
    BY <2>1 DEF BeginStop
  <2>2. CASE SendBreaker(s)
    BY <2>2 DEF SendBreaker, Advance
  <2>3. CASE ReceiveAnswer(s)
    <3>1. d \notin Collectors => pc[d] = "done"
      BY <2>3 DEF ReceiveAnswer, AnswerIsEnd
    <3> QED
      BY <2>3, <3>1 DEF ReceiveAnswer, Advance
  <2>4. CASE CloseDB(s)
    BY <2>4 DEF CloseDB, stopVars
  <2> QED
    BY <2>1, <2>2, <2>3, <2>4 DEF Stopper
<1>5. ClosedByStopper'
  BY <1>1, <1>2 DEF StopInv, ClosedByStopper, Inv, TypeOK, Stopper, BeginStop,
            SendBreaker, ReceiveAnswer, CloseDB, Advance, stopVars
<1>6. TidyRow'
  BY <1>2 DEF StopInv, TidyRow, Faultless
<1> QED
  BY <1>3, <1>4, <1>5, <1>6 DEF StopInv

(* The end of a process after which its tidy daemons have left no row.     *)
LEMMA EndStop ==
    ASSUME ProcessEnds, Faultless' => \A d \in Tidy : row # d
    PROVE  StopInv'
<1>1. AnswerIsEnd' /\ ClosedByStopper'
  BY DEF ProcessEnds, AnswerIsEnd, ClosedByStopper
<1>2. ReceivedIsEnd'
  BY DEF ProcessEnds, ReceivedIsEnd, Received
<1>3. TidyRow'
  BY DEF ProcessEnds, TidyRow, Faultless
<1> QED
  BY <1>1, <1>2, <1>3 DEF StopInv

LEMMA StepStop == Inv /\ StopInv /\ [Next]_vars => StopInv'
<1> SUFFICES ASSUME Inv, StopInv, [Next]_vars PROVE StopInv'
  OBVIOUS
<1>1. ASSUME NEW d \in Daemons, Daemon(d) PROVE StopInv'
  BY <1>1, DaemonStop
<1>2. ASSUME NEW s \in Stoppers, Stopper(s) PROVE StopInv'
  BY <1>2, StopperStop
<1>3. CASE WatcherStarts
  BY <1>3 DEF Inv, TypeOK, StopInv, AnswerIsEnd, ReceivedIsEnd, Received,
              ClosedByStopper, TidyRow, Faultless, WatcherStarts, Stoppers,
              daemonVars, chanVars, runVars
<1>4. CASE RequestStop
  BY <1>4 DEF StopInv, AnswerIsEnd, ReceivedIsEnd, Received, ClosedByStopper,
              TidyRow, Faultless, RequestStop, daemonVars, chanVars, runVars
<1>5. CASE Exit
  <2>1. ASSUME Faultless, NEW d \in Tidy, row = d PROVE FALSE
    <3>1. pc[d] = "in"
      BY <2>1 DEF StopInv, TidyRow
    <3>2. pc[d] = "done"
      BY <1>5, ClosingIsEnd DEF Exit, StopInv, ClosedByStopper, Tidy
    <3> QED
      BY <3>1, <3>2
  <2> QED
    BY <1>5, <2>1, EndStop DEF Exit, Faultless, runVars
<1>6. CASE Crash
  BY <1>6, EndStop DEF Crash, Faultless, Inv, TypeOK
<1>7. CASE Start
  <2>1. ASSUME NEW d \in Daemons PROVE pc[d] = "dead"
    BY <1>7 DEF Start, StopInv, ClosedByStopper
  <2>2. AnswerIsEnd' /\ ClosedByStopper'
    BY <1>7, <2>1 DEF Start, StopInv, AnswerIsEnd, ClosedByStopper, chanVars
  <2>3. ReceivedIsEnd'
    BY <1>7 DEF Start, ReceivedIsEnd, Received
  <2>4. TidyRow'
    BY <1>7, <2>1 DEF Start, StopInv, TidyRow, Faultless, Tidy
  <2> QED
    BY <2>2, <2>3, <2>4 DEF StopInv
<1>8. CASE Off \/ UNCHANGED vars
  BY <1>8 DEF StopInv, AnswerIsEnd, ReceivedIsEnd, Received, ClosedByStopper,
              TidyRow, Faultless, Off, vars, daemonVars, chanVars, stopVars,
              runVars
<1> QED
  BY <1>1, <1>2, <1>3, <1>4, <1>5, <1>6, <1>7, <1>8 DEF Next

LEMMA StopAlways == Spec => []StopInv
BY InitStop, StepStop, InvAlways, PTL DEF Spec

(* When a stopping goroutine has all its answers, every daemon except the  *)
(* collectors has left its loop (stopdaemons.Signals, WaitStopTime).       *)
THEOREM AnswersKill == Spec => []OthersKilled
<1>1. StopInv => OthersKilled
  BY ClosingIsEnd DEF StopInv, OthersKilled
<1> QED
  BY <1>1, StopAlways, PTL

(* Without crashes and database errors only generators and collectors      *)
(* leave a row behind in main_lock (utils.DbUnlock and its callers).       *)
THEOREM StaleRows == Spec => []StaleRowCause
<1>1. Inv /\ StopInv => StaleRowCause
  BY DEF Inv, TypeOK, StopInv, TidyRow, Faultless, Tidy, StaleRowCause, Stale, Holds
<1> QED
  BY <1>1, InvAlways, StopAlways, PTL
=============================================================================
