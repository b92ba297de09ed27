----------------------------- MODULE DaemonLock -----------------------------
(***************************************************************************)
(* The one-row table main_lock, by which the daemons of a node take turns  *)
(* on the database, and the protocol that stops the daemons.               *)
(*                                                                         *)
(* Every daemon is a goroutine with a breaker channel and an answer        *)
(* channel, both of capacity one.  A daemon that polls its breaker and     *)
(* finds a token answers and leaves its loop.  Two goroutines may stop a   *)
(* node, the signal handler and the watcher of the table stop_daemons:     *)
(* each sends a token to all daemons, waits for all answers in the same    *)
(* order, closes the database and ends the process.  main_lock is a        *)
(* table: its row survives a crash and a restart.                          *)
(*                                                                         *)
(* Left out: what a daemon does while it holds the lock (module            *)
(* BlockStore), the branch of DbLock for mobile builds, which deletes a    *)
(* row older than ten minutes, and the option -startBlockId.               *)
(***************************************************************************)
EXTENDS Naturals, Sequences

CONSTANTS
    Plain,       \* QueueParserTx, QueueParserBlocks, UpdFullNodes
    Generators,  \* BlockGenerator, which holds the lock twice per round
    Collectors,  \* BlocksCollection, likewise, and unlocks after answering
    Free,        \* daemons that never take the lock
    DaemonSeq,   \* utils.DaemonsChans: the order in which daemons are stopped
    Signal,      \* the goroutine of stopdaemons.Signals
    Watcher,     \* the goroutine of stopdaemons.WaitStopTime
    Nobody,      \* no owner
    Faults,      \* subset of {"db", "work"}: errors of the database, and of
                 \* the work done in a lock section, that may occur
    MaxCrashes,  \* bound on crashes
    MaxStarts    \* bound on starts of the process

Daemons  == Plain \cup Generators \cup Collectors \cup Free
Lockers  == Plain \cup Generators \cup Collectors
Stoppers == {Signal, Watcher}

ASSUME KindsAssumption ==
    /\ Generators \cap Collectors = {}
    /\ Plain \cap (Generators \cup Collectors) = {}
    /\ Free \cap Lockers = {}
    /\ Nobody \notin Daemons

ASSUME SeqAssumption ==
    /\ DaemonSeq \in Seq(Daemons) /\ DaemonSeq # <<>>
    /\ \A d \in Daemons : \E k \in 1 .. Len(DaemonSeq) : DaemonSeq[k] = d

ASSUME BoundsAssumption ==
    /\ Faults \subseteq {"db", "work"}
    /\ MaxCrashes \in Nat
    /\ MaxStarts \in Nat

VARIABLES
    proc,     \* "up", "closing" (database closed, still running) or "down"
    row,      \* script_name of the row of main_lock, or Nobody
    mutex,    \* who is inside utils.Mutex
    pc,       \* where each daemon is
    turn,     \* which of its lock sections of the round a daemon is in
    breaker,  \* a token is in the breaker channel
    answer,   \* an answer is in the answer channel
    stop,     \* progress of each stopping goroutine
    stopRow,  \* a row is in stop_daemons
    crashes,  \* crashes so far
    starts    \* starts so far

daemonVars == <<pc, turn>>
chanVars   == <<breaker, answer>>
stopVars   == <<stop, stopRow>>
runVars    == <<crashes, starts>>
vars == <<proc, row, mutex, daemonVars, chanVars, stopVars, runVars>>

Points == {"dead", "boot", "top", "lock", "insert", "in", "pause", "net",
           "parting", "parted", "sleep", "done"}
Phases == {"off", "starting", "idle", "send", "receive", "closing"}

(* Where a daemon polls its breaker.                                       *)
CheckPoints == {"boot", "top", "lock", "net", "sleep", "parted"}

TypeOK ==
    /\ proc \in {"up", "closing", "down"}
    /\ row \in Daemons \cup {Nobody}
    /\ mutex \in Daemons \cup {Nobody}
    /\ pc \in [Daemons -> Points]
    /\ turn \in [Daemons -> 1 .. 2]
    /\ breaker \in [Daemons -> BOOLEAN]
    /\ answer \in [Daemons -> BOOLEAN]
    /\ stop \in [Stoppers -> [phase : Phases, k : 1 .. Len(DaemonSeq)]]
    /\ stopRow \in BOOLEAN
    /\ crashes \in Nat
    /\ starts \in Nat

Init ==
    /\ proc = "down"
    /\ row = Nobody
    /\ mutex = Nobody
    /\ pc = [d \in Daemons |-> "dead"]
    /\ turn = [d \in Daemons |-> 1]
    /\ breaker = [d \in Daemons |-> FALSE]
    /\ answer = [d \in Daemons |-> FALSE]
    /\ stop = [s \in Stoppers |-> [phase |-> "off", k |-> 1]]
    /\ stopRow = FALSE
    /\ crashes = 0
    /\ starts = 0

-----------------------------------------------------------------------------
(* What every daemon does.                                                 *)

Goto(d, point) == pc' = [pc EXCEPT ![d] = point]

Enter(d, point, n) ==
    /\ pc' = [pc EXCEPT ![d] = point]
    /\ turn' = [turn EXCEPT ![d] = n]

(* Mutant: the token is consumed and no answer sent.                       *)
TakeBreakerMute(d) ==
    /\ breaker[d]
    /\ breaker' = [breaker EXCEPT ![d] = FALSE]
    /\ UNCHANGED answer

(* The breaker is consumed and the name of the daemon sent as the answer:  *)
(* the send blocks while the answer channel is full.  (No third token can  *)
(* arrive meanwhile, so that both may be one step.)                        *)
TakeBreaker(d) ==
    /\ breaker[d]
    /\ ~answer[d]
    /\ breaker' = [breaker EXCEPT ![d] = FALSE]
    /\ answer' = [answer EXCEPT ![d] = TRUE]

(* Mutant: the result of dSleep is ignored, the daemon goes on.            *)
BreakIgnored(d) ==
    /\ pc[d] \in CheckPoints
    /\ TakeBreaker(d)
    /\ Goto(d, IF pc[d] = "sleep" THEN "top" ELSE "done")
    /\ UNCHANGED <<proc, row, mutex, turn, stopVars, runVars>>

(* CheckDaemonsRestart, and the select at the head of DbLock's loop.       *)
Break(d) ==
    /\ pc[d] \in CheckPoints
    /\ TakeBreaker(d)
    /\ Goto(d, "done")
    /\ UNCHANGED <<proc, row, mutex, turn, stopVars, runVars>>

(* DbConnect and CheckInstall have returned.                               *)
Boot(d) ==
    /\ pc[d] = "boot"
    /\ ~breaker[d]
    /\ Goto(d, "top")
    /\ UNCHANGED <<proc, row, mutex, turn, chanVars, stopVars, runVars>>

BeginRound(d) ==
    /\ pc[d] = "top"
    /\ ~breaker[d]
    /\ \/ d \in Lockers /\ Enter(d, "lock", 1)
       \/ d \in Free /\ Enter(d, "sleep", 1)
       \/ d \in Collectors /\ "db" \in Faults /\ Enter(d, "sleep", 1)
    /\ UNCHANGED <<proc, row, mutex, chanVars, stopVars, runVars>>

EndRound(d) ==
    /\ pc[d] = "sleep"
    /\ ~breaker[d]
    /\ Goto(d, "top")
    /\ UNCHANGED <<proc, row, mutex, turn, chanVars, stopVars, runVars>>

-----------------------------------------------------------------------------
(* DbLock: under the mutex, read main_lock and insert a row if there is    *)
(* none.  A poll that finds a row changes nothing and is repeated.         *)

(* Mutant: a row is taken for expired and deleted.                         *)
PollFreeExpired(d) ==
    /\ pc[d] = "lock"
    /\ ~breaker[d]
    /\ mutex = Nobody
    /\ proc = "up"
    /\ mutex' = d
    /\ row' = Nobody
    /\ Goto(d, "insert")
    /\ UNCHANGED <<proc, turn, chanVars, stopVars, runVars>>

(* Mutant: the mutex is released between the SELECT and the INSERT.        *)
PollFreeUnlocked(d) ==
    /\ pc[d] = "lock"
    /\ ~breaker[d]
    /\ mutex = Nobody
    /\ row = Nobody
    /\ proc = "up"
    /\ Goto(d, "insert")
    /\ UNCHANGED <<proc, row, mutex, turn, chanVars, stopVars, runVars>>

PollFree(d) ==
    /\ pc[d] = "lock"
    /\ ~breaker[d]
    /\ mutex = Nobody
    /\ row = Nobody
    /\ proc = "up"
    /\ mutex' = d
    /\ Goto(d, "insert")
    /\ UNCHANGED <<proc, row, turn, chanVars, stopVars, runVars>>

PollError(d) ==
    /\ pc[d] = "lock"
    /\ ~breaker[d]
    /\ mutex = Nobody
    /\ proc # "up" \/ "db" \in Faults
    /\ Goto(d, "sleep")
    /\ UNCHANGED <<proc, row, mutex, turn, chanVars, stopVars, runVars>>

(* The unique index of the table refuses a second row.                     *)
Insert(d) ==
    /\ pc[d] = "insert"
    /\ proc = "up"
    /\ row = Nobody
    /\ row' = d
    /\ mutex' = Nobody
    /\ Goto(d, "in")
    /\ UNCHANGED <<proc, turn, chanVars, stopVars, runVars>>

(* Mutant: Mutex.Unlock is missing on the error path.                      *)
InsertErrorLocked(d) ==
    /\ pc[d] = "insert"
    /\ proc # "up" \/ row # Nobody \/ "db" \in Faults
    /\ Goto(d, "sleep")
    /\ UNCHANGED <<proc, row, mutex, turn, chanVars, stopVars, runVars>>

InsertError(d) ==
    /\ pc[d] = "insert"
    /\ proc # "up" \/ row # Nobody \/ "db" \in Faults
    /\ mutex' = Nobody
    /\ Goto(d, "sleep")
    /\ UNCHANGED <<proc, row, turn, chanVars, stopVars, runVars>>

(* DbUnlock: DELETE FROM main_lock WHERE script_name = d.  Its callers     *)
(* ignore the error of a failed DELETE.                                    *)
DeleteRow(d) ==
    \/ /\ proc = "up"
       /\ row' = IF row = d THEN Nobody ELSE row
    \/ /\ proc # "up" \/ "db" \in Faults
       /\ row' = row

(* Mutant: a round goes on after its second section.                       *)
AfterSectionEndless(d) ==
    {"sleep"}
        \cup (IF d \in Generators THEN {"pause"} ELSE {})
        \cup (IF d \in Collectors THEN {"net", "top"} ELSE {})

(* The end of a lock section.  A generator that finds that it is its turn  *)
(* sleeps and comes back; a collector goes on to ask the other nodes for   *)
(* their highest block, or begins a new round once block 1 is loaded.      *)
AfterSection(d) ==
    {"sleep"}
        \cup (IF d \in Generators /\ turn[d] = 1 THEN {"pause"} ELSE {})
        \cup (IF d \in Collectors /\ turn[d] = 1 THEN {"net", "top"} ELSE {})

Unlock(d) ==
    /\ pc[d] = "in"
    /\ DeleteRow(d)
    /\ \E point \in AfterSection(d) : Goto(d, point)
    /\ UNCHANGED <<proc, mutex, turn, chanVars, stopVars, runVars>>

-----------------------------------------------------------------------------
(* Ways out of a lock section that keep the row.                           *)

(* An error branch that sleeps and starts a new round without unlocking.   *)
Leak(d) ==
    /\ pc[d] = "in"
    /\ "work" \in Faults
    /\ \/ d \in Generators /\ turn[d] = 2
       \/ d \in Collectors /\ turn[d] = 1
    /\ Goto(d, "sleep")
    /\ UNCHANGED <<proc, row, mutex, turn, chanVars, stopVars, runVars>>

(* The generator polls its breaker while it collects transactions, and     *)
(* leaves without unlocking.                                               *)
BreakHolding(d) ==
    /\ pc[d] = "in"
    /\ d \in Generators /\ turn[d] = 2
    /\ TakeBreaker(d)
    /\ Goto(d, "done")
    /\ UNCHANGED <<proc, row, mutex, turn, stopVars, runVars>>

(* The collector answers first and unlocks afterwards.                     *)
AnswerHolding(d) ==
    /\ pc[d] = "in"
    /\ d \in Collectors
    /\ TakeBreaker(d)
    /\ Goto(d, "parting")
    /\ UNCHANGED <<proc, row, mutex, turn, stopVars, runVars>>

(* In its second section the collector polls the breaker once more.        *)
UnlockParting(d) ==
    /\ pc[d] = "parting"
    /\ DeleteRow(d)
    /\ Goto(d, IF turn[d] = 1 THEN "done" ELSE "parted")
    /\ UNCHANGED <<proc, mutex, turn, chanVars, stopVars, runVars>>

Part(d) ==
    /\ pc[d] = "parted"
    /\ ~breaker[d]
    /\ Goto(d, "done")
    /\ UNCHANGED <<proc, row, mutex, turn, chanVars, stopVars, runVars>>

(* DownloadToFile consumes the token and answers, and its caller retries.  *)
Download(d) ==
    /\ pc[d] = "in"
    /\ d \in Collectors /\ turn[d] = 1
    /\ TakeBreaker(d)
    /\ UNCHANGED <<proc, row, mutex, daemonVars, stopVars, runVars>>

-----------------------------------------------------------------------------
(* Between the two lock sections of a round.                               *)

(* The generator's wait for its slot never polls the breaker.              *)
Pause(d) ==
    /\ pc[d] = "pause"
    /\ Enter(d, "lock", turn[d] + 1)
    /\ UNCHANGED <<proc, row, mutex, chanVars, stopVars, runVars>>

AskNodes(d) ==
    /\ pc[d] = "net"
    /\ ~breaker[d]
    /\ \/ Enter(d, "lock", turn[d] + 1)
       \/ Enter(d, "sleep", turn[d])
    /\ UNCHANGED <<proc, row, mutex, chanVars, stopVars, runVars>>

-----------------------------------------------------------------------------
(* The stopping goroutines.                                                *)

(* The watcher forgets the requests that are older than itself.            *)
WatcherStarts ==
    /\ stop[Watcher].phase = "starting"
    /\ stop' = [stop EXCEPT ![Watcher].phase = "idle"]
    /\ stopRow' = FALSE
    /\ UNCHANGED <<proc, row, mutex, daemonVars, chanVars, runVars>>

(* Another process inserts a row into stop_daemons (daylight.Stop).        *)
RequestStop ==
    /\ ~stopRow
    /\ stopRow' = TRUE
    /\ UNCHANGED <<proc, row, mutex, daemonVars, chanVars, stop, runVars>>

BeginStop(s) ==
    /\ stop[s].phase = "idle"
    /\ s = Watcher => stopRow
    /\ stop' = [stop EXCEPT ![s] = [phase |-> "send", k |-> 1]]
    /\ UNCHANGED <<proc, row, mutex, daemonVars, chanVars, stopRow, runVars>>

Advance(s, next) ==
    stop' = [stop EXCEPT ![s] =
                IF stop[s].k < Len(DaemonSeq)
                THEN [stop[s] EXCEPT !.k = stop[s].k + 1]
                ELSE [phase |-> next, k |-> 1]]

SendBreaker(s) ==
    LET d == DaemonSeq[stop[s].k] IN
    /\ stop[s].phase = "send"
    /\ ~breaker[d]
    /\ breaker' = [breaker EXCEPT ![d] = TRUE]
    /\ Advance(s, "receive")
    /\ UNCHANGED <<proc, row, mutex, daemonVars, answer, stopRow, runVars>>

(* Mutant: the answers are not waited for.                                 *)
ReceiveAnswerLater(s) ==
    LET d == DaemonSeq[stop[s].k] IN
    /\ stop[s].phase = "receive"
    /\ answer' = [answer EXCEPT ![d] = FALSE]
    /\ Advance(s, "closing")
    /\ UNCHANGED <<proc, row, mutex, daemonVars, breaker, stopRow, runVars>>

ReceiveAnswer(s) ==
    LET d == DaemonSeq[stop[s].k] IN
    /\ stop[s].phase = "receive"
    /\ answer[d]
    /\ answer' = [answer EXCEPT ![d] = FALSE]
    /\ Advance(s, "closing")
    /\ UNCHANGED <<proc, row, mutex, daemonVars, breaker, stopRow, runVars>>

CloseDB(s) ==
    /\ stop[s].phase = "closing"
    /\ proc = "up"
    /\ proc' = "closing"
    /\ UNCHANGED <<row, mutex, daemonVars, chanVars, stopVars, runVars>>

-----------------------------------------------------------------------------
(* The process.                                                            *)

(* Goroutines, channels and the mutex vanish; the two tables remain.       *)
ProcessEnds ==
    /\ proc' = "down"
    /\ mutex' = Nobody
    /\ pc' = [d \in Daemons |-> "dead"]
    /\ turn' = [d \in Daemons |-> 1]
    /\ breaker' = [d \in Daemons |-> FALSE]
    /\ answer' = [d \in Daemons |-> FALSE]
    /\ stop' = [s \in Stoppers |-> [phase |-> "off", k |-> 1]]
    /\ UNCHANGED <<row, stopRow>>

Exit ==
    /\ proc = "closing"
    /\ ProcessEnds
    /\ UNCHANGED runVars

Crash ==
    /\ proc # "down"
    /\ crashes < MaxCrashes
    /\ crashes' = crashes + 1
    /\ ProcessEnds
    /\ UNCHANGED starts

Start ==
    /\ proc = "down"
    /\ starts < MaxStarts
    /\ starts' = starts + 1
    /\ proc' = "up"
    /\ pc' = [d \in Daemons |-> "boot"]
    /\ stop' = [s \in Stoppers |->
                    [phase |-> IF s = Watcher THEN "starting" ELSE "idle",
                     k |-> 1]]
    /\ UNCHANGED <<row, mutex, turn, chanVars, stopRow, crashes>>

(* The operator does not start the node again.                             *)
Off ==
    /\ proc = "down"
    /\ starts = MaxStarts
    /\ UNCHANGED vars

Daemon(d) ==
    \/ Break(d) \/ Boot(d) \/ BeginRound(d) \/ EndRound(d)
    \/ PollFree(d) \/ PollError(d) \/ Insert(d) \/ InsertError(d)
    \/ Unlock(d) \/ Leak(d) \/ BreakHolding(d) \/ AnswerHolding(d)
    \/ UnlockParting(d) \/ Part(d) \/ Download(d)
    \/ Pause(d) \/ AskNodes(d)

Stopper(s) ==
    BeginStop(s) \/ SendBreaker(s) \/ ReceiveAnswer(s) \/ CloseDB(s)

Next ==
    \/ \E d \in Daemons : Daemon(d)
    \/ \E s \in Stoppers : Stopper(s)
    \/ WatcherStarts \/ RequestStop
    \/ Exit \/ Crash \/ Start \/ Off

Spec == Init /\ [][Next]_vars

(* Goroutines are scheduled; the watcher polls its table; the random       *)
(* pause between two polls of DbLock (300 to 400 ms) does not always miss  *)
(* the moments at which main_lock is empty, since holders sleep a second   *)
(* between two rounds.  Nothing obliges anybody to request a stop.         *)
Fairness ==
    /\ \A d \in Daemons : WF_vars(Daemon(d))
    /\ \A d \in Lockers : SF_vars(PollFree(d))
    /\ WF_vars(BeginStop(Watcher))
    /\ \A s \in Stoppers :
           WF_vars(SendBreaker(s) \/ ReceiveAnswer(s) \/ CloseDB(s))
    /\ WF_vars(WatcherStarts)
    /\ WF_vars(Exit)

FairSpec == Spec /\ Fairness

-----------------------------------------------------------------------------
(* Properties.                                                             *)

Holds(d) == pc[d] \in {"in", "parting"}

Stale == row # Nobody /\ ~Holds(row)

(* No two daemons are inside their lock sections at once, whatever leaked  *)
(* rows, crashes and restarts came before (utils.DbLock, utils.DbUnlock).  *)
MutualExclusion ==
    \A d, e \in Daemons : Holds(d) /\ Holds(e) => d = e

(* The reason for it: a daemon inside its section owns the row, and only   *)
(* a daemon that saw no row, alone under the mutex, is about to insert.    *)
(* A daemon between two sections has had one of them (utils.DbLock, and    *)
(* the loops of daemons.BlockGenerator and BlocksCollection).              *)
LockInv ==
    /\ \A d \in Daemons : Holds(d) => row = d
    /\ \A d \in Daemons : pc[d] = "insert" => mutex = d /\ row = Nobody
    /\ \A d \in Daemons : pc[d] \in {"pause", "net"} => turn[d] = 1

(* A row whose owner has left its section without deleting it is the work  *)
(* of a crash, of a failing database, of a generator or of a collector:    *)
(* the other daemons leave none behind, because a stopping goroutine       *)
(* closes the database only after all have answered (stopdaemons.Signals   *)
(* and WaitStopTime).                                                      *)
StaleRowCause ==
    Stale => \/ crashes > 0 \/ "db" \in Faults
             \/ row \in Generators \cup Collectors

(* When a stopping goroutine has collected its answers, no daemon except   *)
(* a collector is running, also when both goroutines stop at once.         *)
OthersKilled ==
    \A s \in Stoppers : stop[s].phase = "closing" =>
        \A d \in Daemons \ Collectors : pc[d] = "done"

(* "Daemons killed", printed by stopdaemons.WaitStopTime once it has all   *)
(* the answers: no daemon runs when the database is closed.                *)
DaemonsKilled ==
    \A s \in Stoppers : stop[s].phase = "closing" =>
        \A d \in Daemons : pc[d] = "done"

(* A signal, or a stop request made while the watcher is watching, ends    *)
(* the process, whatever rows were leaked.                                 *)
StopRequested ==
    \/ stop[Watcher].phase = "idle" /\ stopRow
    \/ \E s \in Stoppers : stop[s].phase \in {"send", "receive", "closing"}

StopCompletes == StopRequested ~> proc = "down"

(* A daemon that waits for the lock leaves its wait, unless a stale row    *)
(* stays in main_lock.                                                     *)
WaitEnds ==
    \A d \in Lockers : pc[d] = "lock" ~> (pc[d] # "lock" \/ Stale)

(* "wait until it will be unlocked and block it by ourselves": the         *)
(* collector's second wait ends (daemons.BlocksCollection, before the      *)
(* blocks are collected).                                                  *)
CollectorUnlocked ==
    \A d \in Collectors :
        pc[d] = "lock" /\ turn[d] = 2 ~> ~(pc[d] = "lock" /\ turn[d] = 2)
=============================================================================
