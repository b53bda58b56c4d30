------------------------------ MODULE Process ------------------------------
(***************************************************************************)
(* Starting, signalling and waiting for child processes:                   *)
(* dse/clib/process/process.c over the process table of the system.  A     *)
(* call walks a list of descriptors one entry per step; between any two    *)
(* steps children end, and other processes come and go and take the pids   *)
(* that were freed.                                                        *)
(***************************************************************************)
EXTENDS Integers

CONSTANTS
  LastDesc, (* the list has the descriptors 1..LastDesc                    *)
  Pids,     (* pids                                                        *)
  NoPid,    (* pid 0                                                       *)
  Codes     (* exit codes of the programs that are run                     *)

ASSUME LastDescAssumption == LastDesc \in Nat \ {0}
ASSUME NoPidAssumption == NoPid \notin Pids
ASSUME CodesAssumption == Codes \subseteq 0..255

VARIABLES
  pid,      (* desc->pid                                                   *)
  table,    (* the process table: whose process a pid is, how it ended     *)
  call,     (* the call under way; "exited" when the caller has ended      *)
  at,       (* the descriptor it is at                                     *)
  result,   (* the status this wait has returned                           *)
  events    (* history: what takes a child from its descriptor             *)

vars == <<pid, table, call, at, result, events>>

Descs == 1..LastDesc
Calls == {"idle", "startAll", "signalAll", "waitAll", "wait", "waitAny", "exited"}

(* A process is ours, forked for a descriptor, or another's (0).           *)
Foreign == 0
Free == [state |-> "none", desc |-> Foreign, status |-> 0]
Running(d) == [state |-> "run", desc |-> d, status |-> 0]
Ours(p) == table[p].desc \in Descs
IsRunning(p) == table[p].state = "run"

(* How a process may end: with a code, killed, or unable to execv.         *)
Killed == -1
ExecFailure == 2
Endings == Codes \cup {ExecFailure, Killed}
Ended(p, how) ==
  [state |-> "zombie", desc |-> table[p].desc, status |-> how]

(* _status_check; a waitpid that fails leaves the status 0.                *)
StatusCheckExit(status) == IF status = Killed THEN 0 ELSE status
StatusCheck(status) == IF status = Killed THEN 4 ELSE status
NoStatus == StatusCheck(0)

Init ==
  /\ pid = [d \in Descs |-> NoPid]
  /\ table = [p \in Pids |-> Free]
  /\ call = "idle"
  /\ at = 1
  /\ result = 0
  /\ events = {}

-----------------------------------------------------------------------------
(* The rest of the system.                                                 *)

(* A child of ours ends, or fails to start its program.                    *)
ChildEnds(p, how) ==
  /\ Ours(p) /\ IsRunning(p)
  /\ table' = [table EXCEPT ![p] = Ended(p, how)]
  /\ UNCHANGED <<pid, call, at, result, events>>

(* A process that is not ours starts, with a pid that is free, or ends.    *)
OtherStarts(p) ==
  /\ table[p] = Free
  /\ table' = [table EXCEPT ![p] = Running(Foreign)]
  /\ UNCHANGED <<pid, call, at, result, events>>
OtherEnds(p) ==
  /\ ~Ours(p) /\ IsRunning(p)
  /\ table' = [table EXCEPT ![p] = Free]
  /\ UNCHANGED <<pid, call, at, result, events>>

-----------------------------------------------------------------------------
(* Calls, and the steps through the list.                                  *)

Begin(name, first) ==
  /\ call = "idle"
  /\ call' = name
  /\ at' = first
  /\ result' = NoStatus
  /\ UNCHANGED <<pid, table, events>>

(* The loop's increment, and its end at the entry without a name.          *)
Proceed ==
  /\ at' = IF at < LastDesc THEN at + 1 ELSE 1
  /\ call' = IF at < LastDesc THEN call ELSE "idle"

(* dse_process_start_process: a fork, into a pid that is free.             *)
ForkUnrecorded(d, p) ==
  /\ table[p] = Free
  /\ table' = [table EXCEPT ![p] = Running(d)]
  /\ UNCHANGED <<pid, events>>
Fork(d, p) ==
  /\ table[p] = Free
  /\ table' = [table EXCEPT ![p] = Running(d)]
  /\ pid' = [pid EXCEPT ![d] = p]
  /\ events' = IF \E q \in Pids : table[q].desc = d
               THEN events \cup {"restart"} ELSE events
StartProcess(d) ==
  /\ call = "idle"
  /\ \E p \in Pids : Fork(d, p)
  /\ UNCHANGED <<call, at, result>>
StartStep ==
  /\ call = "startAll"
  /\ \E p \in Pids : Fork(at, p)
  /\ Proceed
  /\ UNCHANGED result

(* The fork fails, and the caller exits.                                   *)
ForkFails ==
  /\ call \in {"idle", "startAll"}
  /\ call' = "exited"
  /\ UNCHANGED <<pid, table, at, result, events>>

(* dse_process_signal_all_processes: kill(pid).  Whoever has the pid now   *)
(* ends, or handles the signal and goes on.                                *)
SignalProcess ==
  /\ call = "signalAll"
  /\ pid[at] # NoPid
  /\ \/ table' = table
     \/ /\ IsRunning(pid[at])
        /\ table' = [table EXCEPT ![pid[at]] =
                       IF Ours(pid[at]) THEN Ended(pid[at], Killed) ELSE Free]
  /\ Proceed
  /\ UNCHANGED <<pid, result, events>>

(* kill(0) signals the group of the caller: its children, and itself.      *)
SignalGroup ==
  /\ call = "signalAll"
  /\ pid[at] = NoPid
  /\ \E hit \in SUBSET {p \in Pids : Ours(p) /\ IsRunning(p)} :
       table' = [p \in Pids |-> IF p \in hit THEN Ended(p, Killed) ELSE table[p]]
  /\ Proceed \/ (call' = "exited" /\ UNCHANGED at)
  /\ UNCHANGED <<pid, result, events>>

(* dse_process_waitfor_process.  A descriptor without a pid has nothing to *)
(* wait for;                                                               *)
Waiting == call \in {"waitAll", "wait"}
WaitStuck ==
  IF call = "waitAll" THEN UNCHANGED <<at, call>> ELSE at' = 1 /\ call' = "idle"
WaitProceeds ==
  IF call = "waitAll" THEN Proceed ELSE at' = 1 /\ call' = "idle"
WaitNothingStops ==
  /\ Waiting
  /\ pid[at] = NoPid
  /\ result' = 0
  /\ at' = 1 /\ call' = "idle"
  /\ UNCHANGED <<pid, table, events>>
WaitNothing ==
  /\ Waiting
  /\ pid[at] = NoPid
  /\ result' = 0
  /\ WaitProceeds
  /\ UNCHANGED <<pid, table, events>>

(* a child that has ended is reaped, and while it runs the caller blocks;  *)
WaitReapsKeepsPid ==
  /\ Waiting
  /\ pid[at] # NoPid
  /\ Ours(pid[at]) /\ ~IsRunning(pid[at])
  /\ result' = StatusCheck(table[pid[at]].status)
  /\ table' = [table EXCEPT ![pid[at]] = Free]
  /\ WaitProceeds
  /\ UNCHANGED <<pid, events>>
WaitReaps ==
  /\ Waiting
  /\ pid[at] # NoPid
  /\ Ours(pid[at]) /\ ~IsRunning(pid[at])
  /\ result' = StatusCheck(table[pid[at]].status)
  /\ table' = [table EXCEPT ![pid[at]] = Free]
  /\ pid' = [pid EXCEPT ![at] = NoPid]
  /\ WaitProceeds
  /\ UNCHANGED events

(* waitpid fails: the pid is no child, or a signal handler has interrupted *)
(* the wait.  The descriptor is cleared all the same.                      *)
WaitFails ==
  /\ Waiting
  /\ pid[at] # NoPid
  /\ events' = IF Ours(pid[at]) THEN events \cup {"interrupt"} ELSE events
  /\ ~Ours(pid[at]) \/ IsRunning(pid[at])
  /\ result' = NoStatus
  /\ pid' = [pid EXCEPT ![at] = NoPid]
  /\ WaitProceeds
  /\ UNCHANGED table

(* dse_process_waitfor_any_process reaps any child that has ended, or has  *)
(* none to wait for, or is interrupted; no descriptor changes.             *)
WaitAnyReaps(p) ==
  /\ call = "waitAny"
  /\ Ours(p) /\ ~IsRunning(p)
  /\ result' = StatusCheck(table[p].status)
  /\ table' = [table EXCEPT ![p] = Free]
  /\ events' = events \cup {"any"}
  /\ call' = "idle"
  /\ UNCHANGED <<pid, at>>
WaitAnyFails ==
  /\ call = "waitAny"
  /\ \A p \in Pids : Ours(p) => IsRunning(p)
  /\ result' = NoStatus
  /\ call' = "idle"
  /\ UNCHANGED <<pid, table, at, events>>

Next ==
  \/ \E p \in Pids :
       \/ \E how \in Endings : ChildEnds(p, how)
       \/ OtherStarts(p)
       \/ OtherEnds(p)
       \/ WaitAnyReaps(p)
  \/ \E name \in {"startAll", "signalAll", "waitAll", "waitAny"} : Begin(name, 1)
  \/ \E d \in Descs : Begin("wait", d) \/ StartProcess(d)
  \/ StartStep
  \/ ForkFails
  \/ SignalProcess
  \/ SignalGroup
  \/ WaitNothing
  \/ WaitReaps
  \/ WaitFails
  \/ WaitAnyFails

(* The caller runs on, and a child that is waited for ends at some time.   *)
Fairness ==
  /\ WF_vars(WaitNothing \/ WaitReaps \/ (WaitFails /\ ~Ours(pid[at])))
  /\ \A p \in Pids : WF_vars(\E how \in Endings : ChildEnds(p, how))

Spec == Init /\ [][Next]_vars /\ Fairness

-----------------------------------------------------------------------------
(* Properties.                                                             *)

(* The variables have their types.                                         *)
TypeOK ==
  /\ pid \in [Descs -> Pids \cup {NoPid}]
  /\ table \in [Pids -> {Free} \cup [state : {"run", "zombie"},
                                     desc : Descs \cup {Foreign},
                                     status : Endings \cup {0}]]
  /\ call \in Calls
  /\ at \in 1..LastDesc
  /\ result \in Codes \cup {0, 4, ExecFailure}
  /\ events \subseteq {"restart", "interrupt", "any"}

(* A pid that a descriptor holds is that of its own child: nobody else is  *)
(* waited for or signalled by it, however pids are reused.  Only           *)
(* dse_process_waitfor_any_process may leave a pid that is stale.          *)
PidsAreChildren ==
  "any" \notin events =>
    \A d \in Descs : pid[d] # NoPid => table[pid[d]].desc = d

(* Every child that was not reaped is held by the descriptor it was        *)
(* started for, also where stale pids have been reused, unless that        *)
(* descriptor was started again or a wait for it was interrupted.          *)
ChildrenAreKnown ==
  events \subseteq {"any"} =>
    \A p \in Pids : Ours(p) => pid[table[p].desc] = p

(* When dse_process_waitfor_all_processes returns no child runs and none   *)
(* is a zombie.                                                            *)
WaitAllReaps ==
  [][(call = "waitAll" /\ call' = "idle" /\ events' \subseteq {"any"}) =>
       \A p \in Pids : ~Ours(p)']_vars

(* dse_process_waitfor_process returns what the child of its descriptor    *)
(* ended with, and 4 if that was a signal.                                 *)
OwnStatus ==
  [][(call = "wait" /\ call' = "idle" /\ pid[at] # NoPid
        /\ events' \subseteq {"restart"}) =>
       LET child == table[pid[at]] IN
       /\ child.state = "zombie" /\ child.desc = at
       /\ child.status = Killed => result' = 4
       /\ child.status # Killed => result' = child.status]_vars

(* dse_process_waitfor_all_processes returns once every child has ended.   *)
WaitAllReturns == call = "waitAll" ~> call # "waitAll"

=============================================================================
