----------------------------- MODULE Deadlines -----------------------------
(***************************************************************************)
(* What the Schedule API promises, with absolute deadlines in place of     *)
(* countdown alarms: a job with period p that is part of the schedule when *)
(* the clock is started, or that joins a running schedule, is armed at the *)
(* next beat boundary and then runs at every p-th beat from there, no beat *)
(* early and no beat late.  Schedule.tla implements this module.           *)
(***************************************************************************)
EXTENDS Naturals, Sequences

CONSTANT Periods     (* the periods a job may ask for, in beats            *)

VARIABLES
  now,       (* beats since the clock was started                          *)
  started,   (* the clock runs                                             *)
  jobs       (* sequence of [period, due, runs]; due = 0: not yet armed    *)

vars == <<now, started, jobs>>

Job == [period : Periods, due : Nat, runs : Nat]

Init ==
  /\ now = 0
  /\ started = FALSE
  /\ jobs = <<>>

Join(p) ==
  /\ jobs' = Append(jobs, [period |-> p, due |-> 0, runs |-> 0])
  /\ UNCHANGED <<now, started>>

Clear ==
  /\ jobs' = <<>>
  /\ UNCHANGED <<now, started>>

(* A period of 0 is never armed: such a job is not periodic. *)
Armed(job, t) ==
  [job EXCEPT !.due = IF job.period = 0 THEN 0 ELSE t + job.period]

(* The job after beat t: armed if it was not, run and re-armed if it is due. *)
AtBeat(job, t) ==
  IF job.due = 0
  THEN Armed(job, t)
  ELSE IF job.due = t
       THEN [Armed(job, t) EXCEPT !.runs = job.runs + 1]
       ELSE job

(* Starting the clock arms every job that is present and runs none. *)
Start ==
  /\ ~started
  /\ started' = TRUE
  /\ jobs' = [i \in DOMAIN jobs |-> Armed(jobs[i], now)]
  /\ UNCHANGED now

Elapse ==
  /\ started
  /\ now' = now + 1
  /\ jobs' = [i \in DOMAIN jobs |-> AtBeat(jobs[i], now + 1)]
  /\ UNCHANGED started

Next ==
  \/ \E p \in Periods : Join(p)
  \/ Clear
  \/ Start
  \/ Elapse

Spec == Init /\ [][Next]_vars

=============================================================================
