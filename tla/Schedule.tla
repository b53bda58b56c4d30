------------------------------ MODULE Schedule ------------------------------
(***************************************************************************)
(* The task schedule of dse/clib/schedule/schedule.c, configured with the  *)
(* default tick and exec handlers and with marshal callbacks.  A call of   *)
(* schedule_tick is several steps here, one per call of the tick handler,  *)
(* because between two of them the schedule runs the integrator's tasks    *)
(* and marshal callbacks.                                                  *)
(*                                                                         *)
(* Time is an integer: Beat units make a beat.  A fraction of a beat, the  *)
(* rounding noise of the simulation's doubles included, is a number of     *)
(* units.                                                                  *)
(***************************************************************************)
EXTENDS Integers, Sequences

CONSTANTS
  Beat,       (* time units per beat                                       *)
  Steps,      (* how far the simulation time may move between two calls    *)
  Delays,     (* the values the delay signal takes; {0}: no delay          *)
  Periods,    (* the schedule_beats passed to schedule_add                 *)
  MaxItems,   (* bound: items in the list                                  *)
  MaxTime,    (* bound: the simulation time                                *)
  TickMod,    (* 2^w of the unsigned tick counter (w = 32 in the code)     *)
  IntMax      (* largest int of the loop bound (2^31 - 1 in the code)      *)

ASSUME BeatAssumption == Beat \in Nat \ {0}
ASSUME StepsAssumption == Steps \subseteq Nat
ASSUME DelaysAssumption == Delays \subseteq Int
ASSUME PeriodsAssumption == Periods \subseteq Nat
ASSUME BoundsAssumption == MaxItems \in Nat /\ MaxTime \in Nat
ASSUME WidthAssumption == TickMod \in Nat \ {0} /\ IntMax \in Nat \ {0}

VARIABLES
  items,      (* s->list as [beats, alarm]; <<>> is the NULL list          *)
  tick,       (* s->tick                                                   *)
  initDone,   (* s->init_tick_done                                         *)
  delay,      (* the signal s->delay points to                             *)
  simTime,    (* simulation_time of the current or the last call           *)
  pc,         (* "idle" between calls; "init" or "loop" inside one         *)
  left,       (* iterations the loop of this call still has to make        *)
  marshalled, (* the last tick was between marshal_out and marshal_in      *)
  elapsed,    (* history: iterations of the loop, unbounded                *)
  peak,       (* history: the latest schedule time a call has seen         *)
  log         (* history, along items: [runs, joined, early]               *)

vars == <<items, tick, initDone, delay, simTime, pc, left, marshalled,
          elapsed, peak, log>>

-----------------------------------------------------------------------------
(* The operators of the code. *)

(* schedule_time of a call made at time t. *)
ScheduleTime(t) == t - delay

TicksNoFudge(lag) == lag \div Beat
TicksRoundUp(lag) == (lag + Beat - 1) \div Beat
(* The loop bound: whole beats by which the schedule lags, after the 1%    *)
(* that absorbs rounding.  It is truncated in the code and rounded down    *)
(* here; the two differ only where the loop makes no iteration.            *)
Ticks(lag) == (lag * 101) \div (Beat * 100)

(* Conversion of a double to int.  Outside the range of int it is          *)
(* undefined: x86 gives the least int, ARM the nearest.                    *)
ToInt(x) ==
  IF x < -(IntMax + 1) THEN {-(IntMax + 1)}
  ELSE IF x > IntMax THEN {-(IntMax + 1), IntMax}
  ELSE {x}

(* schedule_will_alarm: does the tick to come run a task?                  *)
WillAlarmAtZero(list, t) ==
  list = <<>> \/ t = 0 \/ \E i \in DOMAIN list : list[i].alarm = 0
WillAlarm(list, t) ==
  list = <<>> \/ t = 0 \/ \E i \in DOMAIN list : list[i].alarm = 1

(* schedule_default_tick: the items it executes, and what it does to one.  *)
Executed(list, t) ==
  {i \in DOMAIN list : IF list[i].beats = 0 THEN t = 0 ELSE list[i].alarm = 1}

AdvanceNoReset(item) ==
  [item EXCEPT !.alarm = IF item.alarm > 0 THEN item.alarm - 1 ELSE item.beats]
Advance(item) ==
  [item EXCEPT !.alarm = IF item.alarm > 1 THEN item.alarm - 1 ELSE item.beats]

DefaultTick(t) ==
  /\ items' = [i \in DOMAIN items |-> Advance(items[i])]
  /\ log' = [i \in DOMAIN items |->
               IF i \in Executed(items, t)
               THEN [log[i] EXCEPT !.runs = log[i].runs + 1]
               ELSE log[i]]

-----------------------------------------------------------------------------
(* schedule_configure; the caller zeroed the Schedule object.              *)
Init ==
  /\ items = <<>>
  /\ tick = 0
  /\ initDone = FALSE
  /\ delay \in Delays
  /\ simTime = 0
  /\ pc = "idle"
  /\ left = 0
  /\ marshalled = FALSE
  /\ elapsed = 0
  /\ peak = 0
  /\ log = <<>>

(* schedule_add.  A task may join before the first tick or at any later    *)
(* time, never from inside a tick (the list is reallocated).               *)
ScheduleAddArmed(b) ==
  /\ pc = "idle"
  /\ Len(items) < MaxItems
  /\ items' = Append(items, [beats |-> b, alarm |-> b])
  /\ log' = Append(log, [runs |-> 0, joined |-> elapsed, early |-> ~initDone])
  /\ UNCHANGED <<tick, initDone, delay, simTime, pc, left, marshalled,
                 elapsed, peak>>
ScheduleAdd(b) ==
  /\ pc = "idle"
  /\ Len(items) < MaxItems
  /\ items' = Append(items, [beats |-> b, alarm |-> 0])
  /\ log' = Append(log, [runs |-> 0, joined |-> elapsed, early |-> ~initDone])
  /\ UNCHANGED <<tick, initDone, delay, simTime, pc, left, marshalled,
                 elapsed, peak>>

(* schedule_destroy: the list goes, the counters of the object stay.       *)
ScheduleDestroy ==
  /\ pc = "idle"
  /\ items' = <<>>
  /\ log' = <<>>
  /\ UNCHANGED <<tick, initDone, delay, simTime, pc, left, marshalled,
                 elapsed, peak>>

(* The model writes the delay signal between two calls.                    *)
SetDelay(d) ==
  /\ pc = "idle"
  /\ delay' = d
  /\ UNCHANGED <<items, tick, initDone, simTime, pc, left, marshalled,
                 elapsed, peak, log>>

(* The loop of schedule_tick is entered at schedule time st.               *)
StartLoop(st) ==
  \E n \in ToInt(Ticks(st - tick * Beat)) :
    /\ left' = IF n > 0 THEN n ELSE 0
    /\ pc' = IF n > 0 THEN "loop" ELSE "idle"

(* schedule_tick is called, d units after the last call.                   *)
ScheduleTick(d) ==
  LET st == ScheduleTime(simTime + d) IN
  /\ pc = "idle"
  /\ simTime + d <= MaxTime
  /\ simTime' = simTime + d
  /\ peak' = IF st > peak THEN st ELSE peak
  /\ IF ~initDone /\ st >= 0
     THEN pc' = "init" /\ left' = 0
     ELSE StartLoop(st)
  /\ UNCHANGED <<items, tick, initDone, delay, marshalled, elapsed, log>>

(* The init tick, always marshalled, then the loop.                        *)
InitTickNotRecorded ==
  /\ pc = "init"
  /\ DefaultTick(tick)
  /\ marshalled' = TRUE
  /\ initDone' = FALSE
  /\ StartLoop(ScheduleTime(simTime))
  /\ UNCHANGED <<tick, delay, simTime, elapsed, peak>>
InitTick ==
  /\ pc = "init"
  /\ DefaultTick(tick)
  /\ marshalled' = TRUE
  /\ initDone' = TRUE
  /\ StartLoop(ScheduleTime(simTime))
  /\ UNCHANGED <<tick, delay, simTime, elapsed, peak>>

(* One iteration of the loop.                                              *)
LoopTickForever ==
  /\ pc = "loop"
  /\ UNCHANGED vars
LoopTick ==
  /\ pc = "loop"
  /\ tick' = (tick + 1) % TickMod
  /\ elapsed' = elapsed + 1
  /\ marshalled' = WillAlarm(items, tick')
  /\ DefaultTick(tick')
  /\ left' = left - 1
  /\ pc' = IF left > 1 THEN "loop" ELSE "idle"
  /\ UNCHANGED <<initDone, delay, simTime, peak>>

Next ==
  \/ \E b \in Periods : ScheduleAdd(b)
  \/ ScheduleDestroy
  \/ \E d \in Delays : SetDelay(d)
  \/ \E d \in Steps : ScheduleTick(d)
  \/ InitTick
  \/ LoopTick

(* Nothing inside a call waits: a call that has begun takes its next step. *)
Fairness == WF_vars(InitTick) /\ WF_vars(LoopTick)

Spec == Init /\ [][Next]_vars /\ Fairness

-----------------------------------------------------------------------------
(* Properties. *)

Item == {it \in [beats : Periods, alarm : Nat] : it.alarm <= it.beats}
Entry == [runs : Nat, joined : Nat, early : BOOLEAN]

(* The variables have their types: an alarm never exceeds its period, and  *)
(* the loop of a call has iterations to make exactly while it runs.        *)
TypeOK ==
  /\ items \in Seq(Item)
  /\ log \in Seq(Entry)
  /\ Len(log) = Len(items)
  /\ tick \in 0..TickMod - 1
  /\ initDone \in BOOLEAN
  /\ delay \in Delays
  /\ simTime \in Nat
  /\ pc \in {"idle", "init", "loop"}
  /\ left \in Nat /\ (left > 0 <=> pc = "loop")
  /\ marshalled \in BOOLEAN
  /\ elapsed \in Nat
  /\ peak \in Int

(* The loop iteration at which an item's alarm was first set: the init     *)
(* tick for a task added before it, the next iteration for a later one.    *)
ArmedAt(i) == IF log[i].early THEN 0 ELSE log[i].joined + 1

(* A periodic task has run exactly once per whole period since it was      *)
(* armed, whatever was added, destroyed, delayed or jumped over meanwhile. *)
RunCount ==
  \A i \in DOMAIN items :
    (items[i].beats > 0 /\ items[i].alarm > 0) =>
      elapsed - ArmedAt(i) + items[i].alarm
        = (log[i].runs + 1) * items[i].beats

(* An init task runs exactly once, at the init tick, before any periodic   *)
(* task; one added after the init tick does not run.  (Until the unsigned  *)
(* tick wraps to 0, which is an init tick again.)                          *)
InitTasksOnce ==
  elapsed < TickMod =>
    /\ ~initDone => \A i \in DOMAIN items : log[i].runs = 0
    /\ \A i \in DOMAIN items : items[i].beats = 0 =>
         log[i].runs = IF initDone /\ log[i].early THEN 1 ELSE 0

(* What the two rest on.  Nothing has happened before the init tick; from  *)
(* it on, a periodic item is either armed and on schedule, or joined since *)
(* the last iteration; an init task has had its run.                       *)
BeforeInit ==
  /\ pc = "init" => ~initDone
  /\ ~initDone => /\ pc # "loop" /\ elapsed = 0
                  /\ \A i \in DOMAIN items :
                       items[i].alarm = 0 /\ log[i].early /\ log[i].runs = 0
TickCounts == elapsed < TickMod => tick = elapsed
OnSchedule ==
  initDone => \A i \in DOMAIN items :
    items[i].beats > 0 =>
      IF items[i].alarm = 0
      THEN log[i].runs = 0 /\ ~log[i].early /\ log[i].joined = elapsed
      ELSE elapsed - ArmedAt(i) + items[i].alarm
             = (log[i].runs + 1) * items[i].beats
InitRuns ==
  (initDone /\ elapsed < TickMod) => \A i \in DOMAIN items :
    items[i].beats = 0 => log[i].runs = IF log[i].early THEN 1 ELSE 0

IInv == TypeOK /\ BeforeInit /\ TickCounts /\ OnSchedule /\ InitRuns

(* schedule_will_alarm, asked before a tick, agrees with what the default  *)
(* tick then does: no task runs outside marshal_out/marshal_in, and beyond *)
(* the init tick no data is marshalled for a tick that runs no task.       *)
MarshalMatchesRuns ==
  [][LET Ran == \E i \in DOMAIN items : log'[i].runs # log[i].runs IN
     pc # "idle" =>
       /\ Ran => marshalled'
       /\ (marshalled' /\ items # <<>> /\ tick' # 0) => Ran]_vars

(* When a call returns, less than 1/1.01 beat of schedule time is left     *)
(* over: no beat is lost, neither to a jump of several beats nor to a step *)
(* that rounding left short of a beat.                                     *)
CallCatchesUp ==
  [][(pc' = "idle" /\ (pc # "idle" \/ simTime' # simTime) /\ elapsed' < TickMod)
       => 101 * (ScheduleTime(simTime') - tick' * Beat) < 100 * Beat]_vars

(* x is at most the largest lag that one call can find: what the last call *)
(* left over, one step of time and one change of the delay.                *)
WithinOneLag(x) ==
  \E s \in Steps \cup {0}, d1 \in Delays \cup {0}, d2 \in Delays :
    x <= Beat + s + d1 - d2

(* The 1% never accumulates: the schedule is ahead of the latest schedule  *)
(* time it has seen by at most 1% of the largest lag.                      *)
NeverAhead == elapsed < TickMod => WithinOneLag(100 * (tick * Beat - peak))

(* The largest lag converts to an int, and the invariant that keeps time   *)
(* where it does.                                                          *)
LagsFitInt ==
  \A s \in Steps \cup {0}, d1 \in Delays \cup {0}, d2 \in Delays :
    101 * (Beat + s + d1 - d2) < 100 * Beat * (IntMax + 1)
KeepsTime ==
  LET st == ScheduleTime(simTime) IN
  elapsed < TickMod =>
    /\ WithinOneLag(100 * (tick * Beat - peak))
    /\ pc = "idle" => \E d \in Delays \cup {0} : simTime - d - tick * Beat < Beat
    /\ pc = "init" => st <= peak /\ WithinOneLag(st - tick * Beat)
    /\ pc = "loop" => /\ st <= peak
                      /\ WithinOneLag(100 * ((tick + left) * Beat - st))
                      /\ 101 * (st - (tick + left) * Beat) < 100 * Beat

(* The countdown alarms implement absolute deadlines: an alarm is the      *)
(* distance to the deadline, and only periodic tasks are jobs.             *)
Job(item, entry) ==
  [period |-> item.beats,
   due |-> IF item.alarm = 0 THEN 0 ELSE elapsed + item.alarm,
   runs |-> IF item.beats = 0 THEN 0 ELSE entry.runs]
Jobs == [i \in DOMAIN items |-> Job(items[i], log[i])]

Abstract == INSTANCE Deadlines WITH
  now <- elapsed, started <- initDone, jobs <- Jobs

ImplementsDeadlines == Abstract!Spec

(* A call of schedule_tick returns.                                        *)
CallReturns == pc # "idle" ~> pc = "idle"

=============================================================================
