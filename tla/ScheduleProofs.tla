--------------------------- MODULE ScheduleProofs ---------------------------
(***************************************************************************)
(* What holds of Schedule for every beat, every set of steps, delays and   *)
(* periods, every bound and every width of the counters.                   *)
(***************************************************************************)
EXTENDS Schedule, SequenceTheorems, TLAPS

USE BeatAssumption, StepsAssumption, DelaysAssumption, PeriodsAssumption,
    BoundsAssumption, WidthAssumption

-----------------------------------------------------------------------------
(* Arithmetic and sequences.                                               *)

(* The quotient the loop bound is made of, as inequalities.                *)
LEMMA DivBounds ==
  ASSUME NEW a \in Int, NEW b \in Nat \ {0}
  PROVE  /\ a \div b \in Int
         /\ b * (a \div b) <= a
         /\ a < b * (a \div b) + b
  BY SMT

(* A common positive factor cancels from an inequality.                    *)
LEMMA ProductLess ==
  ASSUME NEW a \in Int, NEW b \in Int, NEW c \in Nat \ {0}, c * a < c * b
  PROVE  a < b
  BY SMT

(* The remainder that keeps the tick counter in its width.                 *)
LEMMA ModBounds ==
  ASSUME NEW a \in Int, NEW b \in Nat \ {0}
  PROVE  /\ a % b \in 0..b - 1
         /\ a \in 0..b - 1 => a % b = a
  BY SMT

(* A function on 1..n is a sequence of length n.                           *)
LEMMA FunctionIsSeq ==
  ASSUME NEW S, NEW n \in Nat, NEW f \in [1..n -> S]
  PROVE  f \in Seq(S) /\ Len(f) = n
  <1>1. f \in Seq(S)
    BY SeqDef
  <1>2. Len(f) \in Nat /\ DOMAIN f = 1..Len(f)
    BY <1>1, LenProperties
  <1>3. 1..Len(f) = 1..n
    BY <1>2
  <1> QED
    BY <1>1, <1>2, <1>3

-----------------------------------------------------------------------------
(* Type correctness.                                                       *)

(* The default tick keeps the list well formed, and the history with it.   *)
LEMMA DefaultTickTypes ==
  ASSUME TypeOK, NEW t, DefaultTick(t)
  PROVE  /\ items' \in Seq(Item)
         /\ log' \in Seq(Entry)
         /\ Len(log') = Len(items')
         /\ DOMAIN items' = DOMAIN items
  <1> DEFINE n == Len(items)
  <1>1. /\ n \in Nat
        /\ DOMAIN items = 1..n /\ items \in [1..n -> Item]
        /\ log \in [1..n -> Entry]
    BY LenProperties DEF TypeOK
  <1>2. \A it \in Item : Advance(it) \in Item
    BY DEF Item, Advance
  <1>3. items' \in [1..n -> Item]
    BY <1>1, <1>2 DEF DefaultTick
  <1>4. \A e \in Entry : [e EXCEPT !.runs = e.runs + 1] \in Entry
    BY DEF Entry
  <1>5. log' \in [1..n -> Entry]
    BY <1>1, <1>4 DEF DefaultTick
  <1> HIDE DEF n
  <1> QED
    BY <1>1, <1>3, <1>5, FunctionIsSeq

(* The loop bound that a call computes is a natural number.                *)
LEMMA StartLoopTypes ==
  ASSUME NEW st, StartLoop(st)
  PROVE  /\ left' \in Nat
         /\ pc' \in {"idle", "loop"}
         /\ left' > 0 <=> pc' = "loop"
  <1> PICK n \in ToInt(Ticks(st - tick * Beat)) :
        /\ left' = IF n > 0 THEN n ELSE 0
        /\ pc' = IF n > 0 THEN "loop" ELSE "idle"
    BY DEF StartLoop
  <1> QED
    BY DEF ToInt

(* schedule_configure leaves a schedule of the right types.                *)
LEMMA TypeCorrectInit == Init => TypeOK
  <1>1. Init => items \in Seq(Item) /\ log \in Seq(Entry) /\ Len(log) = Len(items)
    BY EmptySeq DEF Init
  <1>2. Init => tick \in 0..TickMod - 1 /\ simTime \in Nat /\ elapsed \in Nat /\ peak \in Int
    BY DEF Init
  <1>3. Init => left \in Nat /\ (left > 0 <=> pc = "loop") /\ pc \in {"idle", "init", "loop"}
    BY DEF Init
  <1>4. Init => initDone \in BOOLEAN /\ marshalled \in BOOLEAN /\ delay \in Delays
    BY DEF Init
  <1> QED
    BY <1>1, <1>2, <1>3, <1>4 DEF TypeOK

(* Every step keeps the types; the loop counter stays positive in the loop. *)
LEMMA TypeCorrectNext == TypeOK /\ [Next]_vars => TypeOK'
  <1> SUFFICES ASSUME TypeOK, [Next]_vars PROVE TypeOK'
    OBVIOUS
  <1>1. ASSUME NEW b \in Periods, ScheduleAdd(b) PROVE TypeOK'
    <2>1. [beats |-> b, alarm |-> 0] \in Item
      BY DEF Item
    <2>2. [runs |-> 0, joined |-> elapsed, early |-> ~initDone] \in Entry
      BY DEF Entry, TypeOK
    <2> QED
      BY <1>1, <2>1, <2>2, AppendProperties DEF ScheduleAdd, TypeOK
  <1>2. CASE ScheduleDestroy
    BY <1>2, EmptySeq DEF ScheduleDestroy, TypeOK
  <1>3. ASSUME NEW d \in Delays, SetDelay(d) PROVE TypeOK'
    BY <1>3 DEF SetDelay, TypeOK
  <1>4. ASSUME NEW d \in Steps, ScheduleTick(d) PROVE TypeOK'
    <2>1. simTime' \in Nat /\ peak' \in Int
      BY <1>4 DEF ScheduleTick, ScheduleTime, TypeOK
    <2>2. left' \in Nat /\ pc' \in {"idle", "init", "loop"}
          /\ (left' > 0 <=> pc' = "loop")
      BY <1>4, StartLoopTypes DEF ScheduleTick
    <2> QED
      BY <1>4, <2>1, <2>2 DEF ScheduleTick, TypeOK
  <1>5. CASE InitTick
    BY <1>5, DefaultTickTypes, StartLoopTypes DEF InitTick, TypeOK
  <1>6. CASE LoopTick
    <2>1. tick' \in 0..TickMod - 1
      BY <1>6, ModBounds DEF LoopTick, TypeOK
    <2>2. marshalled' \in BOOLEAN
      BY <1>6 DEF LoopTick, WillAlarm
    <2>3. pc' \in {"idle", "loop"} /\ left' \in Nat /\ (left' > 0 <=> pc' = "loop")
      BY <1>6 DEF LoopTick, TypeOK
    <2> QED
      BY <1>6, <2>1, <2>2, <2>3, DefaultTickTypes DEF LoopTick, TypeOK
  <1>7. CASE UNCHANGED vars
    BY <1>7 DEF vars, TypeOK
  <1> QED
    BY <1>1, <1>2, <1>3, <1>4, <1>5, <1>6, <1>7 DEF Next

(* schedule.c keeps its types: an alarm never exceeds its item's period,   *)
(* and a call is in its loop exactly while iterations are left.            *)
THEOREM TypeCorrect == Spec => []TypeOK
  BY TypeCorrectInit, TypeCorrectNext, PTL DEF Spec

-----------------------------------------------------------------------------
(* The inductive invariant.                                                *)

(* A negative schedule time starts no loop while the tick counter is 0.    *)
LEMMA NoLoopBeforeZero ==
  ASSUME NEW st \in Int, st < 0, tick = 0, StartLoop(st)
  PROVE  pc' = "idle"
  <1>1. Ticks(st) \in Int /\ Ticks(st) < 0
    BY DivBounds DEF Ticks
  <1>2. st - tick * Beat = st
    OBVIOUS
  <1>3. \A n \in ToInt(Ticks(st)) : ~(n > 0)
    BY <1>1 DEF ToInt
  <1> QED
    BY <1>2, <1>3 DEF StartLoop

(* An empty schedule whose init tick is to come satisfies the invariant.   *)
LEMMA IInvInit == Init => IInv
  <1> SUFFICES ASSUME Init PROVE IInv
    OBVIOUS
  <1>1. TypeOK
    BY TypeCorrectInit
  <1>2. DOMAIN items = {}
    BY DEF Init
  <1>3. BeforeInit
    BY <1>2 DEF Init, BeforeInit
  <1>4. TickCounts
    BY DEF Init, TickCounts
  <1>5. OnSchedule /\ InitRuns
    BY <1>2 DEF OnSchedule, InitRuns
  <1> QED
    BY <1>1, <1>3, <1>4, <1>5 DEF IInv

(* An item and its history have their fields.                              *)
LEMMA ItemTypes ==
  ASSUME TypeOK, NEW i \in DOMAIN items
  PROVE  /\ i \in DOMAIN log
         /\ items[i] \in Item /\ log[i] \in Entry
         /\ items[i].beats \in Nat /\ items[i].alarm \in Nat
         /\ log[i].runs \in Nat /\ log[i].joined \in Nat
         /\ log[i].early \in BOOLEAN
  <1>1. DOMAIN items = 1..Len(items) /\ DOMAIN log = 1..Len(items)
    BY LenProperties DEF TypeOK
  <1>2. items[i] \in Item /\ log[i] \in Entry
    BY <1>1, ElementOfSeq DEF TypeOK
  <1> QED
    BY <1>1, <1>2 DEF Item, Entry

(* What a tick does to one item and to its history.                        *)
LEMMA DefaultTickItem ==
  ASSUME TypeOK, NEW t, DefaultTick(t), NEW i \in DOMAIN items
  PROVE  /\ items'[i].beats = items[i].beats
         /\ items'[i].alarm = IF items[i].alarm > 1
                              THEN items[i].alarm - 1 ELSE items[i].beats
         /\ log'[i].joined = log[i].joined
         /\ log'[i].early = log[i].early
         /\ log'[i].runs = IF i \in Executed(items, t)
                           THEN log[i].runs + 1 ELSE log[i].runs
  <1>1. items'[i] = Advance(items[i])
    BY DEF DefaultTick
  <1>2. log'[i] = IF i \in Executed(items, t)
                  THEN [log[i] EXCEPT !.runs = log[i].runs + 1] ELSE log[i]
    BY DEF DefaultTick
  <1>3. items[i] \in Item /\ log[i] \in Entry
    BY ItemTypes
  <1>4. items'[i].beats = items[i].beats
        /\ items'[i].alarm = IF items[i].alarm > 1
                             THEN items[i].alarm - 1 ELSE items[i].beats
    BY <1>1, <1>3 DEF Advance, Item
  <1>5. CASE i \in Executed(items, t)
    BY <1>2, <1>3, <1>4, <1>5 DEF Entry
  <1>6. CASE i \notin Executed(items, t)
    BY <1>2, <1>4, <1>6
  <1> QED
    BY <1>5, <1>6

(* schedule_add appends one item with no alarm and leaves the others.      *)
LEMMA ScheduleAddItem ==
  ASSUME TypeOK, NEW b \in Periods, ScheduleAdd(b), NEW i \in DOMAIN items'
  PROVE  \/ /\ i \in DOMAIN items
            /\ items'[i] = items[i] /\ log'[i] = log[i]
         \/ /\ i \notin DOMAIN items
            /\ items'[i].beats = b /\ items'[i].alarm = 0
            /\ log'[i].runs = 0 /\ log'[i].joined = elapsed
            /\ log'[i].early <=> ~initDone
  <1> DEFINE it == [beats |-> b, alarm |-> 0]
             en == [runs |-> 0, joined |-> elapsed, early |-> ~initDone]
  <1>1. it \in Item /\ en \in Entry
    BY DEF Item, Entry, TypeOK
  <1>2. items' = Append(items, it) /\ log' = Append(log, en)
    BY DEF ScheduleAdd
  <1>3. Len(log) = Len(items) /\ DOMAIN items = 1..Len(items) /\ Len(items) \in Nat
    BY LenProperties DEF TypeOK
  <1> HIDE DEF it, en
  <1>4. Len(items') = Len(items) + 1 /\ items' \in Seq(Item)
    BY <1>1, <1>2, AppendProperties DEF TypeOK
  <1>5. i \in 1..Len(items) + 1
    BY <1>3, <1>4, LenProperties
  <1>6. CASE i \in 1..Len(items)
    <2>1. items'[i] = items[i] /\ log'[i] = log[i]
      BY <1>1, <1>2, <1>3, <1>6, AppendProperties DEF TypeOK
    <2> QED
      BY <2>1, <1>3, <1>6
  <1>7. CASE i = Len(items) + 1
    <2>1. items'[i] = it /\ log'[i] = en
      BY <1>1, <1>2, <1>3, <1>7, AppendProperties DEF TypeOK
    <2>2. it.beats = b /\ it.alarm = 0 /\ en.runs = 0 /\ en.joined = elapsed
      BY DEF it, en
    <2>3. en.early <=> ~initDone
      BY Zenon DEF en
    <2> QED
      BY <2>1, <2>2, <2>3, <1>3, <1>7
  <1> QED
    BY <1>3, <1>5, <1>6, <1>7

(* The init tick arms every periodic item and runs every init task.        *)
LEMMA InitTickKeepsIInv == IInv /\ InitTick => IInv'
  <1> SUFFICES ASSUME IInv, InitTick PROVE IInv'
    OBVIOUS
  <1>1. TypeOK /\ TypeOK'
    BY TypeCorrectNext DEF IInv, Next
  <1>2. /\ ~initDone /\ initDone' /\ elapsed = 0 /\ elapsed' = 0
        /\ tick = 0 /\ tick' = 0 /\ DefaultTick(0) /\ pc' \in {"idle", "loop"}
    BY <1>1, StartLoopTypes DEF IInv, InitTick, BeforeInit, TickCounts
  <1>3. DOMAIN items' = DOMAIN items
    BY <1>1, <1>2, DefaultTickTypes
  <1>4. ASSUME NEW i \in DOMAIN items
        PROVE  /\ items[i].alarm = 0 /\ log[i].early /\ log[i].runs = 0
               /\ items'[i].beats = items[i].beats
               /\ items'[i].alarm = items[i].beats
               /\ log'[i].early
               /\ log'[i].runs = IF items[i].beats = 0 THEN 1 ELSE 0
    <2>1. items[i].alarm = 0 /\ log[i].early /\ log[i].runs = 0
      BY <1>2 DEF IInv, BeforeInit
    <2>2. i \in Executed(items, 0) <=> items[i].beats = 0
      BY <2>1 DEF Executed
    <2> QED
      BY <1>1, <1>2, <2>1, <2>2, DefaultTickItem
  <1>5. BeforeInit'
    BY <1>2 DEF BeforeInit
  <1>6. TickCounts'
    BY <1>2 DEF TickCounts
  <1>7. OnSchedule'
    <2> SUFFICES ASSUME NEW i \in DOMAIN items', items'[i].beats > 0
                 PROVE  /\ items'[i].alarm # 0
                        /\ elapsed' - ArmedAt(i)' + items'[i].alarm
                             = (log'[i].runs + 1) * items'[i].beats
      BY DEF OnSchedule
    <2>1. ArmedAt(i)' = 0
      BY <1>3, <1>4 DEF ArmedAt
    <2> QED
      BY <1>1, <1>2, <1>3, <1>4, <2>1, ItemTypes
  <1>8. InitRuns'
    BY <1>3, <1>4 DEF InitRuns
  <1> QED
    BY <1>1, <1>5, <1>6, <1>7, <1>8 DEF IInv

(* An iteration of the loop moves every alarm one beat on.                 *)
LEMMA LoopTickKeepsIInv == IInv /\ LoopTick => IInv'
  <1> SUFFICES ASSUME IInv, LoopTick PROVE IInv'
    OBVIOUS
  <1>1. TypeOK /\ TypeOK'
    BY TypeCorrectNext DEF IInv, Next
  <1>2. /\ initDone /\ initDone' /\ elapsed \in Nat /\ elapsed' = elapsed + 1
        /\ DefaultTick(tick') /\ pc' \in {"idle", "loop"}
        /\ tick' = (tick + 1) % TickMod
    BY <1>1 DEF IInv, LoopTick, BeforeInit, TypeOK
  <1>3. DOMAIN items' = DOMAIN items
    BY <1>1, <1>2, DefaultTickTypes
  <1>4. TickCounts'
    <2> SUFFICES ASSUME elapsed' < TickMod PROVE tick' = elapsed'
      BY DEF TickCounts
    <2>1. tick = elapsed
      BY <1>2 DEF IInv, TickCounts
    <2>2. tick + 1 \in Int /\ tick + 1 \in 0..TickMod - 1
      BY <1>2, <2>1
    <2>3. (tick + 1) % TickMod = tick + 1
      BY <2>2, ModBounds
    <2> QED
      BY <1>2, <2>1, <2>3
  <1>5. BeforeInit'
    BY <1>2 DEF BeforeInit
  <1>6. OnSchedule'
    <2> SUFFICES ASSUME NEW i \in DOMAIN items, items'[i].beats > 0
                 PROVE  /\ items'[i].alarm # 0
                        /\ elapsed' - ArmedAt(i)' + items'[i].alarm
                             = (log'[i].runs + 1) * items'[i].beats
      BY <1>3 DEF OnSchedule
    <2>1. /\ items'[i].beats = items[i].beats
          /\ log'[i].joined = log[i].joined /\ log'[i].early = log[i].early
          /\ items'[i].alarm = IF items[i].alarm > 1
                               THEN items[i].alarm - 1 ELSE items[i].beats
          /\ log'[i].runs = IF i \in Executed(items, tick')
                            THEN log[i].runs + 1 ELSE log[i].runs
      BY <1>1, <1>2, DefaultTickItem
    <2>2. i \in Executed(items, tick') <=> items[i].alarm = 1
      BY <2>1 DEF Executed
    <2>3. ArmedAt(i)' = ArmedAt(i) /\ ArmedAt(i) \in Nat
      BY <1>1, <2>1, ItemTypes DEF ArmedAt
    <2>4. CASE items[i].alarm = 0
      <3>1. log[i].runs = 0 /\ ~log[i].early /\ log[i].joined = elapsed
        BY <1>2, <2>1, <2>4 DEF IInv, OnSchedule
      <3>2. ArmedAt(i) = elapsed'
        BY <1>2, <3>1 DEF ArmedAt
      <3> QED
        BY <1>1, <1>2, <2>1, <2>2, <2>3, <2>4, <3>1, <3>2, ItemTypes
    <2>5. CASE items[i].alarm # 0
      <3>1. elapsed - ArmedAt(i) + items[i].alarm
              = (log[i].runs + 1) * items[i].beats
        BY <1>2, <2>1, <2>5 DEF IInv, OnSchedule
      <3> DEFINE p == items[i].beats
                 a == items[i].alarm
                 r == log[i].runs
      <3>2. p \in Nat /\ a \in Nat /\ r \in Nat /\ p > 0 /\ a > 0
        BY <1>1, <2>1, <2>5, ItemTypes
      <3>3. (r + 2) * p = (r + 1) * p + p
        BY <3>2
      <3>4. CASE a = 1
        BY <1>2, <2>1, <2>2, <2>3, <3>1, <3>2, <3>3, <3>4
      <3>5. CASE a > 1
        BY <1>2, <2>1, <2>2, <2>3, <3>1, <3>2, <3>5
      <3> QED
        BY <3>2, <3>4, <3>5
    <2> QED
      BY <2>4, <2>5
  <1>7. InitRuns'
    <2> SUFFICES ASSUME elapsed' < TickMod,
                        NEW i \in DOMAIN items, items'[i].beats = 0
                 PROVE  log'[i].runs = IF log'[i].early THEN 1 ELSE 0
      BY <1>3 DEF InitRuns
    <2>1. tick' # 0
      BY <1>2, <1>4 DEF TickCounts
    <2>2. items[i].beats = 0 /\ i \notin Executed(items, tick')
      BY <1>1, <1>2, <2>1, DefaultTickItem DEF Executed
    <2>3. log'[i].runs = log[i].runs /\ log'[i].early = log[i].early
      BY <1>1, <1>2, <2>2, DefaultTickItem
    <2> QED
      BY <1>1, <1>2, <2>2, <2>3 DEF IInv, InitRuns
  <1> QED
    BY <1>1, <1>4, <1>5, <1>6, <1>7 DEF IInv

(* A task that joins, early or late, breaks no one's schedule.             *)
LEMMA ScheduleAddKeepsIInv ==
  ASSUME NEW b \in Periods, IInv, ScheduleAdd(b)
  PROVE  IInv'
  <1>1. TypeOK /\ TypeOK'
    BY TypeCorrectNext DEF IInv, Next
  <1>2. UNCHANGED <<tick, initDone, pc, elapsed>>
    BY DEF ScheduleAdd
  <1>3. BeforeInit'
    <2>1. ASSUME ~initDone, NEW i \in DOMAIN items'
          PROVE  items'[i].alarm = 0 /\ log'[i].early /\ log'[i].runs = 0
      <3>1. CASE i \in DOMAIN items /\ items'[i] = items[i] /\ log'[i] = log[i]
        BY <2>1, <3>1 DEF IInv, BeforeInit
      <3>2. CASE items'[i].alarm = 0 /\ log'[i].runs = 0
                 /\ (log'[i].early <=> ~initDone)
        BY <2>1, <3>2
      <3> QED
        BY <1>1, <3>1, <3>2, ScheduleAddItem
    <2> QED
      BY <1>2, <2>1 DEF IInv, BeforeInit
  <1>4. TickCounts'
    BY <1>2 DEF IInv, TickCounts
  <1>5. OnSchedule'
    <2> SUFFICES ASSUME initDone, NEW i \in DOMAIN items', items'[i].beats > 0
                 PROVE  IF items'[i].alarm = 0
                        THEN log'[i].runs = 0 /\ ~log'[i].early
                             /\ log'[i].joined = elapsed'
                        ELSE elapsed' - ArmedAt(i)' + items'[i].alarm
                               = (log'[i].runs + 1) * items'[i].beats
      BY <1>2 DEF OnSchedule
    <2>1. CASE i \in DOMAIN items /\ items'[i] = items[i] /\ log'[i] = log[i]
      BY <1>2, <2>1 DEF IInv, OnSchedule, ArmedAt
    <2>2. CASE items'[i].alarm = 0 /\ log'[i].runs = 0
               /\ log'[i].joined = elapsed /\ (log'[i].early <=> ~initDone)
      BY <1>2, <2>2
    <2> QED
      BY <1>1, <2>1, <2>2, ScheduleAddItem
  <1>6. InitRuns'
    <2> SUFFICES ASSUME initDone, elapsed < TickMod,
                        NEW i \in DOMAIN items', items'[i].beats = 0
                 PROVE  log'[i].runs = IF log'[i].early THEN 1 ELSE 0
      BY <1>2 DEF InitRuns
    <2>1. CASE i \in DOMAIN items /\ items'[i] = items[i] /\ log'[i] = log[i]
      BY <2>1 DEF IInv, InitRuns
    <2>2. CASE log'[i].runs = 0 /\ (log'[i].early <=> ~initDone)
      BY <2>2
    <2> QED
      BY <1>1, <2>1, <2>2, ScheduleAddItem
  <1> QED
    BY <1>1, <1>3, <1>4, <1>5, <1>6 DEF IInv

(* The invariant is inductive.                                             *)
LEMMA IInvNext == IInv /\ [Next]_vars => IInv'
  <1> SUFFICES ASSUME IInv, [Next]_vars PROVE IInv'
    OBVIOUS
  <1>1. TypeOK /\ TypeOK'
    BY TypeCorrectNext DEF IInv
  <1>2. CASE ScheduleDestroy
    <2>1. DOMAIN items' = {}
      BY <1>2 DEF ScheduleDestroy
    <2>2. UNCHANGED <<tick, initDone, pc, elapsed>>
      BY <1>2 DEF ScheduleDestroy
    <2> QED
      BY <1>1, <2>1, <2>2
      DEF IInv, BeforeInit, TickCounts, OnSchedule, InitRuns
  <1>3. ASSUME NEW d \in Delays, SetDelay(d) PROVE IInv'
    <2>1. UNCHANGED <<items, tick, initDone, pc, elapsed, log>>
      BY <1>3 DEF SetDelay
    <2> QED
      BY <1>1, <2>1
      DEF IInv, BeforeInit, TickCounts, OnSchedule, InitRuns, ArmedAt
  <1>4. ASSUME NEW d \in Steps, ScheduleTick(d) PROVE IInv'
    <2>1. UNCHANGED <<items, tick, initDone, elapsed, log>>
      BY <1>4 DEF ScheduleTick
    <2>2. BeforeInit'
      <3>1. pc' = "init" => ~initDone
        BY <1>4, StartLoopTypes DEF ScheduleTick
      <3>2. ~initDone => pc' # "loop"
        <4> SUFFICES ASSUME ~initDone PROVE pc' # "loop"
          OBVIOUS
        <4> DEFINE st == ScheduleTime(simTime + d)
        <4>1. st \in Int /\ tick = 0
          BY <1>1 DEF IInv, TypeOK, ScheduleTime, BeforeInit, TickCounts
        <4>2. CASE st >= 0
          BY <1>4, <4>2 DEF ScheduleTick
        <4>3. CASE ~(st >= 0)
          <5>1. StartLoop(st)
            BY <1>4, <4>3 DEF ScheduleTick
          <5> HIDE DEF st
          <5> QED
            BY <4>1, <4>3, <5>1, NoLoopBeforeZero
        <4> QED
          BY <4>2, <4>3
      <3> QED
        BY <2>1, <3>1, <3>2 DEF IInv, BeforeInit
    <2> QED
      BY <1>1, <2>1, <2>2 DEF IInv, TickCounts, OnSchedule, InitRuns, ArmedAt
  <1>5. CASE UNCHANGED vars
    BY <1>1, <1>5
    DEF vars, IInv, BeforeInit, TickCounts, OnSchedule, InitRuns, ArmedAt
  <1> QED
    BY <1>2, <1>3, <1>4, <1>5, ScheduleAddKeepsIInv, InitTickKeepsIInv,
       LoopTickKeepsIInv DEF Next

(* In every reachable state each item is on schedule: the invariant that   *)
(* the theorems on run counts rest on.                                     *)
THEOREM Invariance == Spec => []IInv
  BY IInvInit, IInvNext, PTL DEF Spec

-----------------------------------------------------------------------------
(* The properties.                                                         *)

(* Every periodic task has had one run per whole period since it was armed. *)
THEOREM RunsOnSchedule == Spec => []RunCount
  <1>1. IInv => RunCount
    <2> SUFFICES ASSUME IInv, NEW i \in DOMAIN items,
                        items[i].beats > 0, items[i].alarm > 0
                 PROVE  elapsed - ArmedAt(i) + items[i].alarm
                          = (log[i].runs + 1) * items[i].beats
      BY DEF RunCount
    <2>1. items[i].alarm # 0
      OBVIOUS
    <2>2. initDone
      BY <2>1 DEF IInv, BeforeInit
    <2> QED
      BY <2>1, <2>2 DEF IInv, OnSchedule
  <1> QED
    BY <1>1, Invariance, PTL

(* Init tasks run once, first, and not at all when they come too late.     *)
THEOREM InitTasksRunOnce == Spec => []InitTasksOnce
  <1>1. IInv => InitTasksOnce
    <2> SUFFICES ASSUME IInv, elapsed < TickMod
                 PROVE  /\ ~initDone => \A i \in DOMAIN items : log[i].runs = 0
                        /\ \A i \in DOMAIN items : items[i].beats = 0 =>
                             log[i].runs = IF initDone /\ log[i].early THEN 1 ELSE 0
      BY DEF InitTasksOnce
    <2>1. CASE initDone
      BY <2>1 DEF IInv, InitRuns
    <2>2. CASE ~initDone
      BY <2>2 DEF IInv, BeforeInit
    <2> QED
      BY <2>1, <2>2 DEF IInv, TypeOK
  <1> QED
    BY <1>1, Invariance, PTL

(* A tick that executes an item is one that schedule_will_alarm announces, *)
(* and beyond tick 0 of a non-empty list the converse holds too.           *)
LEMMA WillAlarmIsExact ==
  ASSUME TypeOK, NEW t
  PROVE  /\ Executed(items, t) # {} => WillAlarm(items, t)
         /\ (WillAlarm(items, t) /\ items # <<>> /\ t # 0)
              => Executed(items, t) # {}
  <1>1. ASSUME NEW i \in Executed(items, t) PROVE WillAlarm(items, t)
    <2>1. i \in DOMAIN items /\ (t = 0 \/ items[i].alarm = 1)
      BY <1>1 DEF Executed
    <2> QED
      BY <2>1 DEF WillAlarm
  <1>2. ASSUME NEW i \in DOMAIN items, items[i].alarm = 1
        PROVE  i \in Executed(items, t)
    <2>1. items[i].beats # 0
      BY <1>2, ItemTypes DEF Item
    <2> QED
      BY <1>2, <2>1 DEF Executed
  <1> QED
    BY <1>1, <1>2 DEF WillAlarm

(* A tick counts a run for exactly the items it executes.                  *)
LEMMA RanIffExecuted ==
  ASSUME TypeOK, NEW t, DefaultTick(t)
  PROVE  (\E i \in DOMAIN items : log'[i].runs # log[i].runs)
           <=> Executed(items, t) # {}
  <1>1. ASSUME NEW i \in DOMAIN items
        PROVE  log'[i].runs # log[i].runs <=> i \in Executed(items, t)
    BY DefaultTickItem, ItemTypes
  <1>2. Executed(items, t) \subseteq DOMAIN items
    BY DEF Executed
  <1> QED
    BY <1>1, <1>2

(* schedule_tick marshals for exactly the ticks of its default handler     *)
(* that run a task (and for the init tick).                                *)
THEOREM MarshalExact == Spec => MarshalMatchesRuns
  <1> DEFINE Ran == \E i \in DOMAIN items : log'[i].runs # log[i].runs
             Exact == pc # "idle" =>
                        /\ Ran => marshalled'
                        /\ (marshalled' /\ items # <<>> /\ tick' # 0) => Ran
  <1>1. IInv /\ [Next]_vars => [Exact]_vars
    <2> SUFFICES ASSUME IInv, Next, pc # "idle" PROVE Exact
      OBVIOUS
    <2>1. TypeOK
      BY DEF IInv
    <2>2. InitTick \/ LoopTick
      BY DEF Next, ScheduleAdd, ScheduleDestroy, SetDelay, ScheduleTick
    <2>3. CASE InitTick
      <3>1. tick' = 0 /\ marshalled'
        BY <2>3 DEF InitTick, IInv, BeforeInit, TickCounts, TypeOK
      <3> QED
        BY <3>1
    <2>4. CASE LoopTick
      <3>1. DefaultTick(tick') /\ (marshalled' <=> WillAlarm(items, tick'))
        BY <2>4 DEF LoopTick
      <3> QED
        BY <2>1, <3>1, WillAlarmIsExact, RanIffExecuted
    <2> QED
      BY <2>2, <2>3, <2>4
  <1> QED
    BY <1>1, Invariance, PTL DEF Spec, MarshalMatchesRuns

-----------------------------------------------------------------------------
(* Keeping time, as long as the lag a call finds converts to an int.       *)

(* The loop that is started for a lag that fits leaves less than 1/1.01    *)
(* beat, and overshoots by at most 1% of the lag.                          *)
LEMMA StartLoopKeepsTime ==
  ASSUME LagsFitInt, NEW st \in Int, tick \in Nat, StartLoop(st),
         WithinOneLag(st - tick * Beat)
  PROVE  /\ left' \in Nat
         /\ pc' = "idle" => 101 * (st - tick * Beat) < 100 * Beat
         /\ pc' = "loop" =>
              /\ 101 * (st - (tick + left') * Beat) < 100 * Beat
              /\ WithinOneLag(100 * ((tick + left') * Beat - st))
         /\ pc' \in {"idle", "loop"}
  <1> DEFINE lag == st - tick * Beat
             q == Ticks(lag)
  <1>1. lag \in Int
    OBVIOUS
  <1>2. /\ q \in Int
        /\ 100 * Beat * q <= 101 * lag
        /\ 101 * lag < 100 * Beat * q + 100 * Beat
    <2> HIDE DEF lag
    <2>1. lag * 101 \in Int /\ Beat * 100 \in Nat \ {0}
      BY <1>1
    <2>2. /\ q \in Int
          /\ (Beat * 100) * q <= lag * 101
          /\ lag * 101 < (Beat * 100) * q + Beat * 100
      BY <2>1, DivBounds DEF Ticks
    <2> HIDE DEF q
    <2> QED
      BY <1>1, <2>2
  <1>3. PICK n \in ToInt(q) : /\ left' = IF n > 0 THEN n ELSE 0
                              /\ pc' = IF n > 0 THEN "loop" ELSE "idle"
    BY DEF StartLoop
  <1>4. PICK s \in Steps \cup {0}, d1 \in Delays \cup {0}, d2 \in Delays :
          lag <= Beat + s + d1 - d2
    BY DEF WithinOneLag
  <1>5. s \in Int /\ d1 \in Int /\ d2 \in Int
    OBVIOUS
  <1> HIDE DEF lag, q
  <1>6. 101 * lag < 100 * Beat * (IntMax + 1)
    BY <1>1, <1>4, <1>5 DEF LagsFitInt
  <1>7. q < IntMax + 1
    <2>1. (100 * Beat) * q < (100 * Beat) * (IntMax + 1)
      BY <1>1, <1>2, <1>6
    <2> QED
      BY <1>2, <2>1, ProductLess
  <1>8. IF q > 0 THEN n = q ELSE n \in Int /\ ~(n > 0)
    BY <1>2, <1>3, <1>7 DEF ToInt
  <1>9. CASE q > 0
    <2>1. pc' = "loop" /\ left' = q
      BY <1>3, <1>8, <1>9
    <2>2. (tick + q) * Beat - st = q * Beat - lag
      BY <1>2 DEF lag
    <2>3. 100 * (q * Beat - lag) <= lag
      BY <1>1, <1>2
    <2>4. 101 * (lag - q * Beat) < 100 * Beat
      BY <1>1, <1>2, <1>9
    <2>5. 100 * ((tick + q) * Beat - st) <= Beat + s + d1 - d2
      BY <1>1, <1>2, <1>4, <1>5, <2>2, <2>3
    <2>6. WithinOneLag(100 * ((tick + q) * Beat - st))
      BY <2>5 DEF WithinOneLag
    <2>7. 101 * (st - (tick + q) * Beat) < 100 * Beat
      BY <1>1, <1>2, <2>2, <2>4
    <2> QED
      BY <1>2, <1>9, <2>1, <2>6, <2>7
  <1>10. CASE ~(q > 0)
    <2>1. pc' = "idle" /\ left' = 0
      BY <1>3, <1>8, <1>10
    <2>2. 101 * lag < 100 * Beat
      BY <1>1, <1>2, <1>10
    <2> QED
      BY <2>1, <2>2 DEF lag
  <1> QED
    BY <1>9, <1>10

(* An excess below the largest lag stays below it when it shrinks.         *)
LEMMA WithinOneLagDown ==
  ASSUME NEW x \in Int, NEW y \in Int, x <= y, WithinOneLag(y)
  PROVE  WithinOneLag(x)
  <1> PICK s \in Steps \cup {0}, d1 \in Delays \cup {0}, d2 \in Delays :
        y <= Beat + s + d1 - d2
    BY DEF WithinOneLag
  <1>1. s \in Int /\ d1 \in Int /\ d2 \in Int
    OBVIOUS
  <1>2. x <= Beat + s + d1 - d2
    BY <1>1
  <1> QED
    BY <1>2 DEF WithinOneLag

(* Less than 1/1.01 beat is less than a beat.                              *)
LEMMA LessThanABeat ==
  ASSUME NEW x \in Int, 101 * x < 100 * Beat
  PROVE  x < Beat
  BY SMT

(* Before the first call the schedule is not ahead of its time.            *)
LEMMA KeepsTimeInit == Init => KeepsTime
  <1> SUFFICES ASSUME Init PROVE KeepsTime
    OBVIOUS
  <1>1. delay \in Delays /\ delay \in Int /\ pc = "idle"
    BY DEF Init
  <1>2. WithinOneLag(100 * (tick * Beat - peak))
    <2>1. 100 * (tick * Beat - peak) <= Beat + 0 + delay - delay
      BY <1>1 DEF Init
    <2> QED
      BY <1>1, <2>1 DEF WithinOneLag
  <1>3. simTime - 0 - tick * Beat < Beat
    BY DEF Init
  <1> QED
    BY <1>1, <1>2, <1>3 DEF KeepsTime

(* The variables KeepsTime compares are integers.                          *)
LEMMA TimeTypes ==
  ASSUME TypeOK
  PROVE  /\ simTime \in Int /\ delay \in Int /\ peak \in Int
         /\ tick \in Nat /\ left \in Nat /\ ScheduleTime(simTime) \in Int
  BY DEF TypeOK, ScheduleTime

(* A call begins with at most one lag to catch up.                         *)
LEMMA ScheduleTickKeepsTime ==
  ASSUME LagsFitInt, TypeOK, KeepsTime, NEW d \in Steps, ScheduleTick(d)
  PROVE  KeepsTime'
  <1> SUFFICES ASSUME elapsed < TickMod PROVE KeepsTime'
    BY DEF KeepsTime, ScheduleTick
  <1> DEFINE st == ScheduleTime(simTime + d)
  <1>1. /\ st = simTime + d - delay /\ st \in Int /\ ScheduleTime(simTime)' = st
        /\ tick' = tick /\ pc = "idle" /\ d \in Int
        /\ peak' = IF st > peak THEN st ELSE peak
    BY TimeTypes DEF ScheduleTick, ScheduleTime
  <1>2. WithinOneLag(st - tick * Beat)
    <2>1. PICK d1 \in Delays \cup {0} : simTime - d1 - tick * Beat < Beat
      BY <1>1 DEF KeepsTime
    <2>2. st - tick * Beat <= Beat + d + d1 - delay
      BY <1>1, <2>1, TimeTypes
    <2> QED
      BY <2>2 DEF WithinOneLag, TypeOK
  <1>3. st <= peak' /\ peak <= peak' /\ peak' \in Int
    BY <1>1, TimeTypes
  <1>4. WithinOneLag(100 * (tick' * Beat - peak'))
    <2>1. WithinOneLag(100 * (tick * Beat - peak))
      BY DEF KeepsTime
    <2>2. 100 * (tick' * Beat - peak') <= 100 * (tick * Beat - peak)
      BY <1>1, <1>3, TimeTypes
    <2> QED
      BY <1>1, <1>3, <2>1, <2>2, TimeTypes, WithinOneLagDown
  <1>5. delay' = delay /\ delay \in Delays /\ simTime' = simTime + d
    BY DEF ScheduleTick, TypeOK
  <1> HIDE DEF st
  <1>6. CASE pc' = "init"
    BY <1>1, <1>2, <1>3, <1>4, <1>6 DEF KeepsTime, WithinOneLag
  <1>7. CASE StartLoop(st)
    <2>1. /\ left' \in Nat
          /\ pc' = "idle" => 101 * (st - tick * Beat) < 100 * Beat
          /\ pc' = "loop" =>
               /\ 101 * (st - (tick + left') * Beat) < 100 * Beat
               /\ WithinOneLag(100 * ((tick + left') * Beat - st))
          /\ pc' \in {"idle", "loop"}
      BY <1>1, <1>2, <1>7, TimeTypes, StartLoopKeepsTime
    <2>2. pc' = "idle" => simTime' - delay - tick' * Beat < Beat
      BY <1>1, <1>5, <2>1, TimeTypes, LessThanABeat
    <2>3. pc' = "idle" =>
            \E e \in Delays \cup {0} : simTime' - e - tick' * Beat < Beat
      BY <1>5, <2>2
    <2> QED
      BY <1>1, <1>3, <1>4, <2>1, <2>3 DEF KeepsTime
  <1> QED
    BY <1>6, <1>7 DEF ScheduleTick, st

(* The init tick takes no schedule time.                                   *)
LEMMA InitTickKeepsTime ==
  ASSUME LagsFitInt, TypeOK, KeepsTime, InitTick
  PROVE  KeepsTime'
  <1> SUFFICES ASSUME elapsed < TickMod PROVE KeepsTime'
    BY DEF KeepsTime, InitTick
  <1> DEFINE st == ScheduleTime(simTime)
  <1>1. /\ st = simTime - delay /\ st \in Int /\ st' = st /\ tick' = tick
        /\ pc = "init" /\ peak' = peak /\ StartLoop(st)
        /\ delay' = delay /\ delay \in Delays /\ simTime' = simTime
    BY TimeTypes DEF InitTick, ScheduleTime, TypeOK
  <1>2. /\ WithinOneLag(st - tick * Beat) /\ st <= peak
        /\ WithinOneLag(100 * (tick * Beat - peak))
    BY <1>1 DEF KeepsTime
  <1> HIDE DEF st
  <1>3. /\ left' \in Nat
        /\ pc' = "idle" => 101 * (st - tick * Beat) < 100 * Beat
        /\ pc' = "loop" =>
             /\ 101 * (st - (tick + left') * Beat) < 100 * Beat
             /\ WithinOneLag(100 * ((tick + left') * Beat - st))
        /\ pc' \in {"idle", "loop"}
    BY <1>1, <1>2, TimeTypes, StartLoopKeepsTime
  <1>4. pc' = "idle" => simTime' - delay - tick' * Beat < Beat
    BY <1>1, <1>3, TimeTypes, LessThanABeat
  <1>5. pc' = "idle" =>
          \E e \in Delays \cup {0} : simTime' - e - tick' * Beat < Beat
    BY <1>1, <1>4
  <1> QED
    BY <1>1, <1>2, <1>3, <1>5 DEF KeepsTime, st

(* Ticks made and iterations left always add up to the same time.          *)
LEMMA LoopTickKeepsTime ==
  ASSUME TypeOK, TickCounts, TickCounts', KeepsTime, LoopTick
  PROVE  KeepsTime'
  <1> SUFFICES ASSUME elapsed' < TickMod PROVE KeepsTime'
    BY DEF KeepsTime
  <1> DEFINE st == ScheduleTime(simTime)
  <1>1. /\ pc = "loop" /\ peak' = peak /\ simTime' = simTime /\ delay' = delay
        /\ left' = left - 1 /\ pc' = IF left > 1 THEN "loop" ELSE "idle"
        /\ elapsed' = elapsed + 1 /\ elapsed \in Nat /\ delay \in Delays
        /\ st = simTime - delay /\ st' = st /\ st \in Int
    BY TimeTypes DEF LoopTick, TypeOK, ScheduleTime
  <1>2. tick' = tick + 1
    BY <1>1 DEF TickCounts
  <1>3. left \in Nat /\ left > 0
    BY <1>1 DEF TypeOK
  <1>4. /\ st <= peak
        /\ WithinOneLag(100 * ((tick + left) * Beat - st))
        /\ 101 * (st - (tick + left) * Beat) < 100 * Beat
    BY <1>1 DEF KeepsTime
  <1> HIDE DEF st
  <1>5. (tick' + left') * Beat = (tick + left) * Beat
    BY <1>1, <1>2, <1>3, TimeTypes
  <1>6. WithinOneLag(100 * (tick' * Beat - peak'))
    <2> DEFINE x == 100 * (tick' * Beat - peak')
               y == 100 * ((tick + left) * Beat - st)
    <2>1. tick' * Beat <= (tick + left) * Beat
      BY <1>2, <1>3, TimeTypes
    <2>2. x \in Int /\ y \in Int /\ x <= y
      BY <1>1, <1>2, <1>3, <1>4, <2>1, TimeTypes
    <2> QED
      BY <1>4, <2>2, WithinOneLagDown
  <1>7. pc' = "idle" =>
          \E e \in Delays \cup {0} : simTime' - e - tick' * Beat < Beat
    <2> SUFFICES ASSUME pc' = "idle"
                 PROVE  simTime' - delay - tick' * Beat < Beat
      BY <1>1
    <2>1. left = 1
      BY <1>1, <1>3
    <2>2. 101 * (st - tick' * Beat) < 100 * Beat
      BY <1>2, <1>4, <2>1
    <2> QED
      BY <1>1, <1>2, <2>2, TimeTypes, LessThanABeat
  <1> QED
    BY <1>1, <1>4, <1>5, <1>6, <1>7 DEF KeepsTime, st

(* Every step keeps the relation of ticks to schedule time.                *)
LEMMA KeepsTimeNext ==
  ASSUME LagsFitInt, IInv, KeepsTime, [Next]_vars
  PROVE  KeepsTime'
  <1>1. TypeOK /\ TickCounts /\ TickCounts'
    BY IInvNext DEF IInv
  <1>2. ASSUME pc = "idle", UNCHANGED <<tick, simTime, pc, elapsed, peak>>
        PROVE  KeepsTime'
    BY <1>2 DEF KeepsTime
  <1>3. ASSUME NEW b \in Periods, ScheduleAdd(b) PROVE KeepsTime'
    BY <1>2, <1>3 DEF ScheduleAdd
  <1>4. CASE ScheduleDestroy
    BY <1>2, <1>4 DEF ScheduleDestroy
  <1>5. ASSUME NEW d \in Delays, SetDelay(d) PROVE KeepsTime'
    BY <1>2, <1>5 DEF SetDelay
  <1>6. CASE UNCHANGED vars
    BY <1>6 DEF vars, KeepsTime, ScheduleTime
  <1> QED
    BY <1>1, <1>3, <1>4, <1>5, <1>6, ScheduleTickKeepsTime, InitTickKeepsTime,
       LoopTickKeepsTime DEF Next

(* The schedule is never ahead of its time by more than 1% of one lag.     *)
THEOREM NotAheadOfTime ==
  ASSUME LagsFitInt
  PROVE  Spec => []NeverAhead
  <1>1. KeepsTime => NeverAhead
    BY DEF KeepsTime, NeverAhead
  <1>2. IInv /\ KeepsTime /\ [Next]_vars => KeepsTime'
    BY KeepsTimeNext
  <1> QED
    BY <1>1, <1>2, KeepsTimeInit, Invariance, PTL DEF Spec

(* A call returns with less than 1/1.01 beat of its time not ticked.       *)
THEOREM CallsCatchUp ==
  ASSUME LagsFitInt
  PROVE  Spec => CallCatchesUp
  <1> DEFINE Returns == pc' = "idle" /\ (pc # "idle" \/ simTime' # simTime)
                        /\ elapsed' < TickMod
             CaughtUp == 101 * (ScheduleTime(simTime') - tick' * Beat) < 100 * Beat
  <1>1. IInv /\ KeepsTime /\ [Next]_vars => [Returns => CaughtUp]_vars
    <2> SUFFICES ASSUME IInv, KeepsTime, Next, Returns PROVE CaughtUp
      OBVIOUS
    <2>1. TypeOK /\ TickCounts /\ TickCounts'
      BY IInvNext DEF IInv
    <2>2. CASE \E d \in Steps : ScheduleTick(d)
      <3> PICK d \in Steps : ScheduleTick(d)
        BY <2>2
      <3> DEFINE st == ScheduleTime(simTime + d)
      <3>1. /\ st = simTime + d - delay /\ st \in Int /\ StartLoop(st)
            /\ tick' = tick /\ pc = "idle" /\ simTime' = simTime + d
            /\ elapsed < TickMod /\ d \in Int
        BY <2>1, TimeTypes DEF ScheduleTick, ScheduleTime
      <3>2. WithinOneLag(st - tick * Beat)
        <4>1. PICK d1 \in Delays \cup {0} : simTime - d1 - tick * Beat < Beat
          BY <3>1 DEF KeepsTime
        <4>2. st - tick * Beat <= Beat + d + d1 - delay
          BY <2>1, <3>1, <4>1, TimeTypes
        <4> QED
          BY <2>1, <4>2 DEF WithinOneLag, TypeOK
      <3> HIDE DEF st
      <3>3. 101 * (st - tick * Beat) < 100 * Beat
        BY <2>1, <3>1, <3>2, TimeTypes, StartLoopKeepsTime
      <3> QED
        BY <3>1, <3>3 DEF st
    <2>3. CASE InitTick
      <3> DEFINE st == ScheduleTime(simTime)
      <3>1. /\ st \in Int /\ StartLoop(st) /\ tick' = tick /\ simTime' = simTime
            /\ pc = "init" /\ elapsed < TickMod
        BY <2>1, <2>3, TimeTypes DEF InitTick
      <3>2. WithinOneLag(st - tick * Beat)
        BY <3>1 DEF KeepsTime
      <3> HIDE DEF st
      <3>3. 101 * (st - tick * Beat) < 100 * Beat
        BY <2>1, <3>1, <3>2, TimeTypes, StartLoopKeepsTime
      <3> QED
        BY <3>1, <3>3 DEF st
    <2>4. CASE LoopTick
      <3>1. /\ pc = "loop" /\ left \in Nat /\ left > 0 /\ ~(left > 1)
            /\ elapsed' = elapsed + 1 /\ elapsed \in Nat /\ simTime' = simTime
        BY <2>1, <2>4 DEF LoopTick, TypeOK
      <3>2. tick' = tick + 1 /\ left = 1
        BY <2>1, <3>1 DEF TickCounts
      <3>3. 101 * (ScheduleTime(simTime) - (tick + left) * Beat) < 100 * Beat
        BY <3>1 DEF KeepsTime
      <3> QED
        BY <3>1, <3>2, <3>3
    <2> QED
      BY <2>2, <2>3, <2>4 DEF Next, ScheduleAdd, ScheduleDestroy, SetDelay
  <1>2. IInv /\ KeepsTime /\ [Next]_vars => KeepsTime'
    BY KeepsTimeNext
  <1> QED
    BY <1>1, <1>2, KeepsTimeInit, Invariance, PTL DEF Spec, CallCatchesUp

-----------------------------------------------------------------------------
(* The countdown implements the deadlines.                                 *)

(* A joining task is a joining job.                                        *)
LEMMA AddIsJoin ==
  ASSUME TypeOK, NEW b \in Periods, ScheduleAdd(b)
  PROVE  Abstract!Join(b)
  <1> DEFINE it == [beats |-> b, alarm |-> 0]
             en == [runs |-> 0, joined |-> elapsed, early |-> ~initDone]
             new == [period |-> b, due |-> 0, runs |-> 0]
             n == Len(items)
  <1>1. items' = Append(items, it) /\ log' = Append(log, en)
        /\ elapsed' = elapsed /\ initDone' = initDone
    BY DEF ScheduleAdd
  <1>2. it \in Item /\ en \in Entry
    BY DEF Item, Entry, TypeOK
  <1>3. n \in Nat /\ DOMAIN items = 1..n /\ Len(log) = n
        /\ items \in Seq(Item) /\ log \in Seq(Entry)
    BY LenProperties DEF TypeOK
  <1>4. Job(it, en) = new
    BY DEF Job
  <1> HIDE DEF it, en
  <1>5. /\ DOMAIN items' = 1..n + 1
        /\ \A i \in 1..n : items'[i] = items[i] /\ log'[i] = log[i]
        /\ items'[n + 1] = it /\ log'[n + 1] = en
    BY <1>1, <1>2, <1>3, AppendProperties, LenProperties
  <1> DEFINE T == {Job(items[i], log[i]) : i \in 1..n} \cup {new}
  <1>6. Jobs \in [1..n -> T] /\ new \in T
    BY <1>3 DEF Jobs
  <1> HIDE DEF T, n
  <1>7. Jobs \in Seq(T) /\ Len(Jobs) = n
    BY <1>3, <1>6, FunctionIsSeq
  <1>8. Append(Jobs, new) \in Seq(T) /\ Len(Append(Jobs, new)) = n + 1
        /\ \A i \in 1..n : Append(Jobs, new)[i] = Jobs[i]
        /\ Append(Jobs, new)[n + 1] = new
    BY <1>6, <1>7, AppendProperties
  <1>9. Jobs' = [i \in 1..n + 1 |-> IF i = n + 1 THEN new
                                    ELSE Job(items[i], log[i])]
    <2>1. Jobs' = [i \in 1..n + 1 |-> Job(items'[i], log'[i])]
      BY <1>1, <1>5 DEF Jobs, Job
    <2>2. \A i \in 1..n + 1 : i = n + 1 \/ i \in 1..n
      BY <1>3
    <2> QED
      BY <1>4, <1>5, <2>1, <2>2
  <1>10. Append(Jobs, new) = [i \in 1..n + 1 |-> Append(Jobs, new)[i]]
    <2> DEFINE s == Append(Jobs, new)
    <2>1. s \in [1..n + 1 -> T]
      BY <1>8, LenProperties
    <2> HIDE DEF s
    <2>2. s = [i \in 1..n + 1 |-> s[i]]
      BY <2>1
    <2> QED
      BY <2>2 DEF s
  <1>11. \A i \in 1..n + 1 :
           Append(Jobs, new)[i] = IF i = n + 1 THEN new ELSE Job(items[i], log[i])
    <2>1. \A i \in 1..n : Jobs[i] = Job(items[i], log[i])
      BY <1>3 DEF Jobs, n
    <2>2. \A i \in 1..n + 1 : i = n + 1 \/ i \in 1..n
      BY <1>3
    <2> QED
      BY <1>8, <2>1, <2>2
  <1>12. Jobs' = Append(Jobs, new)
    BY <1>9, <1>10, <1>11
  <1> QED
    BY <1>1, <1>12 DEF Abstract!Join

(* Before the init tick no job is armed; the init tick arms them all.      *)
LEMMA InitTickIsStart ==
  ASSUME IInv, InitTick
  PROVE  Abstract!Start
  <1>1. TypeOK
    BY DEF IInv
  <1>2. /\ ~initDone /\ initDone' = TRUE /\ elapsed = 0 /\ elapsed' = elapsed
        /\ DefaultTick(0)
    BY <1>1 DEF IInv, InitTick, BeforeInit, TickCounts
  <1>3. DOMAIN items' = DOMAIN items
    BY <1>1, <1>2, DefaultTickTypes
  <1>4. ASSUME NEW i \in DOMAIN items
        PROVE  Job(items[i], log[i])' = Abstract!Armed(Jobs[i], elapsed)
    <2> DEFINE p == items[i].beats
    <2>1. items[i].alarm = 0 /\ log[i].runs = 0
      BY <1>2 DEF IInv, BeforeInit
    <2>2. i \in Executed(items, 0) <=> p = 0
      BY <2>1 DEF Executed
    <2>3. /\ items'[i].beats = p /\ items'[i].alarm = p
          /\ log'[i].runs = IF p = 0 THEN 1 ELSE 0
      BY <1>1, <1>2, <2>1, <2>2, DefaultTickItem
    <2>4. p \in Nat
      BY <1>1, ItemTypes
    <2> HIDE DEF p
    <2>5. Job(items[i], log[i])'
            = [period |-> p, due |-> p, runs |-> 0]
      BY <1>2, <2>3, <2>4 DEF Job
    <2>6. Jobs[i] = [period |-> p, due |-> 0, runs |-> 0]
      BY <2>1 DEF Jobs, Job, p
    <2>7. Abstract!Armed(Jobs[i], elapsed)
            = [period |-> p, due |-> IF p = 0 THEN 0 ELSE p, runs |-> 0]
      BY <1>2, <2>4, <2>6 DEF Abstract!Armed
    <2> QED
      BY <2>5, <2>7
  <1>5. Jobs' = [i \in DOMAIN Jobs |-> Abstract!Armed(Jobs[i], elapsed)]
    <2>1. DOMAIN Jobs = DOMAIN items
      BY DEF Jobs
    <2>2. Jobs' = [i \in DOMAIN items |-> Job(items[i], log[i])']
      BY <1>3 DEF Jobs
    <2> QED
      BY <1>4, <2>1, <2>2
  <1> QED
    BY <1>2, <1>5 DEF Abstract!Start

(* An iteration of the loop is a beat: alarm 1 is the deadline.            *)
LEMMA LoopTickIsBeat ==
  ASSUME IInv, LoopTick
  PROVE  Abstract!Elapse
  <1>1. TypeOK
    BY DEF IInv
  <1>2. /\ initDone /\ initDone' = initDone /\ elapsed' = elapsed + 1
        /\ elapsed \in Nat /\ DefaultTick(tick')
    BY <1>1 DEF IInv, LoopTick, BeforeInit, TypeOK
  <1>3. DOMAIN items' = DOMAIN items
    BY <1>1, <1>2, DefaultTickTypes
  <1>4. ASSUME NEW i \in DOMAIN items
        PROVE  Job(items[i], log[i])' = Abstract!AtBeat(Jobs[i], elapsed + 1)
    <2> DEFINE p == items[i].beats
               a == items[i].alarm
               r == log[i].runs
    <2>1. p \in Nat /\ a \in Nat /\ r \in Nat /\ a <= p
      BY <1>1, ItemTypes DEF Item
    <2>2. p # 0 => (i \in Executed(items, tick') <=> a = 1)
      BY DEF Executed
    <2>3. /\ items'[i].beats = p
          /\ items'[i].alarm = IF a > 1 THEN a - 1 ELSE p
          /\ p # 0 => log'[i].runs = IF a = 1 THEN r + 1 ELSE r
      BY <1>1, <1>2, <2>2, DefaultTickItem
    <2>4. a = 0 /\ p # 0 => r = 0
      BY <1>2, <2>1 DEF IInv, OnSchedule
    <2>5. Jobs[i] = [period |-> p,
                     due |-> IF a = 0 THEN 0 ELSE elapsed + a,
                     runs |-> IF p = 0 THEN 0 ELSE r]
      BY DEF Jobs, Job
    <2> HIDE DEF p, a, r
    <2>6. Job(items[i], log[i])'
            = [period |-> p,
               due |-> IF p = 0 THEN 0
                       ELSE elapsed + 1 + (IF a > 1 THEN a - 1 ELSE p),
               runs |-> IF p = 0 THEN 0 ELSE IF a = 1 THEN r + 1 ELSE r]
      BY <1>2, <2>1, <2>3 DEF Job
    <2>7. CASE p = 0
      BY <1>2, <2>1, <2>5, <2>6, <2>7 DEF Abstract!AtBeat, Abstract!Armed
    <2>8. CASE p # 0 /\ a = 0
      BY <1>2, <2>1, <2>4, <2>5, <2>6, <2>8 DEF Abstract!AtBeat, Abstract!Armed
    <2>9. CASE p # 0 /\ a = 1
      <3>1. Jobs[i] = [period |-> p, due |-> elapsed + 1, runs |-> r]
        BY <2>5, <2>9
      <3>2. Abstract!Armed(Jobs[i], elapsed + 1)
              = [period |-> p, due |-> elapsed + 1 + p, runs |-> r]
        BY <2>9, <3>1 DEF Abstract!Armed
      <3>3. Abstract!AtBeat(Jobs[i], elapsed + 1)
              = [Abstract!Armed(Jobs[i], elapsed + 1) EXCEPT !.runs = r + 1]
        BY <1>2, <3>1 DEF Abstract!AtBeat
      <3>4. Abstract!AtBeat(Jobs[i], elapsed + 1)
              = [period |-> p, due |-> elapsed + 1 + p, runs |-> r + 1]
        BY <3>2, <3>3
      <3> QED
        BY <1>2, <2>1, <2>6, <2>9, <3>4
    <2>10. CASE p # 0 /\ a > 1
      BY <1>2, <2>1, <2>5, <2>6, <2>10 DEF Abstract!AtBeat, Abstract!Armed
    <2> QED
      BY <2>1, <2>7, <2>8, <2>9, <2>10
  <1>5. Jobs' = [i \in DOMAIN Jobs |-> Abstract!AtBeat(Jobs[i], elapsed + 1)]
    <2>1. DOMAIN Jobs = DOMAIN items
      BY DEF Jobs
    <2>2. Jobs' = [i \in DOMAIN items |-> Job(items[i], log[i])']
      BY <1>3 DEF Jobs
    <2> QED
      BY <1>4, <2>1, <2>2
  <1> QED
    BY <1>2, <1>5 DEF Abstract!Elapse

(* Every step of the schedule is a step of its deadlines or none.          *)
LEMMA StepIsDeadlineStep ==
  ASSUME IInv, [Next]_vars
  PROVE  [Abstract!Next]_(Abstract!vars)
  <1>1. TypeOK
    BY DEF IInv
  <1>2. ASSUME UNCHANGED <<items, log, elapsed, initDone>>
        PROVE  UNCHANGED Abstract!vars
    BY <1>2 DEF Abstract!vars, Jobs, Job
  <1>3. ASSUME NEW b \in Periods, ScheduleAdd(b) PROVE Abstract!Next
    BY <1>1, <1>3, AddIsJoin DEF Abstract!Next
  <1>4. CASE ScheduleDestroy
    <2>1. Jobs' = <<>>
      BY <1>4 DEF ScheduleDestroy, Jobs
    <2> QED
      BY <1>4, <2>1 DEF ScheduleDestroy, Abstract!Clear, Abstract!Next
  <1>5. ASSUME NEW d \in Delays, SetDelay(d) PROVE UNCHANGED Abstract!vars
    BY <1>2, <1>5 DEF SetDelay
  <1>6. ASSUME NEW d \in Steps, ScheduleTick(d) PROVE UNCHANGED Abstract!vars
    BY <1>2, <1>6 DEF ScheduleTick
  <1>7. CASE InitTick
    BY <1>7, InitTickIsStart DEF Abstract!Next
  <1>8. CASE LoopTick
    BY <1>8, LoopTickIsBeat DEF Abstract!Next
  <1>9. CASE UNCHANGED vars
    BY <1>2, <1>9 DEF vars
  <1> QED
    BY <1>3, <1>4, <1>5, <1>6, <1>7, <1>8, <1>9 DEF Next

(* The schedule implements the deadlines it stands for.                    *)
THEOREM ScheduleRefines == Spec => ImplementsDeadlines
  <1>1. Init => Abstract!Init
    <2>1. Init => Jobs = <<>>
      BY DEF Init, Jobs
    <2> QED
      BY <2>1 DEF Init, Abstract!Init
  <1>2. IInv /\ [Next]_vars => [Abstract!Next]_(Abstract!vars)
    BY StepIsDeadlineStep
  <1> QED
    BY <1>1, <1>2, Invariance, PTL DEF Spec, ImplementsDeadlines, Abstract!Spec

=============================================================================
