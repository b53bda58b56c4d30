---------------------------- MODULE SystemProofs ----------------------------
(***************************************************************************)
(* What the library gets from the operating system, processes and files,   *)
(* and what a caller gets from it for the texts in them.                   *)
(*                                                                         *)
(* Process, for every list of descriptors, every set of pids and every     *)
(* exit code.                                                              *)
(*                                                                         *)
(* Csv, for every set of files, every size of the line buffer and any      *)
(* number of calls.  The argument: the reader is behind k of the lines,    *)
(* and has answered as often as there are rows among these; so the next    *)
(* row is the next that a call has to answer.                              *)
(*                                                                         *)
(* YamlValues, for every set of texts, whatever they read as and expand    *)
(* to, and every width of an int.                                          *)
(*                                                                         *)
(* FileIndex, for every set of files, kinds, names, labels and specs and   *)
(* any number of calls.  The argument: what Add has put into the index for *)
(* a file that was added once is pointed at by the places of that file, in *)
(* their order, and nothing else in the index is of that file; so a change *)
(* that the caller makes to what it found reaches the one document that    *)
(* the file is saved with.                                                 *)
(*                                                                         *)
(* Ascii85, for every sequence of bytes and every two bases that stand to  *)
(* each other as the code's do.  The argument: the digits that were cut    *)
(* off are filled up with the highest, which makes the word larger by less *)
(* than the bytes that were missing could, and so leaves the others.       *)
(*                                                                         *)
(* Mdf, for every list of groups.  The argument: the offset at which each  *)
(* block is to be is a sum of the sizes before it, and these depend on the *)
(* groups alone; the file holds the blocks of the groups before cg and as  *)
(* many channels of this as the loop has passed, each at its place, and    *)
(* the next will be written at the next of these.  What is there is found  *)
(* by its place, so a chain of links leads through the list it was made    *)
(* from; and records of equal lengths are ends to cut the data at.         *)
(***************************************************************************)
EXTENDS Process, Csv, YamlValues, FileIndex, Ascii85, Mdf, Induction, SequenceTheorems,
        FiniteSetTheorems

Slot == {Free} \cup [state : {"run", "zombie"},
                     desc : Descs \cup {Foreign},
                     status : Endings \cup {0}]
Table == [Pids -> Slot]

(* waitfor_all has left no pid behind it.                                  *)
Behind == call = "waitAll" => \A d \in 1..at - 1 : pid[d] = NoPid

IInv ==
  /\ TypeOK
  /\ Behind
  /\ PidsAreChildren
  /\ ChildrenAreKnown

(* No descriptor is the foreign one, and the fields of a slot.             *)
LEMMA SlotFields ==
  /\ Foreign \notin Descs
  /\ Free.desc = Foreign
  /\ \A d \in Descs : Running(d).desc = d
  /\ \A x \in Slot : /\ x.desc \in Descs \cup {Foreign}
                     /\ x.status \in Endings \cup {0}
                     /\ x.desc \in Descs => x.state \in {"run", "zombie"}
  <1>1. Foreign \notin Descs
    BY LastDescAssumption DEF Foreign, Descs
  <1> QED
    BY <1>1 DEF Free, Slot, Running

(* What a process may become.                                              *)
LEMMA TableTypes ==
  /\ Free \in Slot
  /\ \A d \in Descs \cup {Foreign} : Running(d) \in Slot
  /\ table \in Table => \A p \in Pids, how \in Endings :
       Ended(p, how) \in Slot /\ Ended(p, how).desc = table[p].desc
  <1>1. Free \in Slot /\ \A d \in Descs \cup {Foreign} : Running(d) \in Slot
    BY DEF Free, Slot, Running
  <1>2. ASSUME table \in Table, NEW p \in Pids, NEW how \in Endings
        PROVE  Ended(p, how) \in Slot /\ Ended(p, how).desc = table[p].desc
    <2>1. table[p] \in Slot
      BY <1>2 DEF Table
    <2>2. table[p].desc \in Descs \cup {Foreign}
      BY <2>1, SlotFields
    <2> QED
      BY <2>2 DEF Ended, Slot
  <1> QED
    BY <1>1, <1>2

(* What the waits may return.                                              *)
LEMMA StatusTypes ==
  /\ NoStatus = 0
  /\ Killed \in Endings
  /\ \A how \in Endings \cup {0} : StatusCheck(how) \in Codes \cup {0, 4, ExecFailure}
  BY CodesAssumption DEF NoStatus, StatusCheck, Killed, Endings, ExecFailure

(* Nothing has been started.                                               *)
LEMMA InitHolds == Init => IInv
  <1> SUFFICES ASSUME Init PROVE IInv
    OBVIOUS
  <1>1. TypeOK
    <2>1. at \in 1..LastDesc
      BY LastDescAssumption DEF Init
    <2> QED
      BY <2>1, TableTypes, SlotFields DEF Init, TypeOK, Calls, Table, Slot
  <1>2. \A p \in Pids : ~Ours(p)
    BY TableTypes, SlotFields DEF Init, Ours
  <1> QED
    BY <1>1, <1>2 DEF IInv, Behind, Init, PidsAreChildren, ChildrenAreKnown

(* A step that leaves descriptors and their children alone.                *)
LEMMA SameChildren ==
  ASSUME IInv, UNCHANGED <<pid, result, events>>, table' \in Table,
         \A p \in Pids :
           table'[p].desc = table[p].desc \/ (~Ours(p) /\ table'[p].desc = Foreign),
         at' \in 1..LastDesc, call' \in Calls, Behind'
  PROVE  IInv'
  <1>1. TypeOK'
    BY DEF IInv, TypeOK, Table, Slot
  <1>2. PidsAreChildren'
    <2>1. \A d \in Descs : pid[d] \in Pids \cup {NoPid}
      BY DEF IInv, TypeOK
    <2> QED
      BY <2>1 DEF IInv, PidsAreChildren, Ours
  <1>3. ChildrenAreKnown'
    BY TableTypes, SlotFields DEF IInv, ChildrenAreKnown, Ours
  <1> QED
    BY <1>1, <1>2, <1>3 DEF IInv

(* A fork gives its descriptor a child, and takes no other's.              *)
LEMMA ForkKeeps ==
  ASSUME IInv, NEW d \in Descs, NEW p \in Pids, Fork(d, p), result' = result,
         at' \in 1..LastDesc, call' \in Calls,
         call' = "waitAll" => FALSE
  PROVE  IInv'
  <1>1. /\ table[p] = Free /\ table' = [table EXCEPT ![p] = Running(d)]
        /\ pid' = [pid EXCEPT ![d] = p]
        /\ events' = events \/ events' = events \cup {"restart"}
        /\ (\E q \in Pids : table[q].desc = d) => "restart" \in events'
    BY DEF Fork
  <1>2. /\ table \in Table /\ pid \in [Descs -> Pids \cup {NoPid}]
        /\ result \in Codes \cup {0, 4, ExecFailure}
        /\ events \subseteq {"restart", "interrupt", "any"}
    BY DEF IInv, TypeOK, Table, Slot
  <1>3. TypeOK'
    <2>1. table' \in Table /\ pid' \in [Descs -> Pids \cup {NoPid}]
      BY <1>1, <1>2, TableTypes, SlotFields DEF Table
    <2> QED
      BY <1>1, <1>2, <2>1 DEF TypeOK, Table, Slot
  <1>4. PidsAreChildren'
    <2> SUFFICES ASSUME "any" \notin events', NEW e \in Descs, pid'[e] # NoPid
                 PROVE  table'[pid'[e]].desc = e
      BY DEF PidsAreChildren
    <2>1. CASE e = d
      BY <1>1, <1>2, <2>1, TableTypes, SlotFields DEF Table
    <2>2. CASE e # d
      <3>1. pid'[e] = pid[e] /\ pid[e] \in Pids /\ table[pid[e]].desc = e
        BY <1>1, <1>2, <2>2 DEF IInv, PidsAreChildren
      <3>2. pid[e] # p
        BY <1>1, <3>1, TableTypes, SlotFields
      <3> QED
        BY <1>1, <1>2, <3>1, <3>2 DEF Table
    <2> QED
      BY <2>1, <2>2
  <1>5. ChildrenAreKnown'
    <2> SUFFICES ASSUME events' \subseteq {"any"}, NEW q \in Pids,
                        table'[q].desc \in Descs
                 PROVE  pid'[table'[q].desc] = q
      BY DEF ChildrenAreKnown, Ours
    <2>1. events \subseteq {"any"} /\ \A r \in Pids : table[r].desc # d
      BY <1>1
    <2>2. CASE q = p
      BY <1>1, <1>2, <2>2, TableTypes, SlotFields DEF Table
    <2>3. CASE q # p
      <3>1. table'[q] = table[q] /\ pid[table[q].desc] = q
        BY <1>1, <1>2, <2>1, <2>3 DEF IInv, ChildrenAreKnown, Ours, Table
      <3> QED
        BY <1>1, <1>2, <2>1, <3>1
    <2> QED
      BY <2>2, <2>3
  <1> QED
    BY <1>3, <1>4, <1>5 DEF IInv, Behind

(* A wait goes on to the next descriptor, or returns.                      *)
LEMMA WaitGoesOn ==
  ASSUME TypeOK, Behind, Waiting, WaitProceeds,
         \A d \in Descs : d # at => pid'[d] = pid[d], pid'[at] = NoPid
  PROVE  /\ at' \in 1..LastDesc /\ call' \in Calls
         /\ Behind'
         /\ call = "waitAll" /\ call' = "idle" => \A d \in Descs : pid'[d] = NoPid
  <1>1. at \in 1..LastDesc /\ LastDesc \in Nat \ {0}
    BY LastDescAssumption DEF TypeOK
  <1>2. CASE call = "waitAll"
    <2>1. /\ at' = IF at < LastDesc THEN at + 1 ELSE 1
          /\ call' = IF at < LastDesc THEN call ELSE "idle"
      BY <1>2 DEF WaitProceeds, Proceed
    <2>2. \A d \in 1..at - 1 : pid[d] = NoPid /\ d \in Descs /\ d # at
      BY <1>1, <1>2 DEF Behind, Descs
    <2>3. \A d \in 1..at : pid'[d] = NoPid
      BY <1>1, <2>2
    <2> QED
      BY <1>1, <1>2, <2>1, <2>3 DEF Behind, Descs, Calls
  <1>3. CASE call = "wait"
    <2>1. at' = 1 /\ call' = "idle"
      BY <1>3 DEF WaitProceeds
    <2> QED
      BY <1>1, <1>3, <2>1 DEF Behind, Calls
  <1> QED
    BY <1>2, <1>3 DEF Waiting

(* A child is reaped by a wait for the descriptor that holds its pid.      *)
LEMMA ReapKeeps ==
  ASSUME IInv, WaitReaps
  PROVE  /\ IInv'
         /\ call = "waitAll" /\ call' = "idle" => \A d \in Descs : pid'[d] = NoPid
  <1> DEFINE p == pid[at]
  <1>1. /\ Waiting /\ p # NoPid /\ Ours(p)
        /\ result' = StatusCheck(table[p].status)
        /\ table' = [table EXCEPT ![p] = Free]
        /\ pid' = [pid EXCEPT ![at] = NoPid]
        /\ WaitProceeds /\ events' = events
    BY DEF WaitReaps
  <1>2. /\ TypeOK /\ Behind /\ table \in Table
        /\ pid \in [Descs -> Pids \cup {NoPid}] /\ at \in Descs
        /\ events \subseteq {"restart", "interrupt", "any"}
    BY DEF IInv, TypeOK, Table, Slot, Descs
  <1>3. p \in Pids
    BY <1>1, <1>2
  <1>4. /\ at' \in 1..LastDesc /\ call' \in Calls /\ Behind'
        /\ call = "waitAll" /\ call' = "idle" => \A d \in Descs : pid'[d] = NoPid
    BY <1>1, <1>2, WaitGoesOn
  <1>5. TypeOK'
    <2>1. table' \in Table /\ pid' \in [Descs -> Pids \cup {NoPid}]
      BY <1>1, <1>2, <1>3, TableTypes, SlotFields DEF Table
    <2>2. table[p].status \in Endings \cup {0}
      BY <1>2, <1>3, TableTypes, SlotFields DEF Table
    <2> QED
      BY <1>1, <1>2, <1>4, <2>1, <2>2, StatusTypes DEF TypeOK, Table, Slot
  <1>6. PidsAreChildren'
    <2> SUFFICES ASSUME "any" \notin events, NEW d \in Descs, pid'[d] # NoPid
                 PROVE  table'[pid'[d]].desc = d
      BY <1>1 DEF PidsAreChildren
    <2>1. d # at /\ pid'[d] = pid[d] /\ pid[d] \in Pids /\ table[pid[d]].desc = d
      BY <1>1, <1>2 DEF IInv, PidsAreChildren
    <2>2. table[p].desc = at
      BY <1>1, <1>2 DEF IInv, PidsAreChildren
    <2>3. pid[d] # p
      BY <2>1, <2>2
    <2> QED
      BY <1>1, <1>2, <2>1, <2>3 DEF Table
  <1>7. ChildrenAreKnown'
    <2> SUFFICES ASSUME events \subseteq {"any"}, NEW q \in Pids,
                        table'[q].desc \in Descs
                 PROVE  pid'[table'[q].desc] = q
      BY <1>1 DEF ChildrenAreKnown, Ours
    <2>1. q # p
      BY <1>1, <1>2, <1>3, TableTypes, SlotFields DEF Table
    <2>2. table'[q] = table[q] /\ pid[table[q].desc] = q
      BY <1>1, <1>2, <2>1 DEF IInv, ChildrenAreKnown, Ours, Table
    <2>3. table[q].desc # at
      BY <2>1, <2>2
    <2> QED
      BY <1>1, <1>2, <2>2, <2>3
  <1> QED
    BY <1>4, <1>5, <1>6, <1>7 DEF IInv

(* A wait that fails: the pid is no child's, or the child is lost.         *)
LEMMA FailKeeps ==
  ASSUME IInv, WaitFails
  PROVE  /\ IInv'
         /\ call = "waitAll" /\ call' = "idle" => \A d \in Descs : pid'[d] = NoPid
  <1>1. /\ Waiting /\ pid[at] # NoPid
        /\ events' = events \/ events' = events \cup {"interrupt"}
        /\ Ours(pid[at]) => "interrupt" \in events'
        /\ result' = NoStatus /\ pid' = [pid EXCEPT ![at] = NoPid]
        /\ WaitProceeds /\ table' = table
    BY DEF WaitFails
  <1>2. /\ TypeOK /\ Behind /\ table \in Table
        /\ pid \in [Descs -> Pids \cup {NoPid}] /\ at \in Descs
        /\ events \subseteq {"restart", "interrupt", "any"}
    BY DEF IInv, TypeOK, Table, Slot, Descs
  <1>3. /\ at' \in 1..LastDesc /\ call' \in Calls /\ Behind'
        /\ call = "waitAll" /\ call' = "idle" => \A d \in Descs : pid'[d] = NoPid
    BY <1>1, <1>2, WaitGoesOn
  <1>4. TypeOK'
    <2>1. pid' \in [Descs -> Pids \cup {NoPid}]
      BY <1>1, <1>2
    <2>2. result' \in Codes \cup {0, 4, ExecFailure}
      BY <1>1, StatusTypes
    <2> QED
      BY <1>1, <1>2, <1>3, <2>1, <2>2 DEF TypeOK, Table, Slot
  <1>5. PidsAreChildren'
    BY <1>1, <1>2 DEF IInv, PidsAreChildren
  <1>6. ChildrenAreKnown'
    <2> SUFFICES ASSUME events' \subseteq {"any"}, NEW q \in Pids,
                        table[q].desc \in Descs
                 PROVE  pid'[table[q].desc] = q
      BY <1>1 DEF ChildrenAreKnown, Ours
    <2>1. pid[table[q].desc] = q /\ ~Ours(pid[at])
      BY <1>1 DEF IInv, ChildrenAreKnown, Ours
    <2>2. table[q].desc # at
      BY <2>1 DEF Ours
    <2> QED
      BY <1>1, <1>2, <2>1, <2>2
  <1> QED
    BY <1>3, <1>4, <1>5, <1>6 DEF IInv

(* Every step keeps the children with their descriptors.                   *)
LEMMA NextHolds == IInv /\ [Next]_vars => IInv'
  <1> SUFFICES ASSUME IInv, [Next]_vars PROVE IInv'
    OBVIOUS
  <1>1. /\ TypeOK /\ Behind /\ table \in Table
        /\ pid \in [Descs -> Pids \cup {NoPid}] /\ at \in 1..LastDesc
        /\ result \in Codes \cup {0, 4, ExecFailure} /\ call \in Calls
        /\ events \subseteq {"restart", "interrupt", "any"}
        /\ 1 \in 1..LastDesc /\ LastDesc \in Nat
    BY LastDescAssumption DEF IInv, TypeOK, Table, Slot
  <1>2. ASSUME NEW p \in Pids, NEW how \in Endings, ChildEnds(p, how)
        PROVE  IInv'
    <2>1. table' = [table EXCEPT ![p] = Ended(p, how)]
          /\ UNCHANGED <<pid, call, at, result, events>>
      BY <1>2 DEF ChildEnds
    <2>2. table' \in Table /\ \A q \in Pids : table'[q].desc = table[q].desc
      BY <1>1, <2>1, TableTypes, SlotFields DEF Table
    <2> QED
      BY <1>1, <2>1, <2>2, SameChildren DEF Behind
  <1>3. ASSUME NEW p \in Pids, OtherStarts(p) \/ OtherEnds(p)
        PROVE  IInv'
    <2>1. /\ table' = [table EXCEPT ![p] = Running(Foreign)]
             \/ table' = [table EXCEPT ![p] = Free]
          /\ ~Ours(p) /\ UNCHANGED <<pid, call, at, result, events>>
      BY <1>3, TableTypes, SlotFields DEF OtherStarts, OtherEnds, Ours
    <2>2. table' \in Table
      BY <1>1, <2>1, TableTypes, SlotFields DEF Table
    <2>3. \A q \in Pids : table'[q].desc = table[q].desc
                             \/ (~Ours(q) /\ table'[q].desc = Foreign)
      <3>1. Running(Foreign).desc = Foreign /\ Free.desc = Foreign
        BY DEF Running, Free
      <3> QED
        BY <1>1, <2>1, <3>1 DEF Table
    <2> QED
      BY <1>1, <2>1, <2>2, <2>3, SameChildren DEF Behind
  <1>4. ASSUME NEW name \in {"startAll", "signalAll", "waitAll", "waitAny", "wait"},
               NEW d \in 1..LastDesc, Begin(name, d), name = "waitAll" => d = 1
        PROVE  IInv'
    <2>1. /\ call' = name /\ at' = d /\ result' = NoStatus
          /\ UNCHANGED <<pid, table, events>>
      BY <1>4 DEF Begin
    <2>2. TypeOK'
      BY <1>1, <2>1, StatusTypes DEF TypeOK, Table, Slot, Calls
    <2>3. Behind'
      BY <1>4, <2>1 DEF Behind
    <2> QED
      BY <2>1, <2>2, <2>3 DEF IInv, PidsAreChildren, ChildrenAreKnown, Ours
  <1>5. ASSUME Proceed
        PROVE  at' \in 1..LastDesc /\ (call' = call \/ call' = "idle")
    BY <1>1, <1>5 DEF Proceed
  <1>6. CASE StartStep \/ \E d \in Descs : StartProcess(d)
    <2>1. PICK d \in Descs, p \in Pids :
            /\ Fork(d, p) /\ result' = result /\ at' \in 1..LastDesc
            /\ call \in {"idle", "startAll"} /\ call' \in {call, "idle"}
      <3>1. CASE StartStep
        BY <1>1, <1>5, <3>1 DEF StartStep, Descs
      <3>2. CASE \E d \in Descs : StartProcess(d)
        BY <1>1, <3>2 DEF StartProcess
      <3> QED
        BY <1>6, <3>1, <3>2
    <2>2. call' \in Calls /\ call' # "waitAll"
      BY <2>1 DEF Calls
    <2> QED
      BY <2>1, <2>2, ForkKeeps
  <1>7. CASE ForkFails
    <2>1. call' = "exited" /\ UNCHANGED <<pid, table, at, result, events>>
      BY <1>7 DEF ForkFails
    <2> QED
      BY <1>1, <2>1, SameChildren DEF Behind, Calls
  <1>8. CASE SignalProcess
    <2>1. /\ pid[at] # NoPid
          /\ \/ table' = table
             \/ table' = [table EXCEPT ![pid[at]] =
                            IF Ours(pid[at]) THEN Ended(pid[at], Killed) ELSE Free]
          /\ Proceed /\ call = "signalAll" /\ UNCHANGED <<pid, result, events>>
      BY <1>8 DEF SignalProcess
    <2>2. pid[at] \in Pids
      BY <1>1, <2>1 DEF Descs
    <2>3. table' \in Table
      BY <1>1, <2>1, <2>2, TableTypes, SlotFields, StatusTypes DEF Table
    <2>4. \A q \in Pids : table'[q].desc = table[q].desc
                             \/ (~Ours(q) /\ table'[q].desc = Foreign)
      BY <1>1, <2>1, <2>2, TableTypes, SlotFields, StatusTypes DEF Table
    <2>5. call' # "waitAll" /\ call' \in Calls /\ at' \in 1..LastDesc
      BY <1>5, <2>1 DEF Calls
    <2> QED
      BY <2>1, <2>3, <2>4, <2>5, SameChildren DEF Behind
  <1>9. CASE SignalGroup
    <2>1. PICK hit \in SUBSET Pids :
            table' = [p \in Pids |-> IF p \in hit THEN Ended(p, Killed) ELSE table[p]]
      BY <1>9 DEF SignalGroup
    <2>2. /\ Proceed \/ (call' = "exited" /\ UNCHANGED at)
          /\ call = "signalAll" /\ UNCHANGED <<pid, result, events>>
      BY <1>9 DEF SignalGroup
    <2>3. table' \in Table /\ \A q \in Pids : table'[q].desc = table[q].desc
      <3>1. \A q \in Pids : table[q] \in Slot
        BY <1>1 DEF Table
      <3> QED
        BY <1>1, <2>1, <3>1, TableTypes, SlotFields, StatusTypes DEF Table
    <2>4. call' # "waitAll" /\ call' \in Calls /\ at' \in 1..LastDesc
      BY <1>1, <1>5, <2>2 DEF Calls
    <2> QED
      BY <2>2, <2>3, <2>4, SameChildren DEF Behind
  <1>10. CASE WaitNothing
    <2>1. /\ Waiting /\ pid[at] = NoPid /\ result' = 0 /\ WaitProceeds
          /\ UNCHANGED <<pid, table, events>>
      BY <1>10 DEF WaitNothing
    <2>2. at' \in 1..LastDesc /\ call' \in Calls /\ Behind'
      BY <1>1, <2>1, WaitGoesOn
    <2>3. TypeOK'
      BY <1>1, <2>1, <2>2 DEF TypeOK, Table, Slot
    <2> QED
      BY <2>1, <2>2, <2>3 DEF IInv, PidsAreChildren, ChildrenAreKnown, Ours
  <1>11. CASE WaitReaps \/ WaitFails
    BY <1>11, ReapKeeps, FailKeeps
  <1>12. ASSUME NEW p \in Pids, WaitAnyReaps(p)
         PROVE  IInv'
    <2>1. /\ result' = StatusCheck(table[p].status)
          /\ table' = [table EXCEPT ![p] = Free]
          /\ events' = events \cup {"any"} /\ call' = "idle"
          /\ UNCHANGED <<pid, at>>
      BY <1>12 DEF WaitAnyReaps
    <2>2. TypeOK'
      <3>1. table' \in Table
        BY <1>1, <2>1, TableTypes, SlotFields DEF Table
      <3>2. table[p].status \in Endings \cup {0}
        BY <1>1, TableTypes, SlotFields DEF Table
      <3>3. result' \in Codes \cup {0, 4, ExecFailure}
        BY <2>1, <3>2, StatusTypes
      <3> QED
        BY <1>1, <2>1, <3>1, <3>3 DEF TypeOK, Table, Slot, Calls
    <2>3. ChildrenAreKnown'
      <3> SUFFICES ASSUME events \subseteq {"any"}, NEW q \in Pids,
                          table'[q].desc \in Descs
                   PROVE  pid[table'[q].desc] = q
        BY <2>1 DEF ChildrenAreKnown, Ours
      <3>1. q # p /\ table'[q] = table[q]
        BY <1>1, <2>1, TableTypes, SlotFields DEF Table
      <3> QED
        BY <3>1 DEF IInv, ChildrenAreKnown, Ours
    <2> QED
      BY <2>1, <2>2, <2>3 DEF IInv, Behind, PidsAreChildren
  <1>13. CASE WaitAnyFails
    <2>1. /\ result' = NoStatus /\ call' = "idle"
          /\ UNCHANGED <<pid, table, at, events>>
      BY <1>13 DEF WaitAnyFails
    <2>2. TypeOK'
      BY <1>1, <2>1, StatusTypes DEF TypeOK, Table, Slot, Calls
    <2> QED
      BY <2>1, <2>2 DEF IInv, Behind, PidsAreChildren, ChildrenAreKnown, Ours
  <1>14. CASE UNCHANGED vars
    BY <1>14 DEF vars, IInv, TypeOK, Behind, PidsAreChildren, ChildrenAreKnown, Ours
  <1>15. ASSUME NEW d \in Descs, Begin("wait", d)
         PROVE  IInv'
    BY <1>4, <1>15 DEF Descs
  <1>16. ASSUME NEW name \in {"startAll", "signalAll", "waitAll", "waitAny"},
                Begin(name, 1)
         PROVE  IInv'
    BY <1>1, <1>4, <1>16
  <1> QED
    BY <1>2, <1>3, <1>6, <1>7, <1>8, <1>9, <1>10, <1>11, <1>12, <1>13, <1>14,
       <1>15, <1>16 DEF Next

-----------------------------------------------------------------------------
(* process.c keeps its types: no loop leaves its list and every status     *)
(* returned is an exit code, 0 or 4.                                       *)
THEOREM ProcessTypes == Spec => []TypeOK
  <1>1. IInv => TypeOK
    BY DEF IInv
  <1> QED
    BY <1>1, InitHolds, NextHolds, PTL DEF Spec

(* However pids are reused, no descriptor holds the pid of a process that  *)
(* is not its child, unless dse_process_waitfor_any_process was used.      *)
THEOREM PidsStayChildren == Spec => []PidsAreChildren
  <1>1. IInv => PidsAreChildren
    BY DEF IInv
  <1> QED
    BY <1>1, InitHolds, NextHolds, PTL DEF Spec

(* No child is ever out of reach of dse_process_waitfor_all_processes.     *)
THEOREM ChildrenStayKnown == Spec => []ChildrenAreKnown
  <1>1. IInv => ChildrenAreKnown
    BY DEF IInv
  <1> QED
    BY <1>1, InitHolds, NextHolds, PTL DEF Spec

(* When dse_process_waitfor_all_processes returns it has reaped them all.  *)
THEOREM WaitAllReapsAll == Spec => WaitAllReaps
  <1>1. IInv /\ [Next]_vars =>
          [(call = "waitAll" /\ call' = "idle" /\ events' \subseteq {"any"}) =>
             \A p \in Pids : ~Ours(p)']_vars
    <2> SUFFICES ASSUME IInv, Next, call = "waitAll", call' = "idle",
                        events' \subseteq {"any"}
                 PROVE  \A p \in Pids : ~Ours(p)'
      OBVIOUS
    <2>1. IInv'
      BY NextHolds
    <2>2. WaitNothing \/ WaitReaps \/ WaitFails
      BY DEF Next, ChildEnds, OtherStarts, OtherEnds, Begin, StartProcess, StartStep,
             ForkFails, SignalProcess, SignalGroup, WaitAnyReaps, WaitAnyFails
    <2>3. \A d \in Descs : pid'[d] = NoPid
      <3>1. CASE WaitNothing
        <4>1. TypeOK /\ Behind /\ pid' = pid /\ pid[at] = NoPid /\ Waiting /\ WaitProceeds
          BY <3>1 DEF WaitNothing, IInv
        <4> QED
          BY <4>1, WaitGoesOn
      <3>2. CASE WaitReaps \/ WaitFails
        BY <3>2, ReapKeeps, FailKeeps
      <3> QED
        BY <2>2, <3>1, <3>2
    <2> QED
      BY <2>1, <2>3, NoPidAssumption DEF IInv, ChildrenAreKnown, Ours
  <1> QED
    BY <1>1, InitHolds, NextHolds, PTL DEF Spec, WaitAllReaps

(* A wait for one descriptor returns the status of that descriptor's       *)
(* child, though other children end and pids are reused meanwhile.         *)
THEOREM WaitReturnsOwnStatus == Spec => OwnStatus
  <1>1. IInv /\ [Next]_vars =>
          [(call = "wait" /\ call' = "idle" /\ pid[at] # NoPid
              /\ events' \subseteq {"restart"}) =>
             LET child == table[pid[at]] IN
             /\ child.state = "zombie" /\ child.desc = at
             /\ child.status = Killed => result' = 4
             /\ child.status # Killed => result' = child.status]_vars
    <2> SUFFICES ASSUME IInv, Next, call = "wait", call' = "idle", pid[at] # NoPid,
                        events' \subseteq {"restart"}
                 PROVE  LET child == table[pid[at]] IN
                        /\ child.state = "zombie" /\ child.desc = at
                        /\ child.status = Killed => result' = 4
                        /\ child.status # Killed => result' = child.status
      OBVIOUS
    <2>1. WaitReaps \/ WaitFails
      BY DEF Next, ChildEnds, OtherStarts, OtherEnds, Begin, StartProcess, StartStep,
             ForkFails, SignalProcess, SignalGroup, WaitAnyReaps, WaitAnyFails,
             WaitNothing
    <2>2. events \subseteq {"restart"}
      BY <2>1 DEF WaitReaps, WaitFails
    <2>3. /\ pid[at] \in Pids /\ at \in Descs /\ table[pid[at]].desc = at
      BY <2>2 DEF IInv, TypeOK, Descs, PidsAreChildren
    <2>4. Ours(pid[at]) /\ table[pid[at]].state \in {"run", "zombie"}
      <3>1. table[pid[at]] \in Slot
        BY <2>3 DEF IInv, TypeOK, Slot
      <3> QED
        BY <2>3, <3>1, TableTypes, SlotFields DEF Ours
    <2>5. WaitReaps
      BY <2>1, <2>4 DEF WaitFails
    <2> QED
      BY <2>3, <2>4, <2>5 DEF WaitReaps, IsRunning, StatusCheck
  <1> QED
    BY <1>1, InitHolds, NextHolds, PTL DEF Spec, OwnStatus

-----------------------------------------------------------------------------
(* The rows of a CSV file.                                                 *)
Line == Seq(Cells)
RowsUpTo(lines, i) == Cardinality({j \in 1..i : ~Blank(lines[j])})

(* The rows up to a line are finitely many.                                *)
LEMMA RowsAreCounted ==
  ASSUME NEW lines \in Seq(Line), NEW i \in 0..Len(lines)
  PROVE  RowsUpTo(lines, i) \in Nat /\ IsFiniteSet({j \in 1..i : ~Blank(lines[j])})
  <1>1. IsFiniteSet(1..i)
    <2>1. 1 \in Int /\ i \in Int
      OBVIOUS
    <2> QED
      BY <2>1, FS_Interval
  <1>2. IsFiniteSet({j \in 1..i : ~Blank(lines[j])})
    BY <1>1, FS_Subset
  <1> QED
    BY <1>2, FS_CardinalityType DEF RowsUpTo

(* There is one row more behind a row, and none between it and the one     *)
(* before.                                                                 *)
LEMMA RowIsCounted ==
  ASSUME NEW lines \in Seq(Line), NEW i \in 0..Len(lines), NEW k \in 1..Len(lines),
         i < k, ~Blank(lines[k])
  PROVE  /\ RowsUpTo(lines, i) + 1 <= RowsUpTo(lines, k)
         /\ (\A j \in i + 1..k - 1 : Blank(lines[j])) =>
              RowsUpTo(lines, k) = RowsUpTo(lines, i) + 1
  <1> DEFINE R(n) == {j \in 1..n : ~Blank(lines[j])}
  <1>1. /\ IsFiniteSet(R(i)) /\ IsFiniteSet(R(k)) /\ Cardinality(R(i)) \in Nat
    <2>1. k \in 0..Len(lines)
      OBVIOUS
    <2>2. IsFiniteSet({j \in 1..i : ~Blank(lines[j])}) /\ RowsUpTo(lines, i) \in Nat
      BY RowsAreCounted
    <2>3. IsFiniteSet({j \in 1..k : ~Blank(lines[j])})
      BY <2>1, RowsAreCounted
    <2> QED
      BY <2>2, <2>3 DEF RowsUpTo
  <1>2. k \notin R(i) /\ R(i) \cup {k} \subseteq R(k)
    <2>1. k \notin 1..i /\ k \in 1..k /\ 1..i \subseteq 1..k
      OBVIOUS
    <2>2. k \notin R(i) /\ k \in R(k)
      BY <2>1
    <2>3. R(i) \subseteq R(k)
      BY <2>1
    <2> HIDE DEF R
    <2> QED
      BY <2>2, <2>3
  <1> HIDE DEF R
  <1>3. Cardinality(R(i) \cup {k}) = Cardinality(R(i)) + 1
    BY <1>1, <1>2, FS_AddElement
  <1>4. Cardinality(R(i) \cup {k}) <= Cardinality(R(k))
    BY <1>1, <1>2, FS_Subset
  <1>5. (\A j \in i + 1..k - 1 : Blank(lines[j])) => R(k) = R(i) \cup {k}
    BY DEF R
  <1> QED
    BY <1>3, <1>4, <1>5 DEF R, RowsUpTo

(* Blank lines do not count, and the count does not fall.                  *)
LEMMA BlanksAreNotCounted ==
  ASSUME NEW lines \in Seq(Line), NEW i \in 0..Len(lines), NEW k \in i..Len(lines),
         \A j \in i + 1..k : Blank(lines[j])
  PROVE  RowsUpTo(lines, k) = RowsUpTo(lines, i)
  <1>1. {j \in 1..k : ~Blank(lines[j])} = {j \in 1..i : ~Blank(lines[j])}
    OBVIOUS
  <1> QED
    BY <1>1 DEF RowsUpTo

LEMMA RowsGrow ==
  ASSUME NEW lines \in Seq(Line), NEW i \in 0..Len(lines), NEW k \in i..Len(lines)
  PROVE  RowsUpTo(lines, i) <= RowsUpTo(lines, k)
  <1>1. {j \in 1..i : ~Blank(lines[j])} \subseteq {j \in 1..k : ~Blank(lines[j])}
    OBVIOUS
  <1>2. k \in 0..Len(lines)
    OBVIOUS
  <1>3. IsFiniteSet({j \in 1..k : ~Blank(lines[j])})
    BY <1>2, RowsAreCounted
  <1> QED
    BY <1>1, <1>3, FS_Subset DEF RowsUpTo

(* What a call reads: blank lines and a row.                               *)
LEMMA CallReadsARow ==
  ASSUME NEW lines \in Seq(Line), ~AtEnd(lines)
  PROVE  \E m \in 1..Len(lines) :
           /\ ~Blank(lines[m]) /\ \A i \in 1..m - 1 : Blank(lines[i])
           /\ Last(UpToRow(lines)) = lines[m]
           /\ Unread(lines) \in Seq(Line) /\ Len(Unread(lines)) = Len(lines) - m
           /\ \A i \in 1..Len(lines) - m : Unread(lines)[i] = lines[m + i]
  <1> DEFINE n == Len(lines)
             rows == {i \in DOMAIN lines : ~Blank(lines[i])}
  <1>1. n \in Nat /\ DOMAIN lines = 1..n /\ \A i \in 1..n : lines[i] \in Line
    BY LenProperties
  <1>2. rows \subseteq Nat /\ rows # {}
    BY <1>1 DEF AtEnd
  <1>3. \E i \in rows : \A j \in rows : i <= j
    BY <1>2, LeastNat
  <1>4. PICK m : m = Min(rows)
    OBVIOUS
  <1>5. m \in rows /\ \A j \in rows : m <= j
    BY <1>3, <1>4 DEF Min
  <1>6. m \in 1..n /\ ~Blank(lines[m]) /\ \A i \in 1..m - 1 : Blank(lines[i])
    BY <1>1, <1>5
  <1>7. UpToRow(lines) = SubSeq(lines, 1, m)
    BY <1>2, <1>4 DEF UpToRow
  <1> HIDE DEF n, rows
  <1>8. /\ SubSeq(lines, 1, m) \in Seq(Line) /\ Len(SubSeq(lines, 1, m)) = m
        /\ \A i \in 1..m : SubSeq(lines, 1, m)[i] = lines[i]
    <2>1. 1 \in Int /\ m \in Int /\ \A i \in 1..m : lines[i] \in Line
      BY <1>1, <1>6
    <2>2. /\ SubSeq(lines, 1, m) \in Seq(Line)
          /\ Len(SubSeq(lines, 1, m)) = IF 1 <= m THEN m - 1 + 1 ELSE 0
          /\ \A i \in 1..m - 1 + 1 : SubSeq(lines, 1, m)[i] = lines[1 + i - 1]
      BY <2>1, SubSeqProperties
    <2> QED
      BY <1>1, <1>6, <2>2
  <1>9. Last(UpToRow(lines)) = lines[m]
    BY <1>6, <1>7, <1>8 DEF Last
  <1>10. Unread(lines) = SubSeq(lines, m + 1, n)
    BY <1>7, <1>8 DEF Unread, n
  <1>11. /\ Unread(lines) \in Seq(Line) /\ Len(Unread(lines)) = n - m
         /\ \A i \in 1..n - m : Unread(lines)[i] = lines[m + i]
    <2>1. m + 1 \in Int /\ n \in Int /\ \A i \in m + 1..n : lines[i] \in Line
      BY <1>1, <1>6
    <2>2. /\ SubSeq(lines, m + 1, n) \in Seq(Line)
          /\ Len(SubSeq(lines, m + 1, n)) = IF m + 1 <= n THEN n - (m + 1) + 1 ELSE 0
          /\ \A i \in 1..n - (m + 1) + 1 :
               SubSeq(lines, m + 1, n)[i] = lines[m + 1 + i - 1]
      BY <2>1, SubSeqProperties
    <2> QED
      BY <1>1, <1>6, <1>10, <2>2
  <1> QED
    BY <1>6, <1>9, <1>11 DEF n

-----------------------------------------------------------------------------
(* Where the reader is: k lines behind the header have been read.          *)
ReadTo(lines, k, rest) ==
  /\ k \in 0..Len(lines) /\ rest \in Seq(Line) /\ Len(rest) = Len(lines) - k
  /\ \A i \in 1..Len(lines) - k : rest[i] = lines[k + i]

Answer == [rc : {"ok", "EINVAL", "EOVERFLOW", "ENODATA"}, fields : Seq(Cells)]

(* Every row that was counted has its answer, and the others have none.    *)
RowsAnswered(lines, given) ==
  /\ \A i \in 1..Len(lines) :
       ~Blank(lines[i]) /\ RowsUpTo(lines, i) <= Len(given) =>
         given[RowsUpTo(lines, i)] = Meant(lines[i])
  /\ \A n \in RowsUpTo(lines, Len(lines)) + 1..Len(given) : given[n].rc = "ENODATA"

(* The row whose fields are there.                                         *)
LastOf(lines, given) ==
  IF Len(given) < RowsUpTo(lines, Len(lines)) THEN Len(given) ELSE RowsUpTo(lines, Len(lines))

Reader ==
  /\ file \in CsvFiles /\ header # <<>> /\ Tail(file) \in Seq(Line)
  /\ answers \in Seq(Answer) /\ fields \in Seq(Cells)
  /\ Len(fields) \in {0, Len(header)} /\ Bad \notin Range(fields)
  /\ \E k : /\ ReadTo(Tail(file), k, input)
             /\ \/ RowsUpTo(Tail(file), k) = Len(answers)
                \/ k = Len(Tail(file)) /\ RowsUpTo(Tail(file), k) <= Len(answers)
  /\ RowsAnswered(Tail(file), answers)
  /\ fields = IF LastOf(Tail(file), answers) = 0 THEN <<>>
              ELSE answers[LastOf(Tail(file), answers)].fields

CsvInv ==
  /\ isOpen \in BOOLEAN
  /\ isOpen => Reader
  /\ ~isOpen => file = NoFile /\ fields = <<>>

(* A call reads a row.                                                     *)
LEMMA RowIsRead ==
  ASSUME Reader, ~AtEnd(input), NEW given, NEW latest \in Answer,
         given = Append(answers, latest),
         latest = Meant(Last(UpToRow(input)))
  PROVE  LET lines == Tail(file) IN
         /\ \E k : /\ ReadTo(lines, k, Unread(input))
                   /\ RowsUpTo(lines, k) = Len(given)
         /\ RowsAnswered(lines, given) /\ given \in Seq(Answer)
         /\ LastOf(lines, given) # 0 /\ given[LastOf(lines, given)] = latest
  <1> DEFINE lines == Tail(file)
             n == Len(lines)
             now == Len(answers)
  <1>1. lines \in Seq(Line) /\ answers \in Seq(Answer) /\ RowsAnswered(lines, answers)
    BY DEF Reader
  <1>2. n \in Nat /\ now \in Nat /\ \A i \in 1..n : lines[i] \in Line
    BY <1>1, LenProperties
  <1>3. PICK k : /\ ReadTo(lines, k, input)
                 /\ \/ RowsUpTo(lines, k) = now
                    \/ k = n /\ RowsUpTo(lines, k) <= now
    BY DEF Reader
  <1> HIDE DEF lines
  <1>4. /\ k \in 0..n /\ input \in Seq(Line) /\ Len(input) = n - k
        /\ \A i \in 1..n - k : input[i] = lines[k + i]
    BY <1>3 DEF ReadTo
  <1>5. PICK m \in 1..Len(input) :
          /\ ~Blank(input[m]) /\ \A i \in 1..m - 1 : Blank(input[i])
          /\ Last(UpToRow(input)) = input[m]
          /\ Unread(input) \in Seq(Line) /\ Len(Unread(input)) = Len(input) - m
          /\ \A i \in 1..Len(input) - m : Unread(input)[i] = input[m + i]
    BY <1>4, CallReadsARow
  <1> HIDE DEF n
  <1>6. PICK j : j = k + m
    OBVIOUS
  <1>7. /\ j \in 1..n /\ k < j /\ j \in 0..n /\ input[m] = lines[j] /\ ~Blank(lines[j])
        /\ \A i \in k + 1..j - 1 : Blank(lines[i])
    <2>1. j \in 1..n /\ k < j /\ j \in 0..n /\ input[m] = lines[j] /\ ~Blank(lines[j])
      <3>1. m \in 1..n - k
        BY <1>4, <1>5
      <3>2. j \in 1..n /\ k < j /\ j \in 0..n
        BY <1>2, <1>4, <1>6, <3>1
      <3>3. input[m] = lines[j]
        BY <1>4, <1>6, <3>1
      <3> QED
        BY <1>5, <3>2, <3>3
    <2>2. ASSUME NEW i \in k + 1..j - 1 PROVE Blank(lines[i])
      <3>1. i - k \in 1..m - 1 /\ i - k \in 1..n - k /\ k + (i - k) = i
        BY <1>2, <1>4, <1>5, <1>6, <2>2
      <3> QED
        BY <1>4, <1>5, <3>1
    <2> QED
      BY <2>1, <2>2
  <1>8. RowsUpTo(lines, k) = now
    BY <1>3, <1>4, <1>7
  <1>9. RowsUpTo(lines, j) = now + 1
    <2>1. k \in 0..Len(lines) /\ j \in 1..Len(lines)
      BY <1>4, <1>7 DEF n
    <2>2. RowsUpTo(lines, j) = RowsUpTo(lines, k) + 1
      BY <1>1, <1>7, <2>1, RowIsCounted
    <2> QED
      BY <1>8, <2>2
  <1>10. RowsUpTo(lines, n) \in Nat /\ now + 1 <= RowsUpTo(lines, n)
    <2>1. n \in j..n /\ n \in 0..n
      BY <1>2, <1>7
    <2> QED
      BY <1>1, <1>7, <1>9, <2>1, RowsGrow, RowsAreCounted DEF n
  <1>11. /\ given \in Seq(Answer) /\ Len(given) = now + 1 /\ given[now + 1] = latest
         /\ \A i \in 1..now : given[i] = answers[i]
    BY <1>1, AppendProperties
  <1>12. latest = Meant(lines[j])
    BY <1>5, <1>7
  <1>13. ASSUME NEW i \in 1..n, ~Blank(lines[i]), RowsUpTo(lines, i) <= now + 1
         PROVE  given[RowsUpTo(lines, i)] = Meant(lines[i])
    <2>1. i \in 0..n /\ 0 \in 0..n /\ 0 < i
      BY <1>2
    <2>2. RowsUpTo(lines, 0) \in Nat /\ RowsUpTo(lines, i) \in Nat
      BY <1>1, <2>1, RowsAreCounted DEF n
    <2>3. RowsUpTo(lines, 0) + 1 <= RowsUpTo(lines, i)
      BY <1>1, <1>13, <2>1, RowIsCounted DEF n
    <2>4. CASE RowsUpTo(lines, i) <= now
      <3>1. RowsUpTo(lines, i) \in 1..now
        BY <1>2, <2>2, <2>3, <2>4
      <3>2. answers[RowsUpTo(lines, i)] = Meant(lines[i])
        BY <1>1, <1>13, <2>4 DEF RowsAnswered, n
      <3> QED
        BY <1>11, <3>1, <3>2
    <2>5. CASE RowsUpTo(lines, i) = now + 1
      <3>1. ASSUME i < j PROVE FALSE
        <4>1. RowsUpTo(lines, i) + 1 <= RowsUpTo(lines, j)
          BY <1>1, <1>7, <2>1, <3>1, RowIsCounted DEF n
        <4> QED
          BY <1>2, <1>9, <2>5, <4>1
      <3>2. ASSUME j < i PROVE FALSE
        <4>1. RowsUpTo(lines, j) + 1 <= RowsUpTo(lines, i)
          BY <1>1, <1>7, <1>13, <3>2, RowIsCounted DEF n
        <4> QED
          BY <1>2, <1>9, <2>5, <4>1
      <3>3. i = j
        BY <1>2, <1>7, <3>1, <3>2
      <3> QED
        BY <1>11, <1>12, <2>5, <3>3
    <2>6. RowsUpTo(lines, i) <= now \/ RowsUpTo(lines, i) = now + 1
      BY <1>2, <1>13, <2>2
    <2> QED
      BY <2>4, <2>5, <2>6
  <1>14. \A i \in RowsUpTo(lines, n) + 1..now + 1 : given[i].rc = "ENODATA"
    BY <1>2, <1>10
  <1>15. RowsAnswered(lines, given)
    BY <1>11, <1>13, <1>14 DEF RowsAnswered, n
  <1>16. LastOf(lines, given) = now + 1
    BY <1>2, <1>10, <1>11 DEF LastOf, n
  <1>17. ReadTo(lines, j, Unread(input))
    <2>1. ASSUME NEW i \in 1..n - j PROVE Unread(input)[i] = lines[j + i]
      <3>1. i \in 1..Len(input) - m /\ m + i \in 1..n - k /\ k + (m + i) = j + i
        BY <1>2, <1>4, <1>5, <1>6, <2>1
      <3> QED
        BY <1>4, <1>5, <3>1
    <2>2. Len(Unread(input)) = n - j
      BY <1>2, <1>4, <1>5, <1>6
    <2> QED
      BY <1>5, <1>7, <2>1, <2>2 DEF ReadTo, n
  <1> QED
    BY <1>2, <1>9, <1>11, <1>15, <1>16, <1>17 DEF lines

(* What csv_next makes of a line.                                          *)
LEMMA LineIsMeant ==
  ASSUME NEW row \in Line
  PROVE  /\ Meant(row) \in Answer
         /\ Truncated(<<row>>) => Meant(row) = [rc |-> "EOVERFLOW", fields |-> <<>>]
         /\ ~Truncated(<<row>>) => Meant(row) = Parsed(row)
         /\ Len(Meant(row).fields) \in {0, Len(header)}
         /\ Bad \notin Range(Meant(row).fields)
  <1>1. Len(row) \in Nat /\ DOMAIN row = 1..Len(row) /\ <<>> \in Line /\ Len(<<>>) = 0
    BY LenProperties, EmptySeq DEF Line
  <1>2. Bad \notin Range(<<>>)
    BY DEF Range
  <1>3. Truncated(<<row>>) <=> Len(row) >= LineMax
    BY DEF Truncated
  <1>4. Bad \in Range(row) => Pushed(row) # row
    <2> SUFFICES ASSUME Bad \in Range(row) PROVE Pushed(row) # row
      OBVIOUS
    <2> DEFINE bad == {i \in DOMAIN row : row[i] = Bad}
    <2>1. bad \subseteq Nat /\ bad # {}
      BY <1>1 DEF Range
    <2>2. \E i \in bad : \A j \in bad : i <= j
      BY <2>1, LeastNat
    <2>3. PICK i : i = Min(bad)
      OBVIOUS
    <2>4. i \in bad
      BY <2>2, <2>3 DEF Min
    <2>5. Pushed(row) = SubSeq(row, 1, i - 1)
      BY <2>1, <2>3 DEF Pushed
    <2>6. i \in 1..Len(row)
      BY <1>1, <2>4
    <2>7. 1 \in Int /\ i - 1 \in Int /\ \A j \in 1..i - 1 : row[j] \in Cells
      BY <1>1, <2>6 DEF Line
    <2>8. Len(SubSeq(row, 1, i - 1)) = IF 1 <= i - 1 THEN i - 1 - 1 + 1 ELSE 0
      BY <2>7, SubSeqProperties
    <2> HIDE DEF bad
    <2>9. Len(Pushed(row)) # Len(row)
      BY <1>1, <2>5, <2>6, <2>8
    <2> QED
      BY <2>9
  <1>5. Bad \notin Range(row) => Pushed(row) = row
    BY DEF Range, Pushed
  <1>6. CASE Len(row) >= LineMax
    <2>1. Meant(row) = [rc |-> "EOVERFLOW", fields |-> <<>>]
      BY <1>1, <1>6, LineMaxAssumption DEF Meant
    <2> QED
      BY <1>1, <1>2, <1>3, <1>6, <2>1 DEF Answer, Line
  <1>7. CASE Len(row) < LineMax /\ (Bad \in Range(row) \/ Len(row) # Len(header))
    <2>1. Meant(row) = [rc |-> "EINVAL", fields |-> <<>>]
      BY <1>1, <1>7, LineMaxAssumption DEF Meant
    <2>2. Parsed(row) = [rc |-> "EINVAL", fields |-> <<>>]
      BY <1>4, <1>7 DEF Parsed
    <2>3. ~Truncated(<<row>>)
      BY <1>1, <1>3, <1>7, LineMaxAssumption
    <2> QED
      BY <1>1, <1>2, <2>1, <2>2, <2>3 DEF Answer, Line
  <1>8. CASE Len(row) < LineMax /\ Bad \notin Range(row) /\ Len(row) = Len(header)
    <2>1. Meant(row) = [rc |-> "ok", fields |-> row]
      BY <1>1, <1>8, LineMaxAssumption DEF Meant
    <2>2. Parsed(row) = [rc |-> "ok", fields |-> row]
      BY <1>5, <1>8 DEF Parsed
    <2>3. ~Truncated(<<row>>)
      BY <1>1, <1>3, <1>8, LineMaxAssumption
    <2> QED
      BY <1>1, <1>8, <2>1, <2>2, <2>3 DEF Answer, Line
  <1> QED
    BY <1>1, <1>6, <1>7, <1>8, LineMaxAssumption

-----------------------------------------------------------------------------
(* The steps.                                                              *)
(* The row it read is a line.                                              *)
LEMMA LastIsALine ==
  ASSUME Reader, ~AtEnd(input)
  PROVE  Last(UpToRow(input)) \in Line
  <1>1. input \in Seq(Line)
    BY DEF Reader, ReadTo
  <1>2. PICK m \in 1..Len(input) : Last(UpToRow(input)) = input[m]
    BY <1>1, CallReadsARow
  <1>3. input[m] \in Line
    BY <1>1
  <1> QED
    BY <1>2, <1>3

(* What follows a call that read a row.                                    *)
LEMMA RowFollows ==
  ASSUME NEW rc, NEW row, Reader, isOpen, ~AtEnd(input),
         [rc |-> rc, fields |-> row] = Meant(Last(UpToRow(input))),
         input' = Unread(input), Answers(rc, row), UNCHANGED <<isOpen, header, file>>
  PROVE  Reader'
  <1>1. PICK given : given = Append(answers, [rc |-> rc, fields |-> row])
    OBVIOUS
  <1>2. PICK latest : latest = [rc |-> rc, fields |-> row]
    OBVIOUS
  <1>3. answers' = given /\ fields' = row /\ latest.fields = row
    BY <1>1, <1>2 DEF Answers
  <1>4. PICK line \in Line : line = Last(UpToRow(input))
    BY LastIsALine
  <1>5. /\ latest = Meant(line) /\ latest \in Answer
        /\ Len(row) \in {0, Len(header)} /\ Bad \notin Range(row)
    BY <1>2, <1>3, <1>4, LineIsMeant
  <1>6. PICK lines : lines = Tail(file)
    OBVIOUS
  <1>7. /\ \E k : ReadTo(lines, k, Unread(input)) /\ RowsUpTo(lines, k) = Len(given)
        /\ RowsAnswered(lines, given) /\ given \in Seq(Answer)
        /\ LastOf(lines, given) # 0 /\ given[LastOf(lines, given)] = latest
    BY <1>1, <1>2, <1>4, <1>5, <1>6, RowIsRead
  <1>8. row \in Seq(Cells)
    BY <1>3, <1>5 DEF Answer
  <1>9. (RowsAnswered(lines, given))'
    BY <1>7 DEF RowsAnswered, Meant
  <1>10. file' = file /\ header' = header /\ Tail(file') = lines
    BY <1>6
  <1>11. /\ file \in CsvFiles /\ header # <<>> /\ lines \in Seq(Line)
    BY <1>6 DEF Reader
  <1>12. (RowsAnswered(Tail(file), answers))'
    BY <1>3, <1>9, <1>10
  <1>13. LastOf(lines, given) = LastOf(Tail(file'), answers')
    BY <1>3, <1>10
  <1>14. fields' = IF LastOf(Tail(file'), answers') = 0 THEN <<>>
                   ELSE answers'[LastOf(Tail(file'), answers')].fields
    BY <1>3, <1>7, <1>13
  <1>15. \E k : ReadTo(Tail(file'), k, input') /\ RowsUpTo(Tail(file'), k) = Len(answers')
    BY <1>3, <1>7, <1>10
  <1> QED
    BY <1>3, <1>5, <1>7, <1>8, <1>10, <1>11, <1>12, <1>14, <1>15 DEF Reader

(* At the end every row was counted, and the fields stay.                  *)
LEMMA EndFollows ==
  ASSUME Reader, NextAtEnd
  PROVE  Reader'
  <1>1. PICK lines : lines = Tail(file)
    OBVIOUS
  <1> DEFINE n == Len(lines)
             now == Len(answers)
             all == RowsUpTo(lines, n)
  <1>2. PICK given : given = Append(answers, [rc |-> "ENODATA", fields |-> fields])
    OBVIOUS
  <1>3. /\ answers' = given /\ fields' = fields /\ input' = <<>>
        /\ isOpen' = isOpen /\ file' = file /\ header' = header
    BY <1>2 DEF NextAtEnd, Answers
  <1>4. /\ lines \in Seq(Line) /\ answers \in Seq(Answer) /\ fields \in Seq(Cells)
        /\ RowsAnswered(lines, answers) /\ AtEnd(input)
    BY <1>1 DEF Reader, NextAtEnd
  <1>5. n \in Nat /\ now \in Nat /\ n \in 0..n
    BY <1>4, LenProperties
  <1>6. all \in Nat
    BY <1>4, <1>5, RowsAreCounted
  <1>7. all <= now
    <2>1. PICK k : /\ ReadTo(lines, k, input)
                   /\ (RowsUpTo(lines, k) = now \/ (k = n /\ RowsUpTo(lines, k) <= now))
      BY <1>1 DEF Reader
    <2>2. CASE RowsUpTo(lines, k) = now
      <3>1. k \in 0..n /\ \A i \in 1..n - k : input[i] = lines[k + i]
        BY <2>1 DEF ReadTo
      <3>2. DOMAIN input = 1..n - k
        BY <2>1, LenProperties DEF ReadTo
      <3>3. ASSUME NEW i \in k + 1..n PROVE Blank(lines[i])
        <4>1. i - k \in 1..n - k /\ k + (i - k) = i
          BY <1>5, <3>1
        <4> QED
          BY <1>4, <3>1, <3>2, <4>1 DEF AtEnd
      <3>4. n \in k..n
        BY <1>5, <3>1
      <3>5. RowsUpTo(lines, n) = RowsUpTo(lines, k)
        BY <1>4, <3>1, <3>3, <3>4, BlanksAreNotCounted
      <3> QED
        BY <1>5, <2>2, <3>5
    <2> QED
      BY <2>1, <2>2
  <1> HIDE DEF n, now, all
  <1>8. [rc |-> "ENODATA", fields |-> fields] \in Answer
    BY <1>4 DEF Answer
  <1>9. /\ given \in Seq(Answer) /\ Len(given) = now + 1
        /\ given[now + 1] = [rc |-> "ENODATA", fields |-> fields]
        /\ \A i \in 1..now : given[i] = answers[i]
    BY <1>2, <1>4, <1>8, AppendProperties DEF now
  <1>10. ASSUME NEW i \in 1..n, ~Blank(lines[i])
         PROVE  given[RowsUpTo(lines, i)] = Meant(lines[i])
    <2>1. 0 \in 0..n /\ i \in 0..n /\ 0 < i /\ n \in i..n
      BY <1>5
    <2>2. RowsUpTo(lines, 0) \in Nat /\ RowsUpTo(lines, i) \in Nat
      BY <1>4, <2>1, RowsAreCounted DEF n
    <2>3. RowsUpTo(lines, 0) + 1 <= RowsUpTo(lines, i)
      BY <1>4, <1>10, <2>1, RowIsCounted DEF n
    <2>4. RowsUpTo(lines, i) <= all
      BY <1>4, <2>1, RowsGrow DEF n, all
    <2>5. RowsUpTo(lines, i) \in 1..now
      BY <1>5, <1>6, <1>7, <2>2, <2>3, <2>4
    <2>6. answers[RowsUpTo(lines, i)] = Meant(lines[i])
      BY <1>4, <1>5, <1>10, <2>5 DEF RowsAnswered, n, now
    <2> QED
      BY <1>9, <2>5, <2>6
  <1>11. ASSUME NEW i \in all + 1..now + 1 PROVE given[i].rc = "ENODATA"
    <2>1. CASE i = now + 1
      BY <1>9, <2>1
    <2>2. CASE i # now + 1
      <3>1. i \in 1..now /\ i \in all + 1..now
        BY <1>5, <1>6, <2>2
      <3>2. answers[i].rc = "ENODATA"
        BY <1>4, <3>1 DEF RowsAnswered, n, now, all
      <3> QED
        BY <1>9, <3>1, <3>2
    <2> QED
      BY <2>1, <2>2
  <1>12. RowsAnswered(lines, given)
    BY <1>9, <1>10, <1>11 DEF RowsAnswered, n, all
  <1>13. (RowsAnswered(lines, given))'
    BY <1>3, <1>12 DEF RowsAnswered, Meant
  <1>14. (RowsAnswered(Tail(file), answers))'
    BY <1>1, <1>3, <1>13
  <1>15. LastOf(lines, answers) = all /\ LastOf(lines, given) = all
    BY <1>5, <1>6, <1>7, <1>9 DEF LastOf, n, now, all
  <1>16. fields = IF all = 0 THEN <<>> ELSE answers[all].fields
    BY <1>1, <1>15 DEF Reader
  <1>17. all # 0 => given[all] = answers[all]
    <2>1. all # 0 => all \in 1..now
      BY <1>5, <1>6, <1>7
    <2> QED
      BY <1>9, <2>1
  <1>18. fields' = IF LastOf(Tail(file'), answers') = 0 THEN <<>>
                   ELSE answers'[LastOf(Tail(file'), answers')].fields
    BY <1>1, <1>3, <1>15, <1>16, <1>17
  <1>19. ReadTo(lines, n, <<>>) /\ RowsUpTo(lines, n) <= Len(given)
    <2>1. <<>> \in Seq(Line) /\ Len(<<>>) = 0
      BY EmptySeq
    <2>2. ReadTo(lines, n, <<>>)
      BY <1>5, <2>1 DEF ReadTo, n
    <2> QED
      BY <1>5, <1>6, <1>7, <1>9, <2>2 DEF all
  <1>20. /\ ReadTo(Tail(file'), n, input') /\ n = Len(Tail(file'))
         /\ RowsUpTo(Tail(file'), n) <= Len(answers')
    BY <1>1, <1>3, <1>19 DEF n
  <1>21. /\ file' \in CsvFiles /\ header' # <<>> /\ Tail(file') \in Seq(Line)
         /\ answers' \in Seq(Answer) /\ fields' \in Seq(Cells)
         /\ Len(fields') \in {0, Len(header')} /\ Bad \notin Range(fields')
    BY <1>3, <1>9 DEF Reader
  <1> QED
    BY <1>14, <1>18, <1>20, <1>21 DEF Reader

(* A file that was opened is at its first line behind the header, or closed*)
(* again.                                                                  *)
LEMMA OpenStarts ==
  ASSUME NEW f \in CsvFiles \cup {NoFile}, CsvOpen(f)
  PROVE  CsvInv'
  <1> DEFINE names == IF f = NoFile THEN NoNames ELSE ParseHeader(f)
  <1>1. CASE names = NoNames
    <2>1. isOpen' = FALSE /\ file' = NoFile /\ fields' = <<>>
      BY <1>1 DEF CsvOpen
    <2> QED
      BY <2>1 DEF CsvInv
  <1>2. CASE names # NoNames
    <2>1. /\ isOpen' = TRUE /\ file' = f /\ header' = names /\ input' = Tail(f)
          /\ fields' = <<>> /\ answers' = <<>>
      BY <1>2 DEF CsvOpen
    <2>2. f # NoFile /\ f # <<>> /\ f \in CsvFiles
      BY <1>2 DEF ParseHeader
    <2>3. f \in Seq(Line)
      BY <2>2, CsvFilesAssumption DEF Line
    <2>4. PICK lines \in Seq(Line) : lines = Tail(f)
      BY <2>2, <2>3, HeadTailProperties
    <2>5. Len(lines) \in Nat
      BY LenProperties
    <2>6. header' # <<>>
      BY <1>2, <2>1 DEF NoNames
    <2>7. ReadTo(lines, 0, lines)
      BY <2>5 DEF ReadTo
    <2>8. RowsUpTo(lines, 0) = 0
      <3>1. {j \in 1..0 : ~Blank(lines[j])} = {}
        OBVIOUS
      <3> QED
        BY <3>1, FS_EmptySet DEF RowsUpTo
    <2>9. ASSUME NEW i \in 1..Len(lines), ~Blank(lines[i]) PROVE RowsUpTo(lines, i) >= 1
      <3>1. 0 \in 0..Len(lines) /\ i \in 1..Len(lines) /\ 0 < i /\ i \in 0..Len(lines)
        BY <2>5
      <3>2. RowsUpTo(lines, i) \in Nat
        BY <3>1, RowsAreCounted
      <3>3. RowsUpTo(lines, 0) + 1 <= RowsUpTo(lines, i)
        BY <2>9, <3>1, RowIsCounted
      <3> QED
        BY <2>8, <3>2, <3>3
    <2>10. RowsUpTo(lines, Len(lines)) \in Nat
      <3>1. Len(lines) \in 0..Len(lines)
        BY <2>5
      <3> QED
        BY <3>1, RowsAreCounted
    <2>11. \A i \in 1..Len(lines) : ~Blank(lines[i]) => ~(RowsUpTo(lines, i) <= 0)
      <3>1. ASSUME NEW i \in 1..Len(lines), ~Blank(lines[i])
            PROVE  ~(RowsUpTo(lines, i) <= 0)
        <4>1. RowsUpTo(lines, i) \in Nat
          <5>1. i \in 0..Len(lines)
            BY <2>5
          <5> QED
            BY <5>1, RowsAreCounted
        <4> QED
          BY <2>9, <3>1, <4>1
      <3> QED
        BY <3>1
    <2>12. Len(<<>>) = 0 /\ <<>> \in Seq(Answer) /\ <<>> \in Seq(Cells)
               /\ Bad \notin Range(<<>>)
      BY EmptySeq DEF Range
    <2>13. RowsAnswered(lines, <<>>)'
      BY <2>10, <2>11, <2>12 DEF RowsAnswered
    <2>14. LastOf(lines, <<>>) = 0
      BY <2>10, <2>12 DEF LastOf
    <2>15. Tail(file') = lines /\ input' = lines
      BY <2>1, <2>4
    <2>16. (RowsAnswered(Tail(file), answers))'
      BY <2>1, <2>13, <2>15
    <2>17. LastOf(Tail(file'), answers') = 0
      BY <2>1, <2>14, <2>15
    <2>18. ReadTo(Tail(file'), 0, input') /\ RowsUpTo(Tail(file'), 0) = Len(answers')
      BY <2>1, <2>7, <2>8, <2>12, <2>15
    <2>19. Reader'
      BY <2>1, <2>2, <2>6, <2>12, <2>15, <2>16, <2>17, <2>18 DEF Reader
    <2> QED
      BY <2>1, <2>19 DEF CsvInv
  <1> QED
    BY <1>1, <1>2

(* Every step keeps the invariant.                                         *)
LEMMA CsvStep == CsvInv /\ [CsvNext]_csvVars => CsvInv'
  <1> SUFFICES ASSUME CsvInv, [CsvNext]_csvVars PROVE CsvInv'
    OBVIOUS
  <1>1. ASSUME NEW f \in CsvFiles \cup {NoFile}, CsvOpen(f) PROVE CsvInv'
    BY <1>1, OpenStarts
  <1>2. ASSUME isOpen, Reader, isOpen' = isOpen, Reader' PROVE CsvInv'
    BY <1>2 DEF CsvInv
  <1>3. CASE NextTooLong
    <2>1. isOpen /\ ~AtEnd(input) /\ Reader
      BY <1>3 DEF NextTooLong, CsvInv
    <2>2. PICK row : row = Last(UpToRow(input))
      OBVIOUS
    <2>3. row \in Line /\ Truncated(<<row>>)
      BY <1>3, <2>1, <2>2, LastIsALine DEF NextTooLong
    <2>4. Meant(row) = [rc |-> "EOVERFLOW", fields |-> <<>>]
      BY <2>3, LineIsMeant
    <2>5. Reader'
      BY <1>3, <2>1, <2>2, <2>4, RowFollows DEF NextTooLong
    <2> QED
      BY <1>2, <1>3, <2>1, <2>5 DEF NextTooLong
  <1>4. CASE NextRow
    <2>1. isOpen /\ ~AtEnd(input) /\ Reader
      BY <1>4 DEF NextRow, CsvInv
    <2>2. PICK row : row = Last(UpToRow(input))
      OBVIOUS
    <2>3. row \in Line /\ ~Truncated(<<row>>)
      BY <1>4, <2>1, <2>2, LastIsALine DEF NextRow
    <2>4. Meant(row) = Parsed(row)
      BY <2>3, LineIsMeant
    <2>5. Parsed(row) = [rc |-> Parsed(row).rc, fields |-> Parsed(row).fields]
      BY DEF Parsed
    <2>6. PICK rc, cells : rc = Parsed(row).rc /\ cells = Parsed(row).fields
      OBVIOUS
    <2>7. [rc |-> rc, fields |-> cells] = Meant(row)
      BY <2>4, <2>5, <2>6
    <2>8. Answers(rc, cells)
      BY <1>4, <2>2, <2>6 DEF NextRow, Answers
    <2>9. Reader'
      BY <1>4, <2>1, <2>2, <2>7, <2>8, RowFollows DEF NextRow
    <2> QED
      BY <1>2, <1>4, <2>1, <2>9 DEF NextRow
  <1>5. CASE NextAtEnd
    <2>1. isOpen /\ Reader
      BY <1>5 DEF NextAtEnd, CsvInv
    <2>2. Reader'
      BY <1>5, <2>1, EndFollows
    <2> QED
      BY <1>2, <1>5, <2>1, <2>2 DEF NextAtEnd
  <1>6. CASE CsvClose
    BY <1>6 DEF CsvClose, CsvInv
  <1>7. CASE UNCHANGED csvVars
    BY <1>7 DEF csvVars, CsvInv, Reader, RowsAnswered, Meant
  <1> QED
    BY <1>1, <1>3, <1>4, <1>5, <1>6, <1>7 DEF CsvNext

(* The invariant is stronger than the property.                            *)
LEMMA CsvMeans == CsvInv => RowPerCall
  <1> SUFFICES ASSUME CsvInv PROVE RowPerCall
    OBVIOUS
  <1>1. CsvTypeOK
    <2>1. CASE isOpen
      BY <2>1 DEF CsvInv, Reader, CsvTypeOK
    <2>2. CASE ~isOpen
      <3>1. fields = <<>> /\ Len(fields) = 0 /\ Bad \notin Range(fields)
        BY <2>2 DEF CsvInv, Range
      <3> QED
        BY <2>2, <3>1 DEF CsvInv, CsvTypeOK
    <2> QED
      BY <2>1, <2>2 DEF CsvInv
  <1>2. CASE isOpen
    <2>1. PICK lines : lines = Tail(file)
      OBVIOUS
    <2>2. Reader
      BY <1>2 DEF CsvInv
    <2>3. lines \in Seq(Line) /\ DOMAIN lines = 1..Len(lines)
      BY <2>1, <2>2, LenProperties DEF Reader
    <2>4. /\ \A i \in DOMAIN lines :
               ~Blank(lines[i]) /\ RowsUpTo(lines, i) <= Len(answers) =>
                 answers[RowsUpTo(lines, i)] = Meant(lines[i])
          /\ \A n \in RowsUpTo(lines, Len(lines)) + 1..Len(answers) :
               answers[n].rc = "ENODATA"
      BY <2>1, <2>2, <2>3 DEF Reader, RowsAnswered
    <2>5. fields = IF LastOf(lines, answers) = 0 THEN <<>>
                   ELSE answers[LastOf(lines, answers)].fields
      BY <2>1, <2>2 DEF Reader
    <2> QED
      BY <1>1, <1>2, <2>1, <2>4, <2>5 DEF RowPerCall, RowsUpTo, LastOf
  <1> QED
    BY <1>1, <1>2 DEF RowPerCall

(* However long, short, broken or blank the lines of a file are, the n-th  *)
(* call of csv_next answers its n-th row, and none is skipped or read as   *)
(* two.                                                                    *)
THEOREM CallsReadRows == CsvInit /\ [][CsvNext]_csvVars => []RowPerCall
  <1>1. CsvInit => CsvInv
    BY DEF CsvInit, CsvInv
  <1> QED
    BY <1>1, CsvStep, CsvMeans, PTL

-----------------------------------------------------------------------------
(* YamlValues.                                                             *)

(* Division with remainder, also of what is below zero.                    *)
LEMMA DivisionInt ==
  ASSUME NEW x \in Int, NEW n \in Nat \ {0}
  PROVE  /\ x \div n \in Int
         /\ x % n \in 0..n - 1
         /\ x = n * (x \div n) + (x % n)
  BY SMT

LEMMA MultipleLeavesNothing ==
  ASSUME NEW n \in Nat \ {0}, NEW q \in Int
  PROVE  (n * q) % n = 0
  <1> DEFINE z == n * q
  <1>1. z \in Int
    BY SMT
  <1> DEFINE p == z \div n
             m == z % n
  <1>2. n * q = n * p + m /\ p \in Int /\ m \in 0..n - 1
    BY <1>1, DivisionInt
  <1> HIDE DEF p, m
  <1>3. ~(p > q) /\ ~(q > p)
    BY <1>2, FactorBound, SMT
  <1>4. m = 0
    BY <1>2, <1>3, SMT
  <1> QED
    BY <1>4 DEF m

(* What becomes of a long that is made an int.                             *)
IntMax == UintMax \div 2
LEMMA WidthIs == IntMax \in Nat /\ IntMax >= 1 /\ UintMax = 2 * IntMax + 1
  BY WidthAssumption, SMT DEF IntMax

LEMMA WrappedIs ==
  ASSUME NEW long \in Int
  PROVE  /\ Wrapped(long) \in -IntMax - 1..IntMax
         /\ (Wrapped(long) - long) % (UintMax + 1) = 0
         /\ long \in -IntMax - 1..IntMax => Wrapped(long) = long
  <1>1. PICK w \in Nat \ {0} : w = UintMax + 1
    BY WidthIs
  <1> DEFINE low == long % w
             q == long \div w
  <1>2. low \in 0..w - 1 /\ q \in Int /\ long = w * q + low
    BY DivisionInt
  <1>3. Wrapped(long) = IF low > IntMax THEN low - w ELSE low
    BY <1>1 DEF Wrapped, IntMax
  <1> HIDE DEF low, q
  <1>4. Wrapped(long) \in -IntMax - 1..IntMax
    BY <1>1, <1>2, <1>3, WidthIs
  <1>5. \E d \in Int : Wrapped(long) - long = w * d
    <2>1. CASE low > IntMax
      <3>1. -q - 1 \in Int /\ low - w - long = w * (-q - 1)
        BY <1>2, SMT
      <3> QED
        BY <1>3, <2>1, <3>1
    <2>2. CASE ~(low > IntMax)
      <3>1. -q \in Int /\ low - long = w * (-q)
        BY <1>2, SMT
      <3> QED
        BY <1>3, <2>2, <3>1
    <2> QED
      BY <2>1, <2>2
  <1>6. PICK d \in Int : Wrapped(long) - long = w * d
    BY <1>5
  <1>7. ASSUME long \in -IntMax - 1..IntMax
        PROVE  Wrapped(long) = long
    <2>1. ~(d > 0) /\ ~(0 > d)
      <3>1. w * 0 = 0
        BY SMT
      <3>2. Wrapped(long) - long < w /\ Wrapped(long) - long > -w
        BY <1>1, <1>4, <1>7, WidthIs
      <3>3. w * d < w /\ w * d + w > 0
        BY <1>6, <3>2, <1>4
      <3> QED
        BY <3>1, <3>3, FactorBound
    <2> QED
      BY <1>4, <1>6, <2>1, SMT
  <1> QED
    BY <1>1, <1>4, <1>6, <1>7, MultipleLeavesNothing

ValuesTypes ==
  /\ text \in Texts /\ string \in Nat /\ inter \in BOOLEAN
  /\ answer.text \in Texts
ValuesInv == ValuesTypes /\ AnswersHold

(* The reads of one call.                                                  *)
LEMMA TextAtIs ==
  ASSUME ValuesTypes
  PROVE  /\ TextAt[0] = text
         /\ \A n \in Nat : TextAt[n] \in Texts
         /\ ~inter => \A n \in Nat : TextAt[n] = text
  <1> DEFINE Is(f) ==
        f = [n \in Nat |-> IF n = 0 \/ ~inter THEN text ELSE Expands[f[n - 1]]]
      step == [n \in Nat |-> [t \in Texts |-> IF ~inter THEN text ELSE Expands[t]]]
  <1>1. step \in [Nat -> [Texts -> Texts]]
    BY TextsAssumption DEF ValuesTypes
  <1>2. PICK f : IsRecursion(f, Texts, text, step)
    <2> HIDE DEF step
    <2> QED
      BY <1>1, NatRec DEF ValuesTypes
  <1>3. /\ f \in [Nat -> Texts] /\ f[0] = text
        /\ \A n \in Nat : f[n + 1] = IF ~inter THEN text ELSE Expands[f[n]]
    BY <1>2 DEF IsRecursion
  <1>4. Is(f)
    <2>1. ASSUME NEW n \in Nat
          PROVE  f[n] = IF n = 0 \/ ~inter THEN text ELSE Expands[f[n - 1]]
      <3>1. CASE n = 0
        BY <1>3, <3>1
      <3>2. CASE n # 0
        <4>1. n - 1 \in Nat /\ n = (n - 1) + 1
          BY <3>2
        <4> QED
          BY <1>3, <3>2, <4>1
      <3> QED
        BY <3>1, <3>2
    <2> QED
      BY <1>3, <2>1
  <1>5. Is(CHOOSE h : Is(h))
    <2> HIDE DEF Is
    <2> QED
      BY <1>4
  <1>6. TextAt = CHOOSE h : Is(h)
    BY DEF TextAt
  <1>7. \A n \in Nat : TextAt[n] = IF n = 0 \/ ~inter THEN text ELSE Expands[TextAt[n - 1]]
    <2> DEFINE T == CHOOSE h : Is(h)
    <2>1. T = [n \in Nat |-> IF n = 0 \/ ~inter THEN text ELSE Expands[T[n - 1]]]
      BY <1>5
    <2> HIDE DEF T
    <2>2. \A n \in Nat : T[n] = IF n = 0 \/ ~inter THEN text ELSE Expands[T[n - 1]]
      BY <2>1
    <2>3. TextAt = T
      BY <1>6 DEF T
    <2> QED
      BY <2>2, <2>3
  <1>8. \A n \in Nat : TextAt[n] \in Texts
    <2> DEFINE S == {n \in Nat : TextAt[n] \in Texts}
    <2> HIDE DEF TextAt
    <2>1. 0 \in S
      BY <1>7 DEF ValuesTypes
    <2>2. ASSUME NEW n \in Nat, n \in S PROVE n + 1 \in S
      <3>1. TextAt[n + 1] = IF ~inter THEN text ELSE Expands[TextAt[n]]
        BY <1>7
      <3> QED
        BY <2>2, <3>1, TextsAssumption DEF ValuesTypes
    <2> HIDE DEF S
    <2>3. Nat \subseteq S
      BY <2>1, <2>2, NatInd
    <2> QED
      BY <2>3 DEF S
  <1> QED
    BY <1>7, <1>8

(* What an int is, by the number that is read.                             *)
LEMMA IntAtIs ==
  ASSUME ValuesTypes, NEW n \in Nat
  PROVE  /\ IsNumber(n) => /\ Number[TextAt[n]] \in Int
                           /\ IntAt(n) = Wrapped(Number[TextAt[n]])
         /\ ~IsNumber(n) => IntAt(n) \in {0, 1, NoValue}
         /\ Truth[TextAt[n]] \in {0, 1, NoValue}
  <1>1. TextAt[n] \in Texts /\ TextAt[n + 1] \in Texts
    BY TextAtIs
  <1> QED
    BY <1>1, NumberAssumption DEF IsNumber, IntAt

(* The parts of the property, one per getter.                              *)
ScalarHolds == answer.call = "scalar" => answer.value = string
IntHolds ==
  answer.call = "int" /\ Number[answer.text] # NoValue =>
    /\ Number[answer.text] \in -IntMax - 1..IntMax => answer.value = Number[answer.text]
    /\ (answer.value - Number[answer.text]) % (UintMax + 1) = 0
UintHolds ==
  answer.call = "uint" /\ Number[answer.text] # NoValue =>
    /\ Number[answer.text] \in 0..IntMax => answer.value = Number[answer.text]
    /\ Number[answer.text] \in IntMax + 1..UintMax => answer.value # Number[answer.text]
    /\ Number[answer.text] \in -IntMax - 1.. -1 => answer.value # Number[answer.text]
StringHolds ==
  answer.call = "string" /\ ~inter =>
    (answer.value # NoValue
       <=> Number[answer.text] = NoValue /\ Truth[answer.text] = NoValue)
Parts ==
  /\ ~inter => handed \subseteq {string}
  /\ ScalarHolds /\ IntHolds /\ UintHolds /\ StringHolds
LEMMA PartsHold == Parts <=> AnswersHold
  <1>1. AnswersHold => Parts
    BY DEF AnswersHold, Parts, ScalarHolds, IntHolds, UintHolds, StringHolds, IntMax
  <1>2. Parts => AnswersHold
    BY DEF AnswersHold, Parts, ScalarHolds, IntHolds, UintHolds, StringHolds, IntMax
  <1> QED
    BY <1>1, <1>2

(* The strings after a read.                                               *)
LEMMA ReadKeeps ==
  ASSUME ValuesInv, NEW n \in Nat \ {0}, ReadsText(n), NEW getter, NEW value,
         Answered(getter, value), handed' = handed \/ handed' = handed \cup {StringAt(1)}
  PROVE  /\ ValuesTypes'
         /\ inter' = inter /\ answer'.call = getter /\ answer'.value = value
         /\ answer'.text = TextAt[1]
         /\ ~inter => handed' \subseteq {string'} /\ string' = string
  <1>1. TextAt[n] \in Texts /\ TextAt[1] \in Texts
    BY TextAtIs DEF ValuesInv
  <1>2. string' \in Nat /\ (~inter => string' = string)
    BY DEF ValuesInv, ValuesTypes, ReadsText, StringAt
  <1>3. ~inter => handed \subseteq {string}
    BY DEF ValuesInv, AnswersHold
  <1>4. ~inter => handed' \subseteq {string'}
    BY <1>2, <1>3 DEF StringAt
  <1> QED
    BY <1>1, <1>2, <1>4 DEF ValuesInv, ValuesTypes, ReadsText, Answered

(* The getters, one by one.                                                *)
LEMMA ScalarKeeps ==
  ASSUME ValuesInv, GetScalar PROVE ValuesInv'
  <1>1. /\ ReadsText(1) /\ Answered("scalar", StringAt(1))
        /\ handed' = handed \cup {StringAt(1)}
    BY DEF GetScalar
  <1>2. /\ ValuesTypes' /\ answer'.call = "scalar" /\ answer'.value = StringAt(1)
        /\ inter' = inter
        /\ ~inter => handed' \subseteq {string'} /\ string' = string
    BY <1>1, ReadKeeps
  <1>3. string' = StringAt(1)
    BY <1>1 DEF ReadsText
  <1>4. Parts'
    BY <1>2, <1>3 DEF Parts, ScalarHolds, IntHolds, UintHolds, StringHolds
  <1> QED
    BY <1>2, <1>4, PartsHold, PTL DEF ValuesInv

LEMMA NeitherKeeps ==
  ASSUME ValuesInv, GetBool \/ GetDouble PROVE ValuesInv'
  <1>1. PICK name \in {"bool", "double"}, value \in {Truth[TextAt[1]], 1, NoValue} :
          ReadsText(1) /\ Answered(name, value) /\ handed' = handed
    BY DEF GetBool, GetDouble
  <1>2. /\ ValuesTypes' /\ answer'.call = name /\ inter' = inter
        /\ ~inter => handed' \subseteq {string'} /\ string' = string
    BY <1>1, ReadKeeps
  <1>3. Parts'
    BY <1>2 DEF Parts, ScalarHolds, IntHolds, UintHolds, StringHolds
  <1> QED
    BY <1>2, <1>3, PartsHold, PTL DEF ValuesInv

LEMMA IntKeeps ==
  ASSUME ValuesInv, GetInt PROVE ValuesInv'
  <1>1. PICK n \in {1, 2} :
          ReadsText(n) /\ Answered("int", IntAt(1)) /\ handed' = handed
    BY DEF GetInt
  <1>2. /\ ValuesTypes' /\ answer'.call = "int" /\ answer'.value = IntAt(1)
        /\ answer'.text = TextAt[1] /\ inter' = inter
        /\ ~inter => handed' \subseteq {string'} /\ string' = string
    BY <1>1, ReadKeeps
  <1>3. IntHolds'
    <2> SUFFICES ASSUME Number[TextAt[1]] # NoValue
                 PROVE  /\ Number[TextAt[1]] \in -IntMax - 1..IntMax =>
                             IntAt(1) = Number[TextAt[1]]
                        /\ (IntAt(1) - Number[TextAt[1]]) % (UintMax + 1) = 0
      BY <1>2 DEF IntHolds
    <2>1. Number[TextAt[1]] \in Int /\ IntAt(1) = Wrapped(Number[TextAt[1]])
      BY IntAtIs DEF ValuesInv, IsNumber
    <2> QED
      BY <2>1, WrappedIs
  <1>4. Parts'
    BY <1>2, <1>3 DEF Parts, ScalarHolds, UintHolds, StringHolds
  <1> QED
    BY <1>2, <1>4, PartsHold, PTL DEF ValuesInv

LEMMA UintKeeps ==
  ASSUME ValuesInv, GetUint PROVE ValuesInv'
  <1> DEFINE isUint == IsNumber(1) /\ Wrapped(Number[TextAt[1]]) >= 0
             value == IF isUint THEN IntAt(1) ELSE Truth[TextAt[2]]
  <1>1. PICK n \in {1, 2} :
          ReadsText(n) /\ Answered("uint", value) /\ handed' = handed
    BY DEF GetUint
  <1>2. /\ ValuesTypes' /\ answer'.call = "uint" /\ answer'.value = value
        /\ answer'.text = TextAt[1] /\ inter' = inter
        /\ ~inter => handed' \subseteq {string'} /\ string' = string
    <2> HIDE DEF value
    <2> QED
      BY <1>1, ReadKeeps
  <1>3. UintHolds'
    <2> SUFFICES ASSUME Number[TextAt[1]] # NoValue
                 PROVE  /\ Number[TextAt[1]] \in 0..IntMax => value = Number[TextAt[1]]
                        /\ Number[TextAt[1]] \in IntMax + 1..UintMax =>
                             value # Number[TextAt[1]]
                        /\ Number[TextAt[1]] \in -IntMax - 1.. -1 =>
                             value # Number[TextAt[1]]
      BY <1>2 DEF UintHolds
    <2>1. Number[TextAt[1]] \in Int /\ IntAt(1) = Wrapped(Number[TextAt[1]]) /\ IsNumber(1)
      BY IntAtIs DEF ValuesInv, IsNumber
    <2>2. PICK number \in Int : number = Number[TextAt[1]]
      BY <2>1
    <2>3. Truth[TextAt[2]] \in {0, 1, NoValue}
      BY IntAtIs DEF ValuesInv
    <2>4. value = IF Wrapped(number) >= 0 THEN Wrapped(number) ELSE Truth[TextAt[2]]
      BY <2>1, <2>2
    <2>5. /\ Wrapped(number) \in -IntMax - 1..IntMax
          /\ number \in -IntMax - 1..IntMax => Wrapped(number) = number
      BY WrappedIs
    <2> HIDE DEF value
    <2>6. number \in 0..IntMax => value = number
      BY <2>4, <2>5, WidthIs
    <2>7. number \in IntMax + 1..UintMax => value # number
      BY <2>3, <2>4, <2>5, WidthIs, NoValueAssumption
    <2>8. number \in -IntMax - 1.. -1 => value # number
      BY <2>3, <2>4, <2>5, WidthIs, NoValueAssumption
    <2> QED
      BY <2>2, <2>6, <2>7, <2>8
  <1>4. Parts'
    BY <1>2, <1>3 DEF Parts, ScalarHolds, IntHolds, StringHolds
  <1> QED
    BY <1>2, <1>4, PartsHold, PTL DEF ValuesInv

LEMMA StringKeeps ==
  ASSUME ValuesInv, GetString PROVE ValuesInv'
  <1> DEFINE taken == IntAt(2) # NoValue \/ Truth[TextAt[4]] # NoValue
             value == IF taken THEN NoValue ELSE StringAt(1)
  <1>1. PICK n \in {2, 3, 4} :
          /\ ReadsText(n) /\ Answered("string", value)
          /\ handed' = handed \/ handed' = handed \cup {StringAt(1)}
    BY DEF GetString
  <1>2. /\ ValuesTypes' /\ answer'.call = "string" /\ answer'.value = value
        /\ answer'.text = TextAt[1] /\ inter' = inter
        /\ ~inter => handed' \subseteq {string'} /\ string' = string
    <2> HIDE DEF value
    <2> QED
      BY <1>1, ReadKeeps
  <1>3. StringHolds'
    <2> SUFFICES ASSUME ~inter
                 PROVE  value # NoValue
                          <=> Number[TextAt[1]] = NoValue /\ Truth[TextAt[1]] = NoValue
      BY <1>2 DEF StringHolds
    <2>1. TextAt[2] = TextAt[1] /\ TextAt[4] = TextAt[1] /\ TextAt[3] = TextAt[1]
      BY TextAtIs DEF ValuesInv
    <2>2. value # NoValue <=> ~taken
      BY NoValueAssumption DEF StringAt, ValuesInv, ValuesTypes
    <2>3. IntAt(2) # NoValue
            <=> Number[TextAt[1]] # NoValue \/ Truth[TextAt[1]] # NoValue
      <3>1. IsNumber(2) => IntAt(2) \in Int
        BY IntAtIs, WrappedIs DEF ValuesInv
      <3> QED
        BY <2>1, <3>1, NoValueAssumption DEF IsNumber, IntAt
    <2> QED
      BY <2>1, <2>2, <2>3
  <1>4. Parts'
    BY <1>2, <1>3 DEF Parts, ScalarHolds, IntHolds, UintHolds
  <1> QED
    BY <1>2, <1>4, PartsHold, PTL DEF ValuesInv

LEMMA ValuesStep == ValuesInv /\ [ValuesNext]_valueVars => ValuesInv'
  <1> SUFFICES ASSUME ValuesInv, [ValuesNext]_valueVars PROVE ValuesInv'
    OBVIOUS
  <1>1. CASE SetInter
    <2>1. ValuesTypes'
      BY <1>1 DEF SetInter, ValuesInv, ValuesTypes
    <2>2. Parts'
      BY <1>1, PartsHold DEF SetInter, ValuesInv, Parts, ScalarHolds, IntHolds, UintHolds,
         StringHolds
    <2> QED
      BY <2>1, <2>2, PartsHold, PTL DEF ValuesInv
  <1>2. ASSUME NEW t \in Texts, Reload(t)
        PROVE  ValuesInv'
    <2>1. ValuesTypes'
      BY <1>2 DEF Reload, ValuesTypes
    <2>2. Parts'
      BY <1>2 DEF Reload, Parts, ScalarHolds, IntHolds, UintHolds, StringHolds
    <2> QED
      BY <2>1, <2>2, PartsHold, PTL DEF ValuesInv
  <1>3. CASE UNCHANGED valueVars
    <2>1. ValuesTypes'
      BY <1>3 DEF valueVars, ValuesInv, ValuesTypes
    <2>2. Parts'
      BY <1>3, PartsHold DEF valueVars, ValuesInv, Parts, ScalarHolds, IntHolds, UintHolds,
         StringHolds
    <2> QED
      BY <2>1, <2>2, PartsHold, PTL DEF ValuesInv
  <1> QED
    BY <1>1, <1>2, <1>3, ScalarKeeps, NeitherKeeps, IntKeeps, UintKeeps, StringKeeps
    DEF ValuesNext

(* What a getter of dse/clib/util/yaml.c has answered stays true: strings  *)
(* that the caller holds, numbers at the ends of their types, and what is  *)
(* a string and what a number; for every set of texts, what they read as   *)
(* and expand to, and every width of an int.                               *)
THEOREM GettersAnswer == ValuesInit /\ [][ValuesNext]_valueVars => []AnswersHold
  <1>1. ValuesInit => ValuesInv
    <2> SUFFICES ASSUME ValuesInit PROVE ValuesTypes /\ Parts
      BY PartsHold DEF ValuesInv
    <2> QED
      BY DEF ValuesInit, ValuesTypes, Parts, ScalarHolds, IntHolds, UintHolds, StringHolds
  <1>2. ValuesInv => AnswersHold
    BY DEF ValuesInv
  <1> QED
    BY <1>1, <1>2, ValuesStep, PTL

-----------------------------------------------------------------------------
(* FileIndex.                                                              *)

(* A sequence is one over more.                                            *)
LEMMA SeqOfMore ==
  ASSUME NEW S, NEW T, S \subseteq T, NEW s \in Seq(S)
  PROVE  s \in Seq(T)
  <1>1. Len(s) \in Nat /\ s \in [1..Len(s) -> S]
    BY LenProperties
  <1> QED
    BY <1>1

Known == {d \in Documents : d.kind \in KnownKinds}
Entries == [file : Paths, doc : Documents]
Places == [kind : Kinds \cup {"none"}, index : Nat]
DocMaps == [KnownKinds -> Seq(Entries)]

(* Detect, document by document.                                           *)
LEMMA DetectLoop ==
  ASSUME NEW docs \in Seq(Documents)
  PROVE  \E kept \in [0..Len(docs) -> Seq(Known)] :
           /\ Detect(docs) = kept[Len(docs)]
           /\ kept[0] = <<>>
           /\ \A i \in 0..Len(docs) - 1 :
                kept[i + 1] = IF docs[i + 1].kind \in KnownKinds
                              THEN Append(kept[i], docs[i + 1]) ELSE kept[i]
  <1>0. PICK n \in Nat : n = Len(docs)
    BY LenProperties
  <1> DEFINE V == Seq(Known)
             Is(h) == h = [i \in 0..n |->
                        IF i = 0 THEN <<>>
                        ELSE IF docs[i].kind \in KnownKinds THEN Append(h[i - 1], docs[i])
                        ELSE h[i - 1]]
             step == [i \in Nat |-> [v \in V |->
                        IF i \in 1..n /\ docs[i].kind \in KnownKinds THEN Append(v, docs[i])
                        ELSE v]]
  <1>1. step \in [Nat -> [V -> V]]
    <2>1. \A i \in 1..n : docs[i] \in Documents
      BY <1>0
    <2>2. \A i \in 1..n : docs[i].kind \in KnownKinds => docs[i] \in Known
      BY <2>1 DEF Known
    <2> HIDE DEF V
    <2> SUFFICES ASSUME NEW i \in Nat, NEW v \in V,
                        i \in 1..n /\ docs[i].kind \in KnownKinds
                 PROVE  Append(v, docs[i]) \in V
      OBVIOUS
    <2> QED
      BY <2>2, AppendProperties DEF V
  <1>2. <<>> \in V
    OBVIOUS
  <1>3. PICK h \in [0..n -> V] : IsLoop(h, n, <<>>, step)
    <2> HIDE DEF V, step
    <2> QED
      BY <1>1, <1>2, LoopRec
  <1>4. Is(h)
    <2>1. \A i \in 1..n : h[i - 1] \in V
      OBVIOUS
    <2> HIDE DEF V
    <2>2. ASSUME NEW i \in 0..n
          PROVE  h[i] = IF i = 0 THEN <<>>
                        ELSE IF docs[i].kind \in KnownKinds THEN Append(h[i - 1], docs[i])
                        ELSE h[i - 1]
      <3>1. h[i] = IF i = 0 THEN <<>> ELSE step[i][h[i - 1]]
        <4> HIDE DEF step
        <4> QED
          BY <1>3 DEF IsLoop
      <3>2. CASE i = 0
        BY <3>1, <3>2
      <3>3. CASE i # 0
        <4>1. i \in 1..n /\ i \in Nat /\ h[i - 1] \in V
          BY <2>1, <3>3
        <4>2. PICK v \in V : v = h[i - 1]
          BY <4>1
        <4>3. step[i][v] = IF docs[i].kind \in KnownKinds THEN Append(v, docs[i]) ELSE v
          BY <4>1
        <4> QED
          BY <3>1, <3>3, <4>2, <4>3
      <3> QED
        BY <3>2, <3>3
    <2> QED
      BY <2>2
  <1> DEFINE kept == CHOOSE g : Is(g)
  <1>5. Is(kept)
    <2> HIDE DEF Is
    <2> QED
      BY <1>4
  <1>6. Detect(docs) = kept[n]
    BY <1>0 DEF Detect
  <1> HIDE DEF kept
  <1>7. /\ kept[0] = <<>>
        /\ \A i \in 0..n - 1 :
             kept[i + 1] = IF docs[i + 1].kind \in KnownKinds
                           THEN Append(kept[i], docs[i + 1]) ELSE kept[i]
    <2>1. \A i \in 0..n :
            kept[i] = IF i = 0 THEN <<>>
                      ELSE IF docs[i].kind \in KnownKinds THEN Append(kept[i - 1], docs[i])
                      ELSE kept[i - 1]
      BY <1>5
    <2>2. \A i \in 0..n - 1 : i + 1 \in 0..n /\ i + 1 # 0 /\ (i + 1) - 1 = i
      OBVIOUS
    <2> QED
      BY <2>1, <2>2
  <1>8. \A i \in 0..n : kept[i] = h[i]
    <2> DEFINE T == {i \in Nat : i <= n => kept[i] = h[i]}
    <2>1. 0 \in T
      <3>1. h[0] = <<>>
        BY <1>4
      <3> QED
        BY <1>7, <3>1
    <2>2. ASSUME NEW i \in Nat, i \in T PROVE i + 1 \in T
      <3> SUFFICES ASSUME i + 1 <= n PROVE kept[i + 1] = h[i + 1]
        OBVIOUS
      <3>1. i \in 0..n - 1 /\ i + 1 \in 0..n /\ i + 1 # 0 /\ (i + 1) - 1 = i /\ kept[i] = h[i]
        BY <2>2
      <3>2. h[i + 1] = IF docs[i + 1].kind \in KnownKinds THEN Append(h[i], docs[i + 1])
                       ELSE h[i]
        BY <1>4, <3>1
      <3> QED
        BY <1>7, <3>1, <3>2
    <2> HIDE DEF T
    <2>3. Nat \subseteq T
      BY <2>1, <2>2, NatInd
    <2> QED
      BY <2>3 DEF T
  <1>9. kept \in [0..n -> V]
    BY <1>5, <1>8
  <1> QED
    BY <1>0, <1>6, <1>7, <1>9

(* What is detected has known kinds, and no two documents that the file    *)
(* has not.                                                                *)
LEMMA DetectIs ==
  ASSUME NEW docs \in Seq(Documents)
  PROVE  /\ Detect(docs) \in Seq(Known)
         /\ Unique(docs) => Unique(Detect(docs))
  <1>0. PICK n \in Nat : n = Len(docs)
    BY LenProperties
  <1>1. PICK kept \in [0..n -> Seq(Known)] :
           /\ Detect(docs) = kept[n]
           /\ kept[0] = <<>>
           /\ \A i \in 0..n - 1 :
                kept[i + 1] = IF docs[i + 1].kind \in KnownKinds
                              THEN Append(kept[i], docs[i + 1]) ELSE kept[i]
    BY <1>0, DetectLoop
  <1> DEFINE From(i) == \A a \in 1..Len(kept[i]) : \E b \in 1..i : kept[i][a] = docs[b]
             T == {i \in 0..n : From(i) /\ (Unique(docs) => Unique(kept[i]))}
  <1>2. 0 \in T
    BY <1>1 DEF Unique
  <1>3. ASSUME NEW i \in 0..n - 1, i \in T PROVE i + 1 \in T
    <2>0. i \in 0..n /\ i + 1 \in 0..n /\ i + 1 \in 1..n /\ From(i)
          /\ (Unique(docs) => Unique(kept[i]))
      BY <1>3
    <2>1. CASE docs[i + 1].kind \notin KnownKinds
      <3>1. kept[i + 1] = kept[i]
        BY <1>1, <2>1
      <3> QED
        BY <2>0, <3>1
    <2>2. CASE docs[i + 1].kind \in KnownKinds
      <3>1. PICK d : d = docs[i + 1]
        OBVIOUS
      <3>2. PICK s \in Seq(Known) : s = kept[i]
        BY <2>0, <1>1
      <3>3. PICK m \in Nat : m = Len(s)
        BY LenProperties
      <3>4. PICK t : t = Append(s, d)
        OBVIOUS
      <3>5. kept[i + 1] = t
        BY <1>1, <2>2, <3>1, <3>2, <3>4
      <3>6. /\ Len(t) = m + 1 /\ DOMAIN t = 1..m + 1 /\ t[m + 1] = d
            /\ \A a \in 1..m : t[a] = s[a]
        <4>1. d \in Known
          BY <1>0, <2>0, <2>2, <3>1 DEF Known
        <4> QED
          BY <3>2, <3>3, <3>4, <4>1, AppendProperties, LenProperties
      <3>7. \A a \in 1..m + 1 : a = m + 1 \/ a \in 1..m
        OBVIOUS
      <3>8. From(i + 1)
        <4>1. \A a \in 1..m : \E b \in 1..i + 1 : t[a] = docs[b]
          <5> SUFFICES ASSUME NEW a \in 1..m PROVE \E b \in 1..i + 1 : t[a] = docs[b]
            OBVIOUS
          <5>1. PICK b \in 1..i : s[a] = docs[b]
            BY <2>0, <3>2, <3>3
          <5>2. b \in 1..i + 1 /\ t[a] = s[a]
            BY <3>6
          <5> QED
            BY <5>1, <5>2, Zenon
        <4>2. \E b \in 1..i + 1 : t[m + 1] = docs[b]
          BY <2>0, <3>1, <3>6
        <4> QED
          BY <3>5, <3>6, <3>7, <4>1, <4>2
      <3>9. ASSUME Unique(docs) PROVE Unique(t)
        <4>1. \A a \in 1..m : ~(t[a].kind = d.kind /\ t[a].name = d.name)
          <5> SUFFICES ASSUME NEW a \in 1..m, s[a].kind = d.kind, s[a].name = d.name
                       PROVE  FALSE
            BY <3>6
          <5>1. PICK b \in 1..i : s[a] = docs[b]
            BY <2>0, <3>2, <3>3
          <5>2. b \in DOMAIN docs /\ i + 1 \in DOMAIN docs /\ b # i + 1
            BY <1>0, <2>0
          <5> QED
            BY <3>1, <3>9, <5>1, <5>2 DEF Unique
        <4>2. \A a, b \in 1..m : t[a].kind = t[b].kind /\ t[a].name = t[b].name => a = b
          <5>1. DOMAIN s = 1..m
            BY <3>2, <3>3, LenProperties
          <5> QED
            BY <2>0, <3>2, <3>6, <3>9, <5>1 DEF Unique
        <4> QED
          BY <3>6, <3>7, <4>1, <4>2 DEF Unique
      <3> QED
        BY <2>0, <3>5, <3>8, <3>9
    <2> QED
      BY <2>1, <2>2
  <1> HIDE DEF T
  <1>4. n \in T
    BY <1>2, <1>3, LoopInd
  <1> QED
    BY <1>1, <1>4 DEF T

-----------------------------------------------------------------------------
(* A place points at a document of a file.                                 *)
PointsAt(dm, place, yaml, d) ==
  /\ place.kind = d.kind /\ place.index \in 1..Len(dm[d.kind])
  /\ dm[d.kind][place.index] = [file |-> yaml, doc |-> d]
InPlaces(places, kind, k) ==
  \E i \in 1..Len(places) : places[i].kind = kind /\ places[i].index = k
Grows(dm, more) ==
  \A kind \in KnownKinds :
    /\ Len(dm[kind]) <= Len(more[kind])
    /\ \A k \in 1..Len(dm[kind]) : more[kind][k] = dm[kind][k]
Added(base, yaml, docs, i, a) ==
  /\ a.docMap \in DocMaps /\ a.places \in Seq(Places) /\ Len(a.places) = i
  /\ Grows(base, a.docMap)
  /\ \A j \in 1..i : PointsAt(a.docMap, a.places[j], yaml, docs[j])
  /\ \A kind \in KnownKinds : \A k \in 1..Len(a.docMap[kind]) :
       k > Len(base[kind]) =>
         a.docMap[kind][k].file = yaml /\ InPlaces(a.places, kind, k)

LEMMA GrowsOn ==
  ASSUME NEW dm \in DocMaps, NEW more \in DocMaps, Grows(dm, more),
         NEW place, NEW yaml, NEW d \in Known, PointsAt(dm, place, yaml, d)
  PROVE  PointsAt(more, place, yaml, d)
  <1>1. d.kind \in KnownKinds
    BY DEF Known
  <1>2. Len(dm[d.kind]) \in Nat /\ Len(more[d.kind]) \in Nat
    BY <1>1, LenProperties DEF DocMaps
  <1> QED
    BY <1>1, <1>2 DEF PointsAt, Grows

(* One document is added behind the others of its kind.                    *)
LEMMA AddDocumentAdds ==
  ASSUME NEW base \in DocMaps, NEW yaml \in Paths, NEW docs \in Seq(Known),
         NEW i \in 0..Len(docs) - 1, NEW a, Added(base, yaml, docs, i, a)
  PROVE  Added(base, yaml, docs, i + 1, AddDocument(a, yaml, docs[i + 1]))
  <1>1. PICK d \in Known : d = docs[i + 1]
    BY LenProperties
  <1>2. PICK kd \in KnownKinds : kd = d.kind
    BY DEF Known
  <1>3. PICK e \in Entries : e = [file |-> yaml, doc |-> d]
    BY DEF Entries, Known
  <1>4. PICK dm \in DocMaps : dm = a.docMap
    BY DEF Added
  <1>5. PICK pl \in Seq(Places) : pl = a.places
    BY DEF Added
  <1>6. Len(pl) = i /\ i \in Nat /\ DOMAIN pl = 1..i
    BY <1>5, LenProperties DEF Added
  <1>7. PICK old \in Seq(Entries) : old = dm[kd]
    BY DEF DocMaps
  <1>8. PICK m \in Nat : m = Len(old)
    BY LenProperties
  <1>9. PICK new \in Seq(Entries) : new = Append(old, e)
    BY AppendProperties
  <1>10. /\ Len(new) = m + 1 /\ new[m + 1] = e /\ \A k \in 1..m : new[k] = old[k]
    BY <1>8, <1>9, AppendProperties, LenProperties
  <1>11. PICK place \in Places : place = [kind |-> kd, index |-> m + 1]
    <2>1. kd \in Kinds /\ m + 1 \in Nat
      BY PathsAssumption
    <2>2. [kind |-> kd, index |-> m + 1] \in Places
      BY <2>1 DEF Places
    <2> QED
      BY <2>2
  <1>12. PICK more : more = [dm EXCEPT ![kd] = new]
    OBVIOUS
  <1>13. /\ more \in DocMaps /\ more[kd] = new
         /\ \A kind \in KnownKinds : kind # kd => more[kind] = dm[kind]
    BY <1>12 DEF DocMaps
  <1>14. PICK pls \in Seq(Places) : pls = Append(pl, place)
    BY AppendProperties
  <1>15. /\ Len(pls) = i + 1 /\ pls[i + 1] = place /\ \A j \in 1..i : pls[j] = pl[j]
    BY <1>6, <1>14, AppendProperties, LenProperties
  <1>16. PICK b : b = AddDocument(a, yaml, d)
    OBVIOUS
  <1>17. b.docMap = more /\ b.places = pls
    <2>1. b.docMap = [dm EXCEPT ![kd] = Append(dm[kd], e)]
      BY <1>2, <1>3, <1>4, <1>16 DEF AddDocument
    <2>2. b.places = Append(pl, [kind |-> kd, index |-> Len(dm[kd]) + 1])
      BY <1>2, <1>4, <1>5, <1>16 DEF AddDocument
    <2> QED
      BY <2>1, <2>2, <1>7, <1>8, <1>9, <1>11, <1>12, <1>14
  <1>18. \A kind \in KnownKinds : Len(dm[kind]) \in Nat /\ Len(base[kind]) \in Nat
    BY LenProperties DEF DocMaps
  <1>19. Grows(dm, more)
    <2> SUFFICES ASSUME NEW kind \in KnownKinds
                 PROVE  /\ Len(dm[kind]) <= Len(more[kind])
                        /\ \A k \in 1..Len(dm[kind]) : more[kind][k] = dm[kind][k]
      BY DEF Grows
    <2>1. CASE kind = kd
      <3>1. dm[kind] = old /\ more[kind] = new
        BY <1>7, <1>13, <2>1, Zenon
      <3>2. Len(dm[kind]) = m /\ Len(more[kind]) = m + 1 /\ m <= m + 1
        <4>1. Len(old) = m /\ Len(new) = m + 1 /\ m <= m + 1
          BY <1>7, <1>8, <1>10
        <4> QED
          BY <3>1, <4>1, Zenon
      <3> QED
        BY <1>10, <3>2, <3>1
    <2>2. CASE kind # kd
      <3>1. more[kind] = dm[kind] /\ Len(dm[kind]) \in Nat
        BY <1>13, <1>18, <2>2
      <3> QED
        BY <3>1
    <2> QED
      BY <2>1, <2>2
  <1>20. Grows(base, more)
    <2>1. Grows(base, dm)
      BY <1>4 DEF Added
    <2> SUFFICES ASSUME NEW kind \in KnownKinds
                 PROVE  /\ Len(base[kind]) <= Len(more[kind])
                        /\ \A k \in 1..Len(base[kind]) : more[kind][k] = base[kind][k]
      BY DEF Grows
    <2>2. Len(base[kind]) <= Len(dm[kind]) /\ Len(dm[kind]) <= Len(more[kind])
      BY <2>1, <1>19 DEF Grows
    <2>3. Len(more[kind]) \in Nat
      BY <1>13, LenProperties DEF DocMaps
    <2>4. ASSUME NEW k \in 1..Len(base[kind]) PROVE more[kind][k] = base[kind][k]
      <3>1. k \in 1..Len(dm[kind])
        BY <2>2, <1>18
      <3>2. more[kind][k] = dm[kind][k]
        BY <1>19, <3>1 DEF Grows
      <3>3. dm[kind][k] = base[kind][k]
        BY <2>1, <2>4 DEF Grows
      <3> QED
        BY <3>2, <3>3
    <2>5. Len(base[kind]) <= Len(more[kind])
      <3>1. PICK x, y, z :
              /\ x = Len(base[kind]) /\ y = Len(dm[kind]) /\ z = Len(more[kind])
              /\ x \in Nat /\ y \in Nat /\ z \in Nat
        BY <2>3, <1>18, Zenon
      <3>2. x <= y /\ y <= z
        BY <2>2, <3>1, Zenon
      <3>3. x <= z
        BY <3>1, <3>2
      <3> QED
        BY <3>1, <3>3, Zenon
    <2> QED
      BY <2>4, <2>5
  <1>21. \A j \in 1..i + 1 : PointsAt(more, pls[j], yaml, docs[j])
    <2>1. ASSUME NEW j \in 1..i PROVE PointsAt(more, pls[j], yaml, docs[j])
      <3>1. docs[j] \in Known
        BY LenProperties
      <3>2. PointsAt(dm, pl[j], yaml, docs[j])
        BY <1>4, <1>5 DEF Added
      <3> QED
        BY <1>13, <1>15, <1>19, <3>1, <3>2, GrowsOn
    <2>2. PointsAt(more, place, yaml, d)
      BY <1>2, <1>3, <1>10, <1>11, <1>13 DEF PointsAt
    <2>3. \A j \in 1..i + 1 : j = i + 1 \/ j \in 1..i
      OBVIOUS
    <2>4. pls[i + 1] = place /\ docs[i + 1] = d
      BY <1>1, <1>6, <1>15
    <2> QED
      BY <2>1, <2>2, <2>3, <2>4, Zenon
  <1>22. ASSUME NEW kind \in KnownKinds, NEW k \in 1..Len(more[kind]), k > Len(base[kind])
         PROVE  more[kind][k].file = yaml /\ InPlaces(pls, kind, k)
    <2>1. CASE kind = kd /\ k = m + 1
      <3>1. pls[i + 1].kind = kind /\ pls[i + 1].index = k /\ i + 1 \in 1..Len(pls)
        BY <1>6, <1>11, <1>15, <2>1
      <3> QED
        BY <1>3, <1>10, <1>13, <2>1, <3>1 DEF InPlaces
    <2>2. CASE ~(kind = kd /\ k = m + 1)
      <3>1. k \in 1..Len(dm[kind]) /\ more[kind][k] = dm[kind][k]
        <4>1. CASE kind = kd
          <5>1. k \in 1..m + 1 /\ k # m + 1
            BY <1>10, <1>13, <2>2, <4>1
          <5>2. k \in 1..m
            BY <5>1
          <5> QED
            BY <1>7, <1>8, <1>10, <1>13, <4>1, <5>2
        <4>2. CASE kind # kd
          BY <1>13, <4>2
        <4> QED
          BY <4>1, <4>2
      <3>2. dm[kind][k].file = yaml /\ InPlaces(pl, kind, k)
        BY <1>4, <1>5, <1>22, <3>1 DEF Added
      <3>3. InPlaces(pls, kind, k)
        BY <1>6, <1>15, <3>2 DEF InPlaces
      <3> QED
        BY <3>1, <3>2, <3>3
    <2> QED
      BY <2>1, <2>2
  <1> QED
    BY <1>1, <1>13, <1>15, <1>16, <1>17, <1>20, <1>21, <1>22 DEF Added

(* Add, as a loop.                                                         *)
AddLoop(dm, yaml, docs, h) ==
  h = [i \in 0..Len(docs) |->
        IF i = 0 THEN [docMap |-> dm, places |-> <<>>]
        ELSE AddDocument(h[i - 1], yaml, docs[i])]
LEMMA AddLoopAdds ==
  ASSUME NEW dm \in DocMaps, NEW yaml \in Paths, NEW docs \in Seq(Known), NEW h,
         AddLoop(dm, yaml, docs, h)
  PROVE  Added(dm, yaml, docs, Len(docs), h[Len(docs)])
  <1>0. PICK n \in Nat : n = Len(docs)
    BY LenProperties
  <1> DEFINE T == {i \in 0..n : Added(dm, yaml, docs, i, h[i])}
  <1>1. 0 \in T
    <2>1. PICK a : a = [docMap |-> dm, places |-> <<>>]
      OBVIOUS
    <2>2. h[0] = a
      BY <1>0, <2>1 DEF AddLoop
    <2>3. Added(dm, yaml, docs, 0, a)
      <3>1. Grows(dm, dm)
        <4>1. \A kind \in KnownKinds : Len(dm[kind]) \in Nat
          BY LenProperties DEF DocMaps
        <4> QED
          BY <4>1 DEF Grows
      <3>2. a.docMap = dm /\ a.places = <<>> /\ a.places \in Seq(Places) /\ Len(a.places) = 0
        BY <2>1
      <3> QED
        BY <3>1, <3>2 DEF Added
    <2> QED
      BY <2>2, <2>3
  <1>2. ASSUME NEW i \in 0..n - 1, i \in T PROVE i + 1 \in T
    <2>1. h[i + 1] = AddDocument(h[i], yaml, docs[i + 1])
      <3>1. i + 1 \in 0..n /\ i + 1 # 0 /\ (i + 1) - 1 = i
        OBVIOUS
      <3> QED
        BY <1>0, <3>1 DEF AddLoop
    <2>2. PICK a : a = h[i]
      OBVIOUS
    <2>3. Added(dm, yaml, docs, i, a)
      BY <1>2, <2>2
    <2>4. Added(dm, yaml, docs, i + 1, AddDocument(a, yaml, docs[i + 1]))
      BY <1>0, <2>3, AddDocumentAdds
    <2> QED
      BY <2>1, <2>2, <2>4
  <1> HIDE DEF T
  <1>3. n \in T
    BY <1>1, <1>2, LoopInd
  <1> QED
    BY <1>0, <1>3 DEF T

LEMMA AddDocumentTypes ==
  ASSUME NEW a \in [docMap : DocMaps, places : Seq(Places)], NEW yaml \in Paths,
         NEW d \in Known
  PROVE  AddDocument(a, yaml, d) \in [docMap : DocMaps, places : Seq(Places)]
  <1>1. PICK kd \in KnownKinds : kd = d.kind
    BY DEF Known
  <1>2. PICK e \in Entries : e = [file |-> yaml, doc |-> d]
    BY DEF Entries, Known
  <1>3. PICK new \in Seq(Entries) : new = Append(a.docMap[kd], e)
    <2>1. a.docMap[kd] \in Seq(Entries)
      BY DEF DocMaps
    <2> QED
      BY <2>1, AppendProperties
  <1>4. [a.docMap EXCEPT ![kd] = new] \in DocMaps
    BY DEF DocMaps
  <1>5. Len(a.docMap[kd]) + 1 \in Nat
    <2>1. a.docMap[kd] \in Seq(Entries)
      BY DEF DocMaps
    <2> QED
      BY <2>1, LenProperties
  <1>6. kd \in Kinds
    BY PathsAssumption
  <1>7. PICK place \in Places : place = [kind |-> kd, index |-> Len(a.docMap[kd]) + 1]
    BY <1>5, <1>6 DEF Places
  <1>8. Append(a.places, place) \in Seq(Places)
    BY AppendProperties
  <1>9. AddDocument(a, yaml, d)
          = [docMap |-> [a.docMap EXCEPT ![kd] = new], places |-> Append(a.places, place)]
    BY <1>1, <1>2, <1>3, <1>7 DEF AddDocument
  <1> QED
    BY <1>4, <1>8, <1>9

LEMMA AddLoopIs ==
  ASSUME NEW dm \in DocMaps, NEW yaml \in Paths, NEW docs \in Seq(Known)
  PROVE  \E h : AddLoop(dm, yaml, docs, h)
  <1>0. PICK n \in Nat : n = Len(docs)
    BY LenProperties
  <1> DEFINE V == [docMap : DocMaps, places : Seq(Places)]
             step == [i \in Nat |-> [v \in V |->
                       IF i \in 1..n THEN AddDocument(v, yaml, docs[i]) ELSE v]]
  <1>1. PICK base \in V : base = [docMap |-> dm, places |-> <<>>]
    <2>1. <<>> \in Seq(Places)
      OBVIOUS
    <2> QED
      BY <2>1
  <1>2. step \in [Nat -> [V -> V]]
    <2>1. \A i \in 1..n : docs[i] \in Known
      BY <1>0
    <2>2. \A i \in 1..n : \A v \in V : AddDocument(v, yaml, docs[i]) \in V
      BY <2>1, AddDocumentTypes
    <2> HIDE DEF V
    <2> QED
      BY <2>2
  <1>3. PICK h \in [0..n -> V] : IsLoop(h, n, base, step)
    <2> HIDE DEF V, step
    <2> QED
      BY <1>2, LoopRec
  <1>4. ASSUME NEW i \in 0..n
        PROVE  h[i] = IF i = 0 THEN base ELSE AddDocument(h[i - 1], yaml, docs[i])
    <2> HIDE DEF V
    <2>1. h[i] = IF i = 0 THEN base ELSE step[i][h[i - 1]]
      <3> HIDE DEF step
      <3> QED
        BY <1>3 DEF IsLoop
    <2>2. CASE i = 0
      BY <2>1, <2>2
    <2>3. CASE i # 0
      <3>1. i \in 1..n /\ i \in Nat /\ i - 1 \in 0..n
        BY <2>3
      <3>2. PICK v \in V : v = h[i - 1]
        BY <3>1
      <3>3. step[i][v] = AddDocument(v, yaml, docs[i])
        BY <3>1
      <3> QED
        BY <2>1, <2>3, <3>2, <3>3
    <2> QED
      BY <2>2, <2>3
  <1>5. h = [i \in 0..n |-> IF i = 0 THEN base ELSE AddDocument(h[i - 1], yaml, docs[i])]
    <2> HIDE DEF V
    <2> QED
      BY <1>4
  <1> QED
    BY <1>0, <1>1, <1>5 DEF AddLoop

(* What Add does to the index.                                             *)
AddGives(dm, fm, yaml, docs, r) ==
  \E a : /\ Added(dm, yaml, docs, Len(docs), a)
         /\ r = [docMap |-> a.docMap, fileMap |-> [fm EXCEPT ![yaml] = a.places]]
LEMMA AddToIs ==
  ASSUME NEW index, index.docMap \in DocMaps, NEW yaml \in Paths,
         disks[yaml] \in Seq(Documents)
  PROVE  /\ Detect(disks[yaml]) = <<>> => AddTo(index, yaml) = index
         /\ Detect(disks[yaml]) # <<>> =>
              AddGives(index.docMap, index.fileMap, yaml, Detect(disks[yaml]),
                       AddTo(index, yaml))
  <1>1. PICK docs \in Seq(Known) : docs = Detect(disks[yaml])
    BY DetectIs
  <1>2. PICK dm \in DocMaps : dm = index.docMap
    OBVIOUS
  <1> DEFINE h == CHOOSE g : AddLoop(dm, yaml, docs, g)
  <1>3. AddLoop(dm, yaml, docs, h)
    BY AddLoopIs
  <1>4. Added(dm, yaml, docs, Len(docs), h[Len(docs)])
    <2> HIDE DEF h
    <2> QED
      BY <1>3, AddLoopAdds
  <1>5. AddTo(index, yaml) =
          IF docs = <<>> THEN index
          ELSE [docMap |-> h[Len(docs)].docMap,
                fileMap |-> [index.fileMap EXCEPT ![yaml] = h[Len(docs)].places]]
    BY <1>1, <1>2, ZenonT(60) DEF AddTo, AddLoop
  <1> HIDE DEF h
  <1>6. ASSUME docs # <<>>
        PROVE  AddGives(dm, index.fileMap, yaml, docs, AddTo(index, yaml))
    <2>1. PICK r : r = AddTo(index, yaml)
      OBVIOUS
    <2>2. r = [docMap |-> h[Len(docs)].docMap,
               fileMap |-> [index.fileMap EXCEPT ![yaml] = h[Len(docs)].places]]
      BY <1>5, <1>6, <2>1
    <2> QED
      BY <1>4, <2>1, <2>2 DEF AddGives
  <1> QED
    BY <1>1, <1>2, <1>5, <1>6

-----------------------------------------------------------------------------
(* The places of a file are in the index; those of a file that was added   *)
(* once point at what the caller sees, and nothing else is of that file.   *)
PlacesIn(dm, places) ==
  /\ places # <<>>
  /\ \A i \in 1..Len(places) :
       places[i].kind \in KnownKinds /\ places[i].index \in 1..Len(dm[places[i].kind])
Pointed(dm, places, yaml, docs) ==
  /\ docs \in Seq(Known) /\ Unique(docs) /\ Len(places) = Len(docs)
  /\ \A i \in 1..Len(docs) : PointsAt(dm, places[i], yaml, docs[i])
Types(dm, fm, seen, twice) ==
  /\ dm \in DocMaps /\ fm \in [Paths -> Seq(Places)]
  /\ seen \in [Paths -> Seq(Documents)] /\ twice \subseteq Paths
Kept(dm, fm, seen, twice) ==
  /\ Types(dm, fm, seen, twice)
  /\ \A yaml \in Paths : fm[yaml] # NotAdded => PlacesIn(dm, fm[yaml])
  /\ \A yaml \in twice : fm[yaml] # NotAdded
  /\ \A yaml \in Paths \ twice : fm[yaml] # NotAdded =>
       Pointed(dm, fm[yaml], yaml, seen[yaml])
  /\ \A kind \in KnownKinds : \A k \in 1..Len(dm[kind]) :
       /\ fm[dm[kind][k].file] # NotAdded
       /\ dm[kind][k].file \notin twice => InPlaces(fm[dm[kind][k].file], kind, k)

LEMMA PlacesGrow ==
  ASSUME NEW dm \in DocMaps, NEW more \in DocMaps, Grows(dm, more), NEW places,
         PlacesIn(dm, places)
  PROVE  PlacesIn(more, places)
  <1>1. \A kind \in KnownKinds : Len(dm[kind]) \in Nat /\ Len(more[kind]) \in Nat
    BY LenProperties DEF DocMaps
  <1> QED
    BY <1>1 DEF PlacesIn, Grows

With(f, found, value) == [f EXCEPT ![found] = value]
Again(fm, twice, yaml) == IF fm[yaml] # NotAdded THEN twice \cup {yaml} ELSE twice
LEMMA KeptAdd ==
  ASSUME NEW dm, NEW fm, NEW seen, NEW twice, Kept(dm, fm, seen, twice),
         NEW yaml \in Paths, NEW docs \in Seq(Known), docs # <<>>,
         fm[yaml] = NotAdded => Unique(docs),
         NEW a, Added(dm, yaml, docs, Len(docs), a)
  PROVE  Kept(a.docMap, With(fm, yaml, a.places), With(seen, yaml, docs),
              Again(fm, twice, yaml))
  <1>0. PICK n \in Nat : n = Len(docs) /\ n > 0
    BY LenProperties, EmptySeq
  <1>1. PICK more \in DocMaps : more = a.docMap
    BY DEF Added
  <1>2. PICK pls \in Seq(Places) : pls = a.places
    BY DEF Added
  <1>3. PICK fm2 : fm2 = [fm EXCEPT ![yaml] = pls]
    OBVIOUS
  <1>4. PICK seen2 : seen2 = [seen EXCEPT ![yaml] = docs]
    OBVIOUS
  <1>5. PICK twice2 : twice2 = IF fm[yaml] # NotAdded THEN twice \cup {yaml} ELSE twice
    OBVIOUS
  <1>6. /\ dm \in DocMaps /\ fm \in [Paths -> Seq(Places)]
        /\ seen \in [Paths -> Seq(Documents)] /\ twice \subseteq Paths
    BY DEF Kept, Types
  <1>7. /\ Len(pls) = n /\ Grows(dm, more)
        /\ \A j \in 1..n : PointsAt(more, pls[j], yaml, docs[j])
        /\ \A kind \in KnownKinds : \A k \in 1..Len(more[kind]) :
             k > Len(dm[kind]) => more[kind][k].file = yaml /\ InPlaces(pls, kind, k)
    BY <1>0, <1>1, <1>2 DEF Added
  <1>8. \A j \in 1..n : docs[j] \in Known /\ docs[j].kind \in KnownKinds
    BY <1>0, LenProperties DEF Known
  <1>9. PlacesIn(more, pls)
    <2>1. pls # <<>>
      BY <1>0, <1>7
    <2> QED
      BY <1>7, <1>8, <2>1 DEF PlacesIn, PointsAt
  <1>10. pls # NotAdded
    <2>1. pls[1].index \in 1..Len(more[pls[1].kind])
      BY <1>0, <1>7, <1>9 DEF PlacesIn
    <2>2. NotAdded[1].index = 0
      BY DEF NotAdded
    <2> QED
      BY <2>1, <2>2
  <1>11. /\ fm2 \in [Paths -> Seq(Places)] /\ fm2[yaml] = pls
         /\ \A other \in Paths : other # yaml => fm2[other] = fm[other]
    BY <1>3, <1>6
  <1>12. /\ seen2 \in [Paths -> Seq(Documents)] /\ seen2[yaml] = docs
         /\ \A other \in Paths : other # yaml => seen2[other] = seen[other]
    <2>1. docs \in Seq(Documents)
      BY SeqOfMore DEF Known
    <2> QED
      BY <1>4, <1>6, <2>1
  <1>13. /\ twice2 \subseteq Paths /\ twice \subseteq twice2
         /\ \A other \in Paths : other # yaml => (other \in twice2 <=> other \in twice)
         /\ (fm[yaml] # NotAdded => yaml \in twice2)
         /\ (fm[yaml] = NotAdded => twice2 = twice)
    BY <1>5, <1>6
  <1>14. Types(more, fm2, seen2, twice2)
    BY <1>11, <1>12, <1>13 DEF Types
  <1>15. ASSUME NEW other \in Paths, fm2[other] # NotAdded PROVE PlacesIn(more, fm2[other])
    <2>1. CASE other = yaml
      BY <1>9, <1>11, <2>1
    <2>2. CASE other # yaml
      <3>1. fm2[other] = fm[other] /\ PlacesIn(dm, fm[other])
        BY <1>11, <1>15, <2>2 DEF Kept
      <3> QED
        BY <1>6, <1>7, <3>1, PlacesGrow
    <2> QED
      BY <2>1, <2>2
  <1>16. ASSUME NEW other \in twice2 PROVE fm2[other] # NotAdded
    BY <1>10, <1>11, <1>13 DEF Kept
  <1>17. ASSUME NEW other \in Paths \ twice2, fm2[other] # NotAdded
         PROVE  Pointed(more, fm2[other], other, seen2[other])
    <2>1. CASE other = yaml
      <3>0. fm[yaml] = NotAdded
        BY <1>13, <1>17, <2>1
      <3>1. Unique(docs)
        BY <3>0
      <3> QED
        BY <1>0, <1>7, <1>11, <1>12, <2>1, <3>1 DEF Pointed
    <2>2. CASE other # yaml
      <3>1. PICK old : old = seen[other]
        OBVIOUS
      <3>2. PICK places : places = fm[other]
        OBVIOUS
      <3>3. Pointed(dm, places, other, old)
        BY <1>11, <1>13, <1>17, <2>2, <3>1, <3>2 DEF Kept
      <3>4. ASSUME NEW i \in 1..Len(old) PROVE PointsAt(more, places[i], other, old[i])
        <4>1. old[i] \in Known /\ PointsAt(dm, places[i], other, old[i])
          BY <3>3, <3>4, LenProperties DEF Pointed
        <4> QED
          BY <1>6, <1>7, <4>1, GrowsOn
      <3>5. Pointed(more, places, other, old)
        BY <3>3, <3>4 DEF Pointed
      <3> QED
        BY <1>11, <1>12, <2>2, <3>1, <3>2, <3>5
    <2> QED
      BY <2>1, <2>2
  <1>18. ASSUME NEW kind \in KnownKinds, NEW k \in 1..Len(more[kind])
         PROVE  /\ fm2[more[kind][k].file] # NotAdded
                /\ more[kind][k].file \notin twice2 =>
                     InPlaces(fm2[more[kind][k].file], kind, k)
    <2>0. more[kind] \in Seq(Entries) /\ dm[kind] \in Seq(Entries)
      BY <1>6 DEF DocMaps
    <2>1. Len(dm[kind]) \in Nat /\ k \in Nat
      BY <2>0, LenProperties
    <2>2. CASE k > Len(dm[kind])
      BY <1>7, <1>10, <1>11, <2>2
    <2>3. CASE k \in 1..Len(dm[kind])
      <3>1. more[kind][k] = dm[kind][k]
        BY <1>7, <2>3 DEF Grows
      <3>2. PICK p0 : p0 = dm[kind][k].file
        OBVIOUS
      <3>3. p0 \in Paths
        <4>1. dm[kind][k] \in Entries
          BY <2>0, <2>3, LenProperties
        <4> QED
          BY <3>2, <4>1 DEF Entries
      <3>4. fm[p0] # NotAdded /\ (p0 \notin twice => InPlaces(fm[p0], kind, k))
        BY <2>3, <3>2 DEF Kept
      <3>5. CASE p0 = yaml
        <4>1. more[kind][k].file = yaml
          BY <3>1, <3>2, <3>5
        <4>2. yaml \in twice2
          BY <1>13, <3>4, <3>5
        <4>3. fm2[yaml] # NotAdded
          BY <1>10, <1>11
        <4> QED
          BY <4>1, <4>2, <4>3
      <3>6. CASE p0 # yaml
        BY <1>11, <1>13, <3>1, <3>2, <3>3, <3>4, <3>6
      <3> QED
        BY <3>5, <3>6
    <2> QED
      BY <2>1, <2>2, <2>3
  <1>19. Kept(more, fm2, seen2, twice2)
    BY <1>14, <1>15, <1>16, <1>17, <1>18 DEF Kept
  <1> QED
    BY <1>1, <1>2, <1>3, <1>4, <1>5, <1>19 DEF With, Again

(* Add keeps the index, also for a file without documents.                 *)
AddResult(index, seen, twice, yaml, r) ==
  /\ Kept(r.docMap, r.fileMap, With(seen, yaml, Detect(disks[yaml])),
          Again(index.fileMap, twice, yaml))
  /\ \A other \in Paths : other # yaml => r.fileMap[other] = index.fileMap[other]
LEMMA AddKeeps ==
  ASSUME NEW index, NEW seen, NEW twice, NEW yaml \in Paths,
         Kept(index.docMap, index.fileMap, seen, twice),
         disks[yaml] \in Seq(Documents),
         index.fileMap[yaml] = NotAdded => Unique(disks[yaml])
  PROVE  AddResult(index, seen, twice, yaml, AddTo(index, yaml))
  <1>1. PICK docs \in Seq(Known) : docs = Detect(disks[yaml])
    BY DetectIs
  <1>2. index.fileMap[yaml] = NotAdded => Unique(docs)
    BY <1>1, DetectIs
  <1>3. PICK dm \in DocMaps : dm = index.docMap
    BY DEF Kept, Types
  <1>4. PICK fm \in [Paths -> Seq(Places)] : fm = index.fileMap
    BY DEF Kept, Types
  <1>5. PICK r : r = AddTo(index, yaml)
    OBVIOUS
  <1>6. Kept(dm, fm, seen, twice)
    BY <1>3, <1>4
  <1>7. CASE docs = <<>>
    <2>1. r = index
      BY <1>1, <1>3, <1>5, <1>7, AddToIs
    <2>2. PICK seen2 : seen2 = With(seen, yaml, docs)
      OBVIOUS
    <2>3. PICK twice2 : twice2 = Again(fm, twice, yaml)
      OBVIOUS
    <2>4. /\ twice2 \subseteq Paths /\ twice \subseteq twice2
          /\ \A other \in twice2 : other = yaml \/ other \in twice
          /\ fm[yaml] # NotAdded => yaml \in twice2
          /\ yaml \in twice2 => fm[yaml] # NotAdded
      BY <1>6, <2>3 DEF Again, Kept, Types
    <2>5. /\ seen2 \in [Paths -> Seq(Documents)]
          /\ \A other \in Paths : other # yaml => seen2[other] = seen[other]
      <3>1. seen \in [Paths -> Seq(Documents)]
        BY <1>6 DEF Kept, Types
      <3>2. docs \in Seq(Documents)
        BY SeqOfMore DEF Known
      <3> QED
        BY <2>2, <3>1, <3>2 DEF With
    <2>6. Types(dm, fm, seen2, twice2)
      BY <1>6, <2>4, <2>5 DEF Types
    <2>7. \A other \in twice2 : fm[other] # NotAdded
      BY <1>6, <2>4 DEF Kept
    <2>8. ASSUME NEW other \in Paths \ twice2, fm[other] # NotAdded
          PROVE  Pointed(dm, fm[other], other, seen2[other])
      <3>1. other # yaml /\ other \in Paths \ twice
        BY <2>4, <2>8
      <3> QED
        BY <1>6, <2>5, <2>8, <3>1 DEF Kept
    <2>9. Kept(dm, fm, seen2, twice2)
      BY <1>6, <2>4, <2>6, <2>7, <2>8 DEF Kept
    <2> QED
      BY <1>1, <1>3, <1>4, <1>5, <2>1, <2>2, <2>3, <2>9 DEF AddResult
  <1>8. CASE docs # <<>>
    <2>1. PICK a : /\ Added(dm, yaml, docs, Len(docs), a)
                   /\ r.docMap = a.docMap /\ r.fileMap = [fm EXCEPT ![yaml] = a.places]
      <3>1. AddGives(dm, fm, yaml, docs, r)
        BY <1>1, <1>3, <1>4, <1>5, <1>8, AddToIs
      <3>2. PICK a : /\ Added(dm, yaml, docs, Len(docs), a)
                     /\ r = [docMap |-> a.docMap,
                             fileMap |-> [fm EXCEPT ![yaml] = a.places]]
        BY <3>1, Zenon DEF AddGives
      <3> QED
        BY <3>2
    <2>2. Kept(a.docMap, With(fm, yaml, a.places), With(seen, yaml, docs),
               Again(fm, twice, yaml))
      BY <1>2, <1>4, <1>6, <1>8, <2>1, KeptAdd
    <2>3. r.fileMap = With(fm, yaml, a.places)
      BY <2>1 DEF With
    <2>4. \A other \in Paths : other # yaml => r.fileMap[other] = fm[other]
      BY <2>1
    <2> QED
      BY <1>1, <1>4, <1>5, <2>1, <2>2, <2>3, <2>4 DEF AddResult
  <1> QED
    BY <1>7, <1>8

(* The walk goes to every file once.                                       *)
LEMMA WalkIs ==
  /\ Len(Walk) \in Nat
  /\ \A i \in 1..Len(Walk) : Walk[i] \in Paths
  /\ \A i, j \in 1..Len(Walk) : Walk[i] = Walk[j] => i = j
  /\ \A yaml \in Paths : \E i \in 1..Len(Walk) : Walk[i] = yaml
  <1>1. PICK n \in Nat : n = Cardinality(Paths)
    BY PathsAssumption, FS_CardinalityType
  <1>2. ExistsBijection(1..n, Paths)
    BY <1>1, PathsAssumption, FS_CardinalityType
  <1>3. \E f \in [1..n -> Paths] : IsInjective(f)
    BY <1>2 DEF ExistsBijection, Bijection, Injection, IsInjective
  <1>4. Walk \in [1..n -> Paths] /\ IsInjective(Walk)
    BY <1>1, <1>3 DEF Walk, SetToSeq
  <1>5. Len(Walk) = n
    BY <1>4
  <1>6. IsFiniteSet(1..n) /\ Cardinality(1..n) = n
    BY FS_Interval
  <1>7. Walk \in Injection(1..n, Paths)
    BY <1>4 DEF Injection, IsInjective
  <1>8. Walk \in Surjection(1..n, Paths)
    BY <1>1, <1>6, <1>7, PathsAssumption, FS_Injection
  <1> QED
    BY <1>4, <1>5, <1>8 DEF IsInjective, Surjection

Indexes == [docMap : DocMaps, fileMap : [Paths -> Seq(Places)]]
LEMMA AddToTypes ==
  ASSUME NEW index \in Indexes, NEW yaml \in Paths, disks[yaml] \in Seq(Documents)
  PROVE  AddTo(index, yaml) \in Indexes
  <1>1. PICK docs : docs = Detect(disks[yaml])
    OBVIOUS
  <1>2. index.docMap \in DocMaps /\ index.fileMap \in [Paths -> Seq(Places)]
    BY DEF Indexes
  <1>3. CASE docs = <<>>
    BY <1>1, <1>2, <1>3, AddToIs
  <1>4. CASE docs # <<>>
    <2>1. AddGives(index.docMap, index.fileMap, yaml, docs, AddTo(index, yaml))
      BY <1>1, <1>2, <1>4, AddToIs
    <2>2. PICK a : /\ Added(index.docMap, yaml, docs, Len(docs), a)
                   /\ AddTo(index, yaml) =
                        [docMap |-> a.docMap,
                         fileMap |-> [index.fileMap EXCEPT ![yaml] = a.places]]
      BY <2>1 DEF AddGives
    <2>3. a.docMap \in DocMaps /\ a.places \in Seq(Places)
      BY <2>2 DEF Added
    <2>4. [index.fileMap EXCEPT ![yaml] = a.places] \in [Paths -> Seq(Places)]
      BY <1>2, <2>3
    <2> QED
      BY <2>2, <2>3, <2>4 DEF Indexes
  <1> QED
    BY <1>3, <1>4

(* The loop of Scan.                                                       *)
ScanLoop(h) ==
  h = [i \in 0..Len(Walk) |-> IF i = 0 THEN Index ELSE AddTo(h[i - 1], Walk[i])]
LEMMA ScanLoopIs ==
  ASSUME disks \in [Paths -> Seq(Documents)], Index \in Indexes
  PROVE  /\ ScanLoop(CHOOSE h : ScanLoop(h))
         /\ Scanned = (CHOOSE h : ScanLoop(h))[Len(Walk)]
  <1>0. PICK n \in Nat : n = Len(Walk)
    BY WalkIs
  <1> DEFINE V == Indexes
             step == [i \in Nat |-> [v \in V |->
                       IF i \in 1..n THEN AddTo(v, Walk[i]) ELSE v]]
  <1>1. PICK base \in V : base = Index
    OBVIOUS
  <1>2. step \in [Nat -> [V -> V]]
    <2>1. \A i \in 1..n : \A v \in V : AddTo(v, Walk[i]) \in V
      BY <1>0, WalkIs, AddToTypes
    <2> HIDE DEF V
    <2> QED
      BY <2>1
  <1>3. PICK h \in [0..n -> V] : IsLoop(h, n, base, step)
    <2> HIDE DEF V, step
    <2> QED
      BY <1>2, LoopRec
  <1>4. ASSUME NEW i \in 0..n
        PROVE  h[i] = IF i = 0 THEN Index ELSE AddTo(h[i - 1], Walk[i])
    <2> HIDE DEF V
    <2>1. h[i] = IF i = 0 THEN base ELSE step[i][h[i - 1]]
      <3> HIDE DEF step
      <3> QED
        BY <1>3 DEF IsLoop
    <2>2. CASE i = 0
      BY <1>1, <2>1, <2>2
    <2>3. CASE i # 0
      <3>1. i \in 1..n /\ i \in Nat /\ i - 1 \in 0..n
        BY <2>3
      <3>2. PICK v \in V : v = h[i - 1]
        BY <3>1
      <3>3. step[i][v] = AddTo(v, Walk[i])
        BY <3>1
      <3> QED
        BY <2>1, <2>3, <3>2, <3>3
    <2> QED
      BY <2>2, <2>3
  <1>5. h = [i \in 0..n |-> IF i = 0 THEN Index ELSE AddTo(h[i - 1], Walk[i])]
    <2> HIDE DEF V
    <2> QED
      BY <1>4
  <1>6. ScanLoop(h)
    BY <1>0, <1>5 DEF ScanLoop
  <1>7. ScanLoop(CHOOSE g : ScanLoop(g))
    BY <1>6
  <1>8. Scanned = (CHOOSE g : ScanLoop(g))[Len(Walk)]
    BY Zenon DEF Scanned, ScanLoop
  <1> QED
    BY <1>7, <1>8

(* The files that the walk has passed.                                     *)
Passed(i) == {yaml \in Paths : \E j \in 1..i : Walk[j] = yaml}
SeenFrom(files) ==
  [yaml \in Paths |-> IF yaml \in files THEN Detect(disks[yaml]) ELSE wanted[yaml]]
AgainFrom(files) == again \cup {yaml \in files : fileMap[yaml] # NotAdded}
ScanKept(i, index) ==
  /\ Kept(index.docMap, index.fileMap, SeenFrom(Passed(i)), AgainFrom(Passed(i)))
  /\ \A yaml \in Paths \ Passed(i) : index.fileMap[yaml] = fileMap[yaml]

LEMMA ScanStep ==
  ASSUME NEW n \in Nat, n = Len(Walk), NEW i \in 0..n - 1,
         disks \in [Paths -> Seq(Documents)],
         wanted \in [Paths -> Seq(Documents)],
         \A yaml \in Paths : fileMap[yaml] = NotAdded => Unique(disks[yaml]),
         NEW index, ScanKept(i, index)
  PROVE  ScanKept(i + 1, AddTo(index, Walk[i + 1]))
  <1>1. PICK yaml \in Paths : yaml = Walk[i + 1]
    BY WalkIs
  <1>2. yaml \notin Passed(i)
    <2> SUFFICES ASSUME NEW j \in 1..i, Walk[j] = yaml PROVE FALSE
      BY DEF Passed
    <2>1. j \in 1..n /\ i + 1 \in 1..n /\ j # i + 1
      OBVIOUS
    <2> QED
      BY <1>1, <2>1, WalkIs
  <1>3. Passed(i + 1) = Passed(i) \cup {yaml}
    <2>1. \A j \in 1..i + 1 : j \in 1..i \/ j = i + 1
      OBVIOUS
    <2>2. i + 1 \in 1..i + 1 /\ \A j \in 1..i : j \in 1..i + 1
      OBVIOUS
    <2> QED
      BY <1>1, <2>1, <2>2 DEF Passed
  <1>4. PICK S : S = Passed(i)
    OBVIOUS
  <1>5. S \subseteq Paths
    BY <1>4 DEF Passed
  <1>6. PICK seen : seen = SeenFrom(S)
    OBVIOUS
  <1>7. PICK twice : twice = AgainFrom(S)
    OBVIOUS
  <1>8. PICK r : r = AddTo(index, yaml)
    OBVIOUS
  <1>9. /\ Kept(index.docMap, index.fileMap, seen, twice)
        /\ \A other \in Paths \ S : index.fileMap[other] = fileMap[other]
    BY <1>4, <1>6, <1>7 DEF ScanKept
  <1>10. index.fileMap[yaml] = fileMap[yaml]
    BY <1>2, <1>4, <1>9
  <1>11. AddResult(index, seen, twice, yaml, r)
    BY <1>8, <1>9, <1>10, AddKeeps
  <1>12. With(seen, yaml, Detect(disks[yaml])) = SeenFrom(S \cup {yaml})
    BY <1>5, <1>6 DEF With, SeenFrom
  <1>13. Again(index.fileMap, twice, yaml) = AgainFrom(S \cup {yaml})
    BY <1>7, <1>10 DEF Again, AgainFrom
  <1>14. Kept(r.docMap, r.fileMap, SeenFrom(S \cup {yaml}), AgainFrom(S \cup {yaml}))
    BY <1>11, <1>12, <1>13 DEF AddResult
  <1>15. \A other \in Paths \ (S \cup {yaml}) : r.fileMap[other] = fileMap[other]
    BY <1>9, <1>11 DEF AddResult
  <1> QED
    BY <1>1, <1>3, <1>4, <1>8, <1>14, <1>15 DEF ScanKept

LEMMA ScanKeeps ==
  ASSUME disks \in [Paths -> Seq(Documents)],
         \A yaml \in Paths : fileMap[yaml] = NotAdded => Unique(disks[yaml]),
         Kept(docMap, fileMap, wanted, again)
  PROVE  ScanKept(Len(Walk), Scanned)
  <1>0. PICK n \in Nat : n = Len(Walk)
    BY WalkIs
  <1>1. /\ docMap \in DocMaps /\ fileMap \in [Paths -> Seq(Places)]
        /\ wanted \in [Paths -> Seq(Documents)]
    BY DEF Kept, Types
  <1>2. Index \in Indexes
    BY <1>1 DEF Index, Indexes
  <1> DEFINE h == CHOOSE g : ScanLoop(g)
  <1>3. ScanLoop(h) /\ Scanned = h[n]
    BY <1>0, <1>2, ScanLoopIs
  <1> HIDE DEF h
  <1> DEFINE T == {i \in 0..n : ScanKept(i, h[i])}
  <1>4. 0 \in T
    <2>1. h[0] = Index
      BY <1>0, <1>3 DEF ScanLoop
    <2>2. Passed(0) = {}
      BY DEF Passed
    <2>3. SeenFrom({}) = wanted /\ AgainFrom({}) = again
      BY <1>1 DEF SeenFrom, AgainFrom
    <2>4. Index.docMap = docMap /\ Index.fileMap = fileMap
      BY DEF Index
    <2>5. ScanKept(0, Index)
      BY <2>2, <2>3, <2>4 DEF ScanKept
    <2> QED
      BY <2>1, <2>5
  <1>5. ASSUME NEW i \in 0..n - 1, i \in T PROVE i + 1 \in T
    <2>1. PICK index : index = h[i]
      OBVIOUS
    <2>2. ScanKept(i + 1, AddTo(index, Walk[i + 1]))
      BY <1>0, <1>1, <1>5, <2>1, ScanStep
    <2>3. h[i + 1] = AddTo(h[i], Walk[i + 1])
      <3>1. i + 1 \in 0..n /\ i + 1 # 0 /\ (i + 1) - 1 = i
        OBVIOUS
      <3> QED
        BY <1>0, <1>3, <3>1 DEF ScanLoop
    <2> QED
      BY <2>1, <2>2, <2>3
  <1> HIDE DEF T
  <1>6. n \in T
    BY <1>4, <1>5, LoopInd
  <1> QED
    BY <1>0, <1>3, <1>6 DEF T

-----------------------------------------------------------------------------
(* The documents of the file that is written, so far.                      *)
WrittenSoFar(content, docs, upTo) ==
  Len(content) = upTo - 1 /\ \A i \in 1..upTo - 1 : content[i] = docs[i]
SaveOn ==
  /\ todo \in Seq({yaml \in Paths : fileMap[yaml] # NotAdded})
  /\ doc \in Nat /\ doc >= 1
  /\ IF todo = <<>> THEN doc = 1
     ELSE /\ doc <= Len(fileMap[todo[1]])
          /\ doc > 1 /\ todo[1] \notin again =>
               WrittenSoFar(disks[todo[1]], wanted[todo[1]], doc)
FreshDisks == \A yaml \in Paths : fileMap[yaml] = NotAdded => Unique(disks[yaml])
IndexInv ==
  /\ disks \in [Paths -> Seq(Documents)]
  /\ Kept(docMap, fileMap, wanted, again)
  /\ FreshDisks
  /\ saved \subseteq Paths
  /\ saveList \subseteq {yaml \in Paths : fileMap[yaml] # NotAdded}
  /\ SaveOn
  /\ \A yaml \in saved \ again : disks[yaml] = wanted[yaml]

LEMMA IndexStarts == IndexInit => IndexInv
  <1> SUFFICES ASSUME IndexInit PROVE IndexInv
    OBVIOUS
  <1>1. /\ disks \in Disks /\ docMap = [kind \in KnownKinds |-> <<>>]
        /\ fileMap = [yaml \in Paths |-> NotAdded]
        /\ saveList = {} /\ todo = <<>> /\ doc = 1
        /\ wanted = [yaml \in Paths |-> <<>>] /\ again = {} /\ saved = {}
    BY DEF IndexInit
  <1>2. disks \in [Paths -> Seq(Documents)] /\ FreshDisks
    BY <1>1, DisksAssumption DEF FreshDisks
  <1>3. Types(docMap, fileMap, wanted, again)
    <2>1. docMap \in DocMaps
      BY <1>1 DEF DocMaps
    <2>2. NotAdded \in Seq(Places)
      <3>1. [kind |-> "none", index |-> 0] \in Places
        BY DEF Places
      <3> QED
        BY <3>1 DEF NotAdded
    <2>3. fileMap \in [Paths -> Seq(Places)]
      BY <1>1, <2>2
    <2>4. wanted \in [Paths -> Seq(Documents)]
      BY <1>1
    <2> QED
      BY <1>1, <2>1, <2>3, <2>4 DEF Types
  <1>4. Kept(docMap, fileMap, wanted, again)
    <2>1. \A kind \in KnownKinds : Len(docMap[kind]) = 0
      BY <1>1
    <2> QED
      BY <1>1, <1>3, <2>1 DEF Kept
  <1>5. SaveOn
    BY <1>1 DEF SaveOn
  <1> QED
    BY <1>1, <1>2, <1>4, <1>5 DEF IndexInv

LEMMA IndexMeans == IndexInv => SavesWhatIsSeen
  <1> SUFFICES ASSUME IndexInv PROVE SavesWhatIsSeen
    OBVIOUS
  <1>1. \A yaml \in Paths : fileMap[yaml] # NotAdded =>
          \A place \in Range(fileMap[yaml]) : place.index \in DOMAIN docMap[place.kind]
    <2> SUFFICES ASSUME NEW yaml \in Paths, fileMap[yaml] # NotAdded,
                        NEW place \in Range(fileMap[yaml])
                 PROVE  place.index \in DOMAIN docMap[place.kind]
      OBVIOUS
    <2>1. PlacesIn(docMap, fileMap[yaml])
      BY DEF IndexInv, Kept
    <2>2. fileMap[yaml] \in Seq(Places) /\ docMap \in DocMaps
      BY DEF IndexInv, Kept, Types
    <2>3. PICK i \in 1..Len(fileMap[yaml]) : place = fileMap[yaml][i]
      BY <2>2, LenProperties DEF Range
    <2>4. place.kind \in KnownKinds /\ place.index \in 1..Len(docMap[place.kind])
      BY <2>1, <2>3 DEF PlacesIn
    <2>5. docMap[place.kind] \in Seq(Entries)
      BY <2>2, <2>4 DEF DocMaps
    <2> QED
      BY <2>4, <2>5, LenProperties
  <1>2. Range(todo) \subseteq {yaml \in Paths : fileMap[yaml] # NotAdded}
    <2>1. PICK S : S = {yaml \in Paths : fileMap[yaml] # NotAdded}
      OBVIOUS
    <2>2. todo \in Seq(S)
      BY <2>1 DEF IndexInv, SaveOn
    <2>3. Range(todo) \subseteq S
      BY <2>2, LenProperties DEF Range
    <2> QED
      BY <2>1, <2>3
  <1>3. Idle => doc = 1
    BY DEF IndexInv, SaveOn, Idle
  <1> QED
    BY <1>1, <1>2, <1>3 DEF IndexInv, SavesWhatIsSeen, IndexTypeOK

(* What Add and Scan do with the rest.                                     *)
LEMMA ReadFilesKeeps ==
  ASSUME IndexInv, Idle, NEW files \in SUBSET Paths, NEW index, Read(files, index),
         Kept(index.docMap, index.fileMap, SeenFrom(files), AgainFrom(files)),
         \A yaml \in Paths \ files : index.fileMap[yaml] = fileMap[yaml]
  PROVE  IndexInv'
  <1>1. /\ docMap' = index.docMap /\ fileMap' = index.fileMap
        /\ wanted' = SeenFrom(files) /\ again' = AgainFrom(files)
        /\ saved' = saved \ files
        /\ disks' = disks /\ saveList' = saveList /\ todo' = todo /\ doc' = doc
    BY DEF Read, SeenFrom, AgainFrom
  <1>2. Kept(docMap', fileMap', wanted', again')
    BY <1>1
  <1>3. \A yaml \in Paths : fileMap[yaml] # NotAdded => fileMap'[yaml] # NotAdded
    <2> SUFFICES ASSUME NEW yaml \in Paths, fileMap[yaml] # NotAdded
                 PROVE  fileMap'[yaml] # NotAdded
      OBVIOUS
    <2>1. CASE yaml \in files
      <3>1. yaml \in again'
        BY <1>1, <2>1 DEF AgainFrom
      <3> QED
        BY <1>2, <3>1 DEF Kept
    <2>2. CASE yaml \notin files
      BY <1>1, <2>2
    <2> QED
      BY <2>1, <2>2
  <1>4. FreshDisks'
    BY <1>1, <1>3 DEF IndexInv, FreshDisks
  <1>5. /\ saved' \subseteq Paths
        /\ saveList' \subseteq {yaml \in Paths : fileMap'[yaml] # NotAdded}
    BY <1>1, <1>3 DEF IndexInv
  <1>6. SaveOn'
    BY <1>1 DEF IndexInv, SaveOn, Idle
  <1>7. \A yaml \in saved' \ again' : disks'[yaml] = wanted'[yaml]
    BY <1>1 DEF IndexInv, SeenFrom, AgainFrom
  <1> QED
    BY <1>1, <1>2, <1>4, <1>5, <1>6, <1>7 DEF IndexInv

LEMMA AddStep ==
  ASSUME IndexInv, NEW yaml \in Paths, Add(yaml)
  PROVE  IndexInv'
  <1>1. PICK index : index = AddTo(Index, yaml)
    OBVIOUS
  <1>2. Idle /\ Read({yaml}, index)
    BY <1>1 DEF Add
  <1>3. Index.docMap = docMap /\ Index.fileMap = fileMap
    BY DEF Index
  <1>4. PICK before : before = Index
    OBVIOUS
  <1>5. AddResult(before, wanted, again, yaml, AddTo(before, yaml))
    <2>1. Kept(before.docMap, before.fileMap, wanted, again)
      BY <1>3, <1>4 DEF IndexInv
    <2>2. disks[yaml] \in Seq(Documents)
      BY DEF IndexInv
    <2>3. before.fileMap[yaml] = NotAdded => Unique(disks[yaml])
      BY <1>3, <1>4 DEF IndexInv, FreshDisks
    <2> QED
      BY <2>1, <2>2, <2>3, AddKeeps
  <1>6. wanted \in [Paths -> Seq(Documents)]
    BY DEF IndexInv, Kept, Types
  <1>7. With(wanted, yaml, Detect(disks[yaml])) = SeenFrom({yaml})
    BY <1>6 DEF With, SeenFrom
  <1>8. Again(fileMap, again, yaml) = AgainFrom({yaml})
    BY DEF Again, AgainFrom
  <1>9. /\ Kept(index.docMap, index.fileMap, SeenFrom({yaml}), AgainFrom({yaml}))
        /\ \A other \in Paths \ {yaml} : index.fileMap[other] = fileMap[other]
    BY <1>1, <1>3, <1>4, <1>5, <1>7, <1>8 DEF AddResult
  <1> QED
    BY <1>2, <1>9, ReadFilesKeeps

LEMMA ScanStepKeeps ==
  ASSUME IndexInv, Scan
  PROVE  IndexInv'
  <1>1. Idle /\ Read(Paths, Scanned)
    BY DEF Scan
  <1>2. ScanKept(Len(Walk), Scanned)
    BY ScanKeeps DEF IndexInv, FreshDisks
  <1>3. Passed(Len(Walk)) = Paths
    BY WalkIs DEF Passed
  <1> QED
    BY <1>1, <1>2, <1>3, ReadFilesKeeps DEF ScanKept

(* What is found is in the index.                                          *)
LEMMA FoundIs ==
  ASSUME docMap \in DocMaps, NEW kind \in KnownKinds
  PROVE  /\ \A name : FindByName(kind, name) # 0 =>
              FindByName(kind, name) \in 1..Len(docMap[kind])
         /\ \A labels : FindByLabel(kind, labels) # 0 =>
              FindByLabel(kind, labels) \in 1..Len(docMap[kind])
  <1>1. PICK n \in Nat : n = Len(docMap[kind])
    BY LenProperties DEF DocMaps
  <1>2. ASSUME NEW I \in SUBSET (1..n), I # {} PROVE Min(I) \in 1..n
    <2>1. I \in SUBSET Nat
      OBVIOUS
    <2>2. PICK m \in I : \A k \in I : m <= k
      BY <1>2, <2>1, LeastNat
    <2>3. Min(I) \in I
      BY <2>2 DEF Min
    <2> QED
      BY <2>3
  <1>3. ASSUME NEW name, FindByName(kind, name) # 0
        PROVE  FindByName(kind, name) \in 1..n
    BY <1>1, <1>2, <1>3 DEF FindByName, SelectInSeq
  <1>4. ASSUME NEW labels, FindByLabel(kind, labels) # 0
        PROVE  FindByLabel(kind, labels) \in 1..n
    BY <1>1, <1>2, <1>4 DEF FindByLabel, SelectInSeq
  <1> QED
    BY <1>1, <1>3, <1>4

(* A document, the index and what the caller sees, with another spec.      *)
LEMMA EditKeeps ==
  ASSUME IndexInv, NEW kind \in KnownKinds, NEW found \in 1..Len(docMap[kind]),
         NEW spec \in Specs, Edit(kind, found, spec)
  PROVE  IndexInv'
  <1>1. PICK dm \in DocMaps : dm = docMap
    BY DEF IndexInv, Kept, Types
  <1>2. PICK fm \in [Paths -> Seq(Places)] : fm = fileMap
    BY DEF IndexInv, Kept, Types
  <1>3. PICK seen \in [Paths -> Seq(Documents)] : seen = wanted
    BY DEF IndexInv, Kept, Types
  <1>4. Kept(dm, fm, seen, again) /\ again \subseteq Paths
    BY <1>1, <1>2, <1>3 DEF IndexInv, Kept, Types
  <1>5. PICK old \in Seq(Entries) : old = dm[kind]
    BY DEF DocMaps
  <1>6. PICK n \in Nat : n = Len(old)
    BY LenProperties
  <1>7. found \in 1..n
    BY <1>1, <1>5, <1>6
  <1>8. PICK e \in Entries : e = old[found]
    BY <1>6, <1>7, LenProperties
  <1>9. PICK path \in Paths : path = e.file
    BY DEF Entries
  <1>10. PICK d \in Documents : d = e.doc
    BY DEF Entries
  <1>11. PICK name : name = d.name
    OBVIOUS
  <1>12. PICK d2 \in Documents : d2 = [d EXCEPT !.spec = spec]
    BY DEF Documents
  <1>13. d2.kind = d.kind /\ d2.name = d.name
    BY <1>12 DEF Documents
  <1>14. PICK e2 \in Entries : e2 = [e EXCEPT !.doc = d2]
    BY DEF Entries
  <1>15. e2 = [file |-> path, doc |-> d2] /\ e = [file |-> path, doc |-> d]
    BY <1>9, <1>10, <1>14 DEF Entries
  <1>16. PICK new : new = [old EXCEPT ![found] = e2]
    OBVIOUS
  <1>17. /\ new \in Seq(Entries) /\ Len(new) = n /\ new[found] = e2
         /\ \A k \in 1..n : k # found => new[k] = old[k]
    BY <1>6, <1>7, <1>16, LenProperties
  <1>18. PICK dm2 : dm2 = [dm EXCEPT ![kind] = new]
    OBVIOUS
  <1>19. /\ dm2 \in DocMaps /\ dm2[kind] = new
         /\ \A other \in KnownKinds : other # kind => dm2[other] = dm[other]
    BY <1>17, <1>18 DEF DocMaps
  <1>20. docMap' = dm2
    BY <1>1, <1>5, <1>8, <1>10, <1>12, <1>14, <1>16, <1>18 DEF Edit
  <1>21. PICK docs \in Seq(Documents) : docs = seen[path]
    OBVIOUS
  <1>22. PICK m \in Nat : m = Len(docs)
    BY LenProperties
  <1> DEFINE Is(x) == x.kind = kind /\ x.name = name
  <1>23. PICK docs2 : docs2 = [i \in DOMAIN docs |->
                               IF Is(docs[i]) THEN [docs[i] EXCEPT !.spec = spec] ELSE docs[i]]
    OBVIOUS
  <1>24. PICK seen2 : seen2 = [seen EXCEPT ![path] = docs2]
    OBVIOUS
  <1>25. wanted' = seen2
    BY <1>1, <1>3, <1>5, <1>8, <1>9, <1>10, <1>11, <1>21, <1>23, <1>24 DEF Edit
  <1>26. DOMAIN docs = 1..m /\ \A i \in 1..m : docs[i] \in Documents
    BY <1>22, LenProperties
  <1>27. /\ docs2 \in Seq(Documents) /\ Len(docs2) = m /\ DOMAIN docs2 = 1..m
         /\ \A i \in 1..m : docs2[i].kind = docs[i].kind /\ docs2[i].name = docs[i].name
         /\ \A i \in 1..m : ~Is(docs[i]) => docs2[i] = docs[i]
         /\ \A i \in 1..m : Is(docs[i]) => docs2[i] = [docs[i] EXCEPT !.spec = spec]
    <2>1. \A x \in Documents : [x EXCEPT !.spec = spec] \in Documents
      BY DEF Documents
    <2>2. \A x \in Documents : /\ [x EXCEPT !.spec = spec].kind = x.kind
                               /\ [x EXCEPT !.spec = spec].name = x.name
      BY DEF Documents
    <2> HIDE DEF Is
    <2>3. docs2 \in [1..m -> Documents]
      BY <1>23, <1>26, <2>1
    <2>4. \A i \in 1..m :
            docs2[i] = IF Is(docs[i]) THEN [docs[i] EXCEPT !.spec = spec] ELSE docs[i]
      BY <1>23, <1>26
    <2>5. docs2 \in Seq(Documents) /\ Len(docs2) = m /\ DOMAIN docs2 = 1..m
      BY <2>3
    <2>6. ASSUME NEW i \in 1..m
          PROVE  docs2[i].kind = docs[i].kind /\ docs2[i].name = docs[i].name
      <3>1. PICK x \in Documents : x = docs[i]
        BY <1>26
      <3>2. docs2[i] = IF Is(x) THEN [x EXCEPT !.spec = spec] ELSE x
        BY <2>4, <3>1
      <3> QED
        BY <2>2, <3>1, <3>2
    <2> QED
      BY <2>4, <2>5, <2>6
  <1>28. /\ seen2 \in [Paths -> Seq(Documents)] /\ seen2[path] = docs2
         /\ \A yaml \in Paths : yaml # path => seen2[yaml] = seen[yaml]
    BY <1>24, <1>27
  <1>29. Types(dm2, fm, seen2, again)
    BY <1>4, <1>19, <1>28 DEF Types
  <1>30. \A other \in KnownKinds : Len(dm2[other]) = Len(dm[other])
    BY <1>5, <1>6, <1>17, <1>19
  <1>31. \A yaml \in Paths : fm[yaml] # NotAdded => PlacesIn(dm2, fm[yaml])
    BY <1>4, <1>30 DEF Kept, PlacesIn
  <1>32. ASSUME NEW other \in KnownKinds, NEW k \in 1..Len(dm[other]),
                ~(other = kind /\ k = found)
         PROVE  dm2[other][k] = dm[other][k]
    BY <1>5, <1>6, <1>17, <1>19, <1>32
  <1>33. ASSUME NEW place, NEW yaml, NEW x \in Known, PointsAt(dm, place, yaml, x),
                ~(x.kind = kind /\ place.index = found)
         PROVE  PointsAt(dm2, place, yaml, x)
    <2>1. x.kind \in KnownKinds
      BY DEF Known
    <2> QED
      BY <1>30, <1>32, <1>33, <2>1 DEF PointsAt
  <1>34. ASSUME NEW yaml \in Paths \ again, fm[yaml] # NotAdded
         PROVE  Pointed(dm2, fm[yaml], yaml, seen2[yaml])
    <2>1. Pointed(dm, fm[yaml], yaml, seen[yaml])
      BY <1>4, <1>34 DEF Kept
    <2>2. PICK places : places = fm[yaml]
      OBVIOUS
    <2>3. CASE yaml # path
      <3>1. PICK xs : xs = seen[yaml]
        OBVIOUS
      <3>2. Pointed(dm, places, yaml, xs)
        BY <2>1, <2>2, <3>1
      <3>3. ASSUME NEW i \in 1..Len(xs) PROVE PointsAt(dm2, places[i], yaml, xs[i])
        <4>1. xs[i] \in Known /\ PointsAt(dm, places[i], yaml, xs[i])
          BY <3>2, <3>3, LenProperties DEF Pointed
        <4>2. ~(xs[i].kind = kind /\ places[i].index = found)
          BY <1>5, <1>8, <1>9, <2>3, <4>1 DEF PointsAt
        <4> QED
          BY <1>33, <4>1, <4>2
      <3>4. Pointed(dm2, places, yaml, xs)
        BY <3>2, <3>3 DEF Pointed
      <3> QED
        BY <1>28, <2>2, <2>3, <3>1, <3>4
    <2>4. CASE yaml = path
      <3>1. Pointed(dm, places, path, docs)
        BY <1>21, <2>1, <2>2, <2>4
      <3>2. /\ Unique(docs) /\ Len(places) = m /\ docs \in Seq(Known)
            /\ \A i \in 1..m : docs[i] \in Known /\ PointsAt(dm, places[i], path, docs[i])
        BY <1>22, <3>1, LenProperties DEF Pointed
      <3>3. PICK i0 \in 1..m : places[i0].kind = kind /\ places[i0].index = found
        <4>1. dm[kind][found].file = path /\ path \notin again /\ found \in 1..Len(dm[kind])
          BY <1>5, <1>6, <1>7, <1>8, <1>9, <1>34, <2>4
        <4>2. InPlaces(places, kind, found)
          BY <1>4, <2>2, <2>4, <4>1 DEF Kept
        <4> QED
          BY <3>2, <4>2 DEF InPlaces
      <3>4. docs[i0] = d /\ d.kind = kind
        <4>1. places[i0].kind = docs[i0].kind
              /\ dm[docs[i0].kind][places[i0].index] = [file |-> path, doc |-> docs[i0]]
          BY <3>2 DEF PointsAt
        <4>2. e = [file |-> path, doc |-> docs[i0]]
          BY <1>5, <1>8, <3>3, <4>1
        <4> QED
          BY <1>10, <3>3, <4>1, <4>2
      <3>5. \A i \in 1..m : Is(docs[i]) <=> i = i0
        BY <1>11, <1>26, <3>2, <3>4 DEF Unique
      <3>6. docs2[i0] = d2
        BY <1>12, <1>27, <3>4, <3>5
      <3>7. ASSUME NEW i \in 1..m PROVE PointsAt(dm2, places[i], path, docs2[i])
        <4>1. CASE i = i0
          <5>1. places[i0].kind = d2.kind /\ d2.kind = kind
            BY <1>13, <3>3, <3>4
          <5>2. places[i0].index \in 1..Len(dm2[kind])
            BY <1>6, <1>7, <1>17, <1>19, <3>3
          <5>3. dm2[kind][found] = [file |-> path, doc |-> d2]
            BY <1>15, <1>17, <1>19
          <5> QED
            BY <3>3, <3>6, <4>1, <5>1, <5>2, <5>3 DEF PointsAt
        <4>2. CASE i # i0
          <5>1. docs2[i] = docs[i]
            BY <1>27, <3>5, <4>2
          <5>2. ~(docs[i].kind = kind /\ places[i].index = found)
            <6> SUFFICES ASSUME docs[i].kind = kind, places[i].index = found PROVE FALSE
              OBVIOUS
            <6>1. e = [file |-> path, doc |-> docs[i]]
              BY <1>5, <1>8, <3>2 DEF PointsAt
            <6>2. docs[i] = d
              BY <1>10, <6>1
            <6> QED
              BY <1>11, <3>4, <3>5, <4>2, <6>2
          <5> QED
            BY <1>33, <3>2, <5>1, <5>2
        <4> QED
          BY <4>1, <4>2
      <3>8. docs2 \in Seq(Known)
        <4>1. \A i \in 1..m : docs2[i] \in Known
          <5>1. \A i \in 1..m : docs2[i] \in Documents
            BY <1>27, LenProperties
          <5> QED
            BY <1>27, <3>2, <5>1 DEF Known
        <4>2. docs2 \in [1..m -> Known]
          <5>1. docs2 \in [1..m -> Documents]
            BY <1>27, LenProperties
          <5> QED
            BY <4>1, <5>1
        <4> QED
          BY <4>2
      <3>9. Unique(docs2)
        BY <1>26, <1>27, <3>2 DEF Unique
      <3>10. Pointed(dm2, places, path, docs2)
        BY <1>27, <3>2, <3>7, <3>8, <3>9 DEF Pointed
      <3> QED
        BY <1>28, <2>2, <2>4, <3>10
    <2> QED
      BY <2>3, <2>4
  <1>35. ASSUME NEW other \in KnownKinds, NEW k \in 1..Len(dm2[other])
         PROVE  dm2[other][k].file = dm[other][k].file
    <2>1. CASE other = kind /\ k = found
      BY <1>5, <1>8, <1>9, <1>15, <1>17, <1>19, <2>1
    <2>2. CASE ~(other = kind /\ k = found)
      BY <1>30, <1>32, <2>2
    <2> QED
      BY <2>1, <2>2
  <1>36. Kept(dm2, fm, seen2, again)
    BY <1>4, <1>29, <1>30, <1>31, <1>34, <1>35 DEF Kept
  <1>37. /\ saved' = saved \ {path} /\ disks' = disks /\ fileMap' = fm /\ again' = again
         /\ saveList' = saveList /\ todo' = todo /\ doc' = doc /\ Idle
    BY <1>1, <1>2, <1>5, <1>8, <1>9 DEF Edit
  <1>38. Kept(docMap', fileMap', wanted', again')
    BY <1>20, <1>25, <1>36, <1>37
  <1>39. FreshDisks' /\ SaveOn'
    BY <1>2, <1>37 DEF IndexInv, FreshDisks, SaveOn, Idle
  <1>40. \A yaml \in saved' \ again' : disks'[yaml] = wanted'[yaml]
    BY <1>3, <1>25, <1>28, <1>37 DEF IndexInv
  <1> QED
    BY <1>2, <1>37, <1>38, <1>39, <1>40 DEF IndexInv

LEMMA SaveStarts ==
  ASSUME IndexInv, NEW files \in SUBSET {yaml \in Paths : fileMap[yaml] # NotAdded},
         Save(files)
  PROVE  IndexInv'
  <1>1. PICK n \in Nat : n = Cardinality(files)
    BY PathsAssumption, FS_Subset, FS_CardinalityType
  <1>2. /\ todo' \in [1..n -> files] /\ Range(todo') = files /\ files # {} /\ doc' = 1
        /\ UNCHANGED <<disks, docMap, fileMap, saveList, wanted, again, saved>>
    BY <1>1 DEF Save
  <1>3. PICK t : t = todo'
    OBVIOUS
  <1>4. t \in Seq(files) /\ Len(t) = n
    BY <1>2, <1>3
  <1>5. t # <<>>
    BY <1>2, <1>3, <1>4 DEF Range
  <1>6. n # 0 /\ t[1] \in files
    BY <1>4, <1>5, LenProperties, EmptySeq
  <1>7. t \in Seq({yaml \in Paths : fileMap[yaml] # NotAdded})
    BY <1>4, SeqOfMore
  <1>8. 1 <= Len(fileMap[t[1]])
    <2>1. PlacesIn(docMap, fileMap[t[1]]) /\ fileMap[t[1]] \in Seq(Places)
      BY <1>6 DEF IndexInv, Kept, Types
    <2> QED
      BY <2>1, LenProperties, EmptySeq DEF PlacesIn
  <1>9. SaveOn'
    BY <1>2, <1>3, <1>5, <1>7, <1>8 DEF SaveOn
  <1> QED
    BY <1>2, <1>9 DEF IndexInv, FreshDisks

(* What a save writes next is what the caller sees.                        *)
LEMMA NextDocument ==
  ASSUME IndexInv, ~Idle
  PROVE  /\ Head(todo) = todo[1] /\ todo[1] \in Paths /\ fileMap[todo[1]] # NotAdded
         /\ doc \in 1..Len(fileMap[todo[1]]) /\ Len(fileMap[todo[1]]) \in Nat
         /\ Document(todo[1], doc) \in Documents
         /\ todo[1] \notin again =>
              /\ wanted[todo[1]] \in Seq(Documents)
              /\ Len(wanted[todo[1]]) = Len(fileMap[todo[1]])
              /\ Document(todo[1], doc) = wanted[todo[1]][doc]
  <1>1. PICK S : S = {yaml \in Paths : fileMap[yaml] # NotAdded}
    OBVIOUS
  <1>2. todo \in Seq(S) /\ todo # <<>>
    BY <1>1 DEF IndexInv, SaveOn, Idle
  <1>3. PICK path \in S : path = todo[1] /\ path = Head(todo)
    BY <1>2, HeadTailProperties, EmptySeq, LenProperties
  <1>4. PICK places \in Seq(Places) : places = fileMap[path]
    BY <1>1 DEF IndexInv, Kept, Types
  <1>5. Len(places) \in Nat /\ doc \in 1..Len(places)
    BY <1>2, <1>3, <1>4, LenProperties DEF IndexInv, SaveOn
  <1>6. PlacesIn(docMap, places)
    BY <1>1, <1>3, <1>4 DEF IndexInv, Kept
  <1>7. Document(path, doc) = docMap[places[doc].kind][places[doc].index].doc
    BY <1>4 DEF Document
  <1>8. docMap[places[doc].kind][places[doc].index] \in Entries
    <2>1. places[doc].kind \in KnownKinds
          /\ places[doc].index \in 1..Len(docMap[places[doc].kind])
      BY <1>5, <1>6 DEF PlacesIn
    <2>2. docMap[places[doc].kind] \in Seq(Entries)
      BY <2>1 DEF IndexInv, Kept, Types, DocMaps
    <2> QED
      BY <2>1, <2>2, LenProperties
  <1>9. ASSUME path \notin again
        PROVE  /\ wanted[path] \in Seq(Documents)
               /\ Len(wanted[path]) = Len(places)
               /\ Document(path, doc) = wanted[path][doc]
    <2>1. Pointed(docMap, places, path, wanted[path]) /\ wanted[path] \in Seq(Documents)
      BY <1>1, <1>3, <1>4, <1>9 DEF IndexInv, Kept, Types
    <2>2. PointsAt(docMap, places[doc], path, wanted[path][doc])
      BY <1>5, <2>1 DEF Pointed
    <2>3. docMap[places[doc].kind][places[doc].index]
            = [file |-> path, doc |-> wanted[path][doc]]
      BY <2>2 DEF PointsAt
    <2> QED
      BY <1>7, <2>1, <2>3 DEF Pointed
  <1> QED
    BY <1>1, <1>3, <1>4, <1>5, <1>7, <1>8, <1>9 DEF Entries

LEMMA SaveGoesOn ==
  ASSUME IndexInv, SaveDocument
  PROVE  IndexInv'
  <1> DEFINE path == todo[1]
             last == doc = Len(fileMap[path])
             before == IF doc = 1 THEN <<>> ELSE disks[path]
  <1>1. ~Idle /\ Head(todo) = path
    BY NextDocument DEF SaveDocument
  <1>2. DocumentWritten(path, before)
    BY <1>1 DEF SaveDocument
  <1>3. PICK d \in Documents : d = Document(path, doc)
    BY <1>1, NextDocument
  <1>4. PICK old \in Seq(Documents) : old = before
    <2>1. path \in Paths
      BY <1>1, NextDocument
    <2>2. before \in Seq(Documents)
      BY <2>1 DEF IndexInv
    <2> QED
      BY <2>2
  <1>5. PICK new \in Seq(Documents) : new = Append(old, d)
    BY AppendProperties
  <1>6. /\ path \in Paths /\ fileMap[path] # NotAdded
        /\ Len(fileMap[path]) \in Nat /\ doc \in 1..Len(fileMap[path])
    BY <1>1, NextDocument
  <1>7. /\ disks' = [disks EXCEPT ![path] = new]
        /\ doc' = IF last THEN 1 ELSE doc + 1
        /\ todo' = IF last THEN Tail(todo) ELSE todo
        /\ saved' = IF last THEN saved \cup {path} ELSE saved \ {path}
        /\ UNCHANGED <<docMap, fileMap, saveList, wanted, again>>
    BY <1>2, <1>3, <1>4, <1>5 DEF DocumentWritten
  <1>8. /\ disks' \in [Paths -> Seq(Documents)] /\ disks'[path] = new
        /\ \A yaml \in Paths : yaml # path => disks'[yaml] = disks[yaml]
    BY <1>6, <1>7 DEF IndexInv
  <1>9. ASSUME path \notin again
        PROVE  WrittenSoFar(new, wanted[path], doc + 1)
    <2>1. WrittenSoFar(old, wanted[path], doc)
      <3>1. CASE doc = 1
        BY <1>4, <3>1 DEF WrittenSoFar
      <3>2. CASE doc # 1
        BY <1>1, <1>4, <1>6, <1>9, <3>2 DEF IndexInv, SaveOn, Idle
      <3> QED
        BY <3>1, <3>2
    <2>2. d = wanted[path][doc]
      BY <1>1, <1>3, <1>9, NextDocument
    <2>3. Len(new) = Len(old) + 1 /\ new[Len(old) + 1] = d
          /\ \A i \in 1..Len(old) : new[i] = old[i]
      BY <1>5, AppendProperties, LenProperties
    <2> HIDE DEF path, before, last
    <2> QED
      BY <1>6, <2>1, <2>2, <2>3 DEF WrittenSoFar
  <1>10. ASSUME last, path \notin again PROVE new = wanted[path]
    <2>1. wanted[path] \in Seq(Documents) /\ Len(wanted[path]) = doc
      BY <1>1, <1>10, NextDocument
    <2>2. Len(new) = doc /\ \A i \in 1..doc : new[i] = wanted[path][i]
      BY <1>6, <1>9, <1>10 DEF WrittenSoFar
    <2> HIDE DEF path, last, before
    <2> QED
      BY <2>1, <2>2, SeqEqual
  <1>11. PICK S : S = {yaml \in Paths : fileMap[yaml] # NotAdded}
    OBVIOUS
  <1>12. todo \in Seq(S) /\ todo # <<>>
    BY <1>1, <1>11 DEF IndexInv, SaveOn, Idle
  <1>13. SaveOn'
    <2>1. CASE last
      <3>1. PICK t \in Seq(S) : t = Tail(todo)
        BY <1>12, HeadTailProperties, EmptySeq
      <3>2. todo' = t /\ doc' = 1
        BY <1>7, <2>1, <3>1
      <3>3. t # <<>> => 1 <= Len(fileMap[t[1]])
        <4> SUFFICES ASSUME t # <<>> PROVE 1 <= Len(fileMap[t[1]])
          OBVIOUS
        <4>1. t[1] \in S
          BY LenProperties, EmptySeq
        <4>2. PlacesIn(docMap, fileMap[t[1]]) /\ fileMap[t[1]] \in Seq(Places)
          BY <1>11, <4>1 DEF IndexInv, Kept, Types
        <4> QED
          BY <4>2, LenProperties, EmptySeq DEF PlacesIn
      <3> QED
        BY <1>7, <1>11, <3>1, <3>2, <3>3 DEF SaveOn
    <2>2. CASE ~last
      <3>1. todo' = todo /\ doc' = doc + 1 /\ doc + 1 <= Len(fileMap[path])
        BY <1>6, <1>7, <2>2
      <3>2. path \notin again => WrittenSoFar(disks'[path], wanted[path], doc + 1)
        BY <1>8, <1>9
      <3>3. todo' # <<>> /\ todo'[1] = path /\ doc' \in Nat /\ doc' >= 1
        BY <1>6, <1>12, <3>1
      <3>4. fileMap' = fileMap /\ wanted' = wanted /\ again' = again
        BY <1>7
      <3>5. todo' \in Seq({yaml \in Paths : fileMap'[yaml] # NotAdded})
        BY <1>11, <1>12, <3>1, <3>4
      <3> QED
        BY <3>1, <3>2, <3>3, <3>4, <3>5 DEF SaveOn
    <2> QED
      BY <2>1, <2>2
  <1>14. FreshDisks'
    BY <1>6, <1>7, <1>8 DEF IndexInv, FreshDisks
  <1>15. saved' \subseteq Paths
    BY <1>6, <1>7 DEF IndexInv
  <1>16. ASSUME NEW yaml \in saved' \ again' PROVE disks'[yaml] = wanted'[yaml]
    <2>1. CASE yaml = path
      <3>1. last
        BY <1>7, <1>16, <2>1
      <3> QED
        BY <1>7, <1>8, <1>10, <1>16, <2>1, <3>1
    <2>2. CASE yaml # path
      <3>1. yaml \in saved \ again /\ yaml \in Paths
        BY <1>7, <1>16, <2>2 DEF IndexInv
      <3> QED
        BY <1>7, <1>8, <2>2, <3>1 DEF IndexInv
    <2> QED
      BY <2>1, <2>2
  <1> QED
    BY <1>7, <1>8, <1>13, <1>14, <1>15, <1>16 DEF IndexInv

LEMMA SaveBreaksOff ==
  ASSUME IndexInv, SaveFails
  PROVE  IndexInv'
  <1>1. PICK path \in Paths : path = Head(todo) /\ fileMap[path] # NotAdded
    BY NextDocument DEF SaveFails
  <1>2. /\ disks' = disks \/ disks' = [disks EXCEPT ![path] = <<>>]
        /\ todo' = <<>> /\ doc' = 1 /\ saved' = saved \ {path}
        /\ UNCHANGED <<docMap, fileMap, saveList, wanted, again>>
    BY <1>1 DEF SaveFails
  <1>3. /\ disks' \in [Paths -> Seq(Documents)]
        /\ \A yaml \in Paths : yaml # path => disks'[yaml] = disks[yaml]
    <2>1. disks \in [Paths -> Seq(Documents)] /\ <<>> \in Seq(Documents)
      BY DEF IndexInv
    <2>2. CASE disks' = disks
      BY <2>1, <2>2
    <2>3. CASE disks' = [disks EXCEPT ![path] = <<>>]
      BY <2>1, <2>3
    <2> QED
      BY <1>2, <2>2, <2>3
  <1>4. FreshDisks'
    BY <1>1, <1>2, <1>3 DEF IndexInv, FreshDisks
  <1>5. SaveOn'
    BY <1>2 DEF SaveOn
  <1>6. saved' \subseteq Paths /\ \A yaml \in saved' \ again' : disks'[yaml] = wanted'[yaml]
    BY <1>2, <1>3 DEF IndexInv
  <1> QED
    BY <1>2, <1>3, <1>4, <1>5, <1>6 DEF IndexInv

LEMMA IndexStep == IndexInv /\ [IndexNext]_indexVars => IndexInv'
  <1> SUFFICES ASSUME IndexInv, [IndexNext]_indexVars PROVE IndexInv'
    OBVIOUS
  <1>1. docMap \in DocMaps
    BY DEF IndexInv, Kept, Types
  <1>2. ASSUME NEW yaml \in Paths, Updated(yaml) PROVE IndexInv'
    BY <1>2 DEF Updated, IndexInv, FreshDisks, SaveOn
  <1>3. ASSUME NEW kind \in KnownKinds, NEW spec \in Specs, NEW name \in DocNames,
               Edit(kind, FindByName(kind, name), spec)
        PROVE  IndexInv'
    <2>1. PICK found : found = FindByName(kind, name)
      OBVIOUS
    <2>2. Edit(kind, found, spec) /\ found # 0
      BY <1>3, <2>1 DEF Edit
    <2> QED
      BY <1>1, <2>1, <2>2, FoundIs, EditKeeps
  <1>4. ASSUME NEW kind \in KnownKinds, NEW spec \in Specs, NEW labels \in SUBSET Labels,
               Edit(kind, FindByLabel(kind, labels), spec)
        PROVE  IndexInv'
    <2>1. PICK found : found = FindByLabel(kind, labels)
      OBVIOUS
    <2>2. Edit(kind, found, spec) /\ found # 0
      BY <1>4, <2>1 DEF Edit
    <2> QED
      BY <1>1, <2>1, <2>2, FoundIs, EditKeeps
  <1>5. CASE Save(saveList)
    BY <1>5, SaveStarts DEF IndexInv
  <1>6. CASE Save({yaml \in Paths : fileMap[yaml] # NotAdded})
    BY <1>6, SaveStarts
  <1>7. CASE UNCHANGED indexVars
    BY <1>7 DEF indexVars, IndexInv, FreshDisks, SaveOn
  <1> QED
    BY <1>2, <1>3, <1>4, <1>5, <1>6, <1>7, AddStep, ScanStepKeeps, SaveGoesOn, SaveBreaksOff
    DEF IndexNext

(* What the file index of dse.clib's Go code has saved is what its caller  *)
(* has seen and changed, all of it and in its order, for every set of      *)
(* files, kinds, names, labels and specs, any number of Adds, Scans, edits *)
(* and saves, and also after saves that broke off.                         *)
THEOREM SavesAreSeen == IndexInit /\ [][IndexNext]_indexVars => []SavesWhatIsSeen
  BY IndexStarts, IndexStep, IndexMeans, PTL

-----------------------------------------------------------------------------
(* Ascii85.                                                                *)

(* A digit more, and less.                                                 *)
LEMMA DivisionUndoes ==
  ASSUME NEW base \in Nat \ {0}, NEW v \in Nat, NEW digit \in 0..base - 1
  PROVE  /\ v * base + digit \in Nat
         /\ (v * base + digit) \div base = v
         /\ (v * base + digit) % base = digit
  <1>1. PICK x \in Nat : x = base * v + digit
    BY SMT
  <1>2. v * base + digit = x
    BY <1>1, SMT
  <1>3. PICK q \in Nat, r \in 0..base - 1 :
          q = x \div base /\ r = x % base /\ x = base * q + r
    BY Division
  <1>4. ~(q > v) /\ ~(v > q)
    BY <1>1, <1>3, FactorBound, SMT
  <1>5. q = v
    BY <1>4
  <1>6. r = digit
    BY <1>1, <1>3, <1>5, SMT
  <1> QED
    BY <1>1, <1>2, <1>3, <1>5, <1>6

LEMMA BelowProduct ==
  ASSUME NEW base \in Nat \ {0}, NEW a \in Nat, NEW v \in 0..a - 1,
         NEW digit \in 0..base - 1
  PROVE  v * base + digit \in 0..a * base - 1
  <1>1. a - 1 - v >= 0 /\ (a - 1 - v) * base >= 0
    BY SMT
  <1>2. v * base >= 0 /\ a * base \in Nat
    BY SMT
  <1>3. a * base = v * base + base + (a - 1 - v) * base
    BY SMT
  <1> QED
    BY <1>1, <1>2, <1>3, SMT

(* Dividing what is above a multiple keeps it above the multiple.          *)
LEMMA DivisionAbove ==
  ASSUME NEW base \in Nat \ {0}, NEW a \in Nat, NEW v \in Nat,
         NEW more \in 0..a * base - 1
  PROVE  \E less \in 0..a - 1 : (v * base + more) \div base = v + less
  <1>1. PICK q \in Nat, r \in 0..base - 1 : more = base * q + r
    <2>1. more \in Nat
      BY SMT
    <2> QED
      BY <2>1, Division
  <1>2. q < a
    <2>1. SUFFICES ASSUME q >= a PROVE FALSE
      BY <1>1
    <2>2. (q - a) * base >= 0
      BY <1>1, <2>1, SMT
    <2> QED
      BY <1>1, <2>2, SMT
  <1>3. v * base + more = (v + q) * base + r
    BY <1>1, SMT
  <1>4. v + q \in Nat
    BY <1>1
  <1>5. (v * base + more) \div base = v + q
    BY <1>3, <1>4, DivisionUndoes
  <1>6. q \in 0..a - 1
    BY <1>1, <1>2
  <1> QED
    BY <1>5, <1>6

LEMMA DivisionBelow ==
  ASSUME NEW base \in Nat \ {0}, NEW a \in Nat, NEW y \in 0..a * base - 1
  PROVE  y \div base < a
  <1>1. PICK q \in Nat, r \in 0..base - 1 : q = y \div base /\ y = base * q + r
    <2>1. y \in Nat
      BY SMT
    <2> QED
      BY <2>1, Division
  <1>2. SUFFICES ASSUME q >= a PROVE FALSE
    BY <1>1
  <1>3. (q - a) * base >= 0
    BY <1>1, <1>2, SMT
  <1> QED
    BY <1>1, <1>3, SMT

(* The loops of Composed and of Digits.                                    *)
ComposedIn(d, base, n, v) ==
  /\ v \in [0..n -> Nat] /\ v[0] = 0
  /\ \A i \in 1..n : v[i] = v[i - 1] * base + d[i]
  /\ Composed(d, base) = v[n]
TakenIn(x, base, n, r) ==
  /\ r \in [0..n -> Nat] /\ r[0] = x
  /\ \A i \in 1..n : r[i] = r[i - 1] \div base
  /\ Digits(x, base, n) = [i \in 1..n |-> r[n - i] % base]

LEMMA ComposedIs ==
  ASSUME NEW base \in Nat \ {0}, NEW n \in Nat, NEW d \in [1..n -> 0..base - 1]
  PROVE  \E v : ComposedIn(d, base, n, v)
  <1>1. d \in Seq(0..base - 1) /\ Len(d) = n
    BY LenProperties
  <1> DEFINE step == [i \in Nat |-> [x \in Nat |-> IF i \in 1..n THEN x * base + d[i] ELSE x]]
             Loop(h) == h = [i \in 0..n |-> IF i = 0 THEN 0 ELSE h[i - 1] * base + d[i]]
  <1>2. step \in [Nat -> [Nat -> Nat]]
    <2>1. ASSUME NEW i \in Nat, NEW x \in Nat
          PROVE  (IF i \in 1..n THEN x * base + d[i] ELSE x) \in Nat
      BY DivisionUndoes
    <2> QED
      BY <2>1
  <1>3. PICK h \in [0..n -> Nat] : IsLoop(h, n, 0, step)
    <2> HIDE DEF step
    <2> QED
      BY <1>2, LoopRec
  <1>4. ASSUME NEW i \in 0..n
        PROVE  h[i] = IF i = 0 THEN 0 ELSE h[i - 1] * base + d[i]
    <2>1. CASE i = 0
      BY <1>3, <2>1 DEF IsLoop
    <2>2. CASE i # 0
      <3>1. i \in 1..n /\ i - 1 \in 0..n /\ i \in Nat
        BY <2>2
      <3>2. h[i - 1] \in Nat
        BY <1>3, <3>1
      <3>3. h[i] = step[i][h[i - 1]]
        <4> HIDE DEF step
        <4> QED
          BY <1>3, <2>2, <3>1 DEF IsLoop
      <3> QED
        BY <2>2, <3>1, <3>2, <3>3
    <2> QED
      BY <2>1, <2>2
  <1>5. Loop(h)
    BY <1>3, <1>4
  <1> HIDE DEF step
  <1> DEFINE g == CHOOSE f : Loop(f)
  <1>6. Loop(g)
    BY <1>5
  <1>7. Composed(d, base) = g[n]
    BY <1>1, Zenon DEF Composed
  <1> HIDE DEF g
  <1>8. \A i \in 0..n : g[i] = IF i = 0 THEN 0 ELSE g[i - 1] * base + d[i]
    BY <1>6
  <1> HIDE DEF Loop
  <1> DEFINE T == {i \in 0..n : g[i] = h[i]}
  <1>9. n \in T
    <2>1. 0 \in T
      BY <1>4, <1>8
    <2>2. ASSUME NEW i \in 0..n - 1, i \in T PROVE i + 1 \in T
      <3>1. i + 1 \in 0..n /\ i + 1 # 0 /\ (i + 1) - 1 = i
        OBVIOUS
      <3>2. g[i + 1] = g[i] * base + d[i + 1] /\ h[i + 1] = h[i] * base + d[i + 1]
        BY <1>4, <1>8, <3>1
      <3> QED
        BY <2>2, <3>1, <3>2
    <2> HIDE DEF T
    <2> QED
      BY <2>1, <2>2, LoopInd
  <1>10. \A i \in 1..n : h[i] = h[i - 1] * base + d[i]
    BY <1>4
  <1>11. h[0] = 0 /\ Composed(d, base) = h[n]
    BY <1>4, <1>7, <1>9
  <1> QED
    BY <1>10, <1>11 DEF ComposedIn

LEMMA DigitsIs ==
  ASSUME NEW base \in Nat \ {0}, NEW n \in Nat, NEW x \in Nat
  PROVE  \E r : TakenIn(x, base, n, r)
  <1> DEFINE step == [i \in Nat |-> [y \in Nat |-> y \div base]]
             Loop(h) == h = [i \in 0..n |-> IF i = 0 THEN x ELSE h[i - 1] \div base]
  <1>2. step \in [Nat -> [Nat -> Nat]]
    <2>1. ASSUME NEW i \in Nat, NEW y \in Nat
          PROVE  y \div base \in Nat
      BY Division
    <2> QED
      BY <2>1
  <1>3. PICK h \in [0..n -> Nat] : IsLoop(h, n, x, step)
    <2> HIDE DEF step
    <2> QED
      BY <1>2, LoopRec
  <1>4. ASSUME NEW i \in 0..n
        PROVE  h[i] = IF i = 0 THEN x ELSE h[i - 1] \div base
    <2>1. CASE i = 0
      BY <1>3, <2>1 DEF IsLoop
    <2>2. CASE i # 0
      <3>1. i \in 1..n /\ i - 1 \in 0..n /\ i \in Nat
        BY <2>2
      <3>2. h[i - 1] \in Nat
        BY <1>3, <3>1
      <3>3. h[i] = step[i][h[i - 1]]
        <4> HIDE DEF step
        <4> QED
          BY <1>3, <2>2, <3>1 DEF IsLoop
      <3> QED
        BY <2>2, <3>1, <3>2, <3>3
    <2> QED
      BY <2>1, <2>2
  <1>5. Loop(h)
    BY <1>3, <1>4
  <1> HIDE DEF step
  <1> DEFINE g == CHOOSE f : Loop(f)
  <1>6. Loop(g)
    BY <1>5
  <1>7. Digits(x, base, n) = [i \in 1..n |-> g[n - i] % base]
    BY Zenon DEF Digits
  <1> HIDE DEF g
  <1>8. \A i \in 0..n : g[i] = IF i = 0 THEN x ELSE g[i - 1] \div base
    BY <1>6
  <1> HIDE DEF Loop
  <1> DEFINE T == {i \in 0..n : \A k \in 0..i : g[k] = h[k]}
  <1>9. n \in T
    <2>1. 0 \in T
      BY <1>4, <1>8
    <2>2. ASSUME NEW i \in 0..n - 1, i \in T PROVE i + 1 \in T
      <3>1. i + 1 \in 0..n /\ i + 1 # 0 /\ (i + 1) - 1 = i
        OBVIOUS
      <3>2. g[i + 1] = g[i] \div base /\ h[i + 1] = h[i] \div base
        BY <1>4, <1>8, <3>1
      <3>3. g[i + 1] = h[i + 1]
        BY <2>2, <3>2
      <3>4. \A k \in 0..i + 1 : k = i + 1 \/ k \in 0..i
        OBVIOUS
      <3> QED
        BY <2>2, <3>1, <3>3, <3>4
    <2> HIDE DEF T
    <2> QED
      BY <2>1, <2>2, LoopInd
  <1>10. \A i \in 1..n : h[i] = h[i - 1] \div base
    BY <1>4
  <1>11. ASSUME NEW i \in 1..n PROVE g[n - i] = h[n - i]
    <2>1. n - i \in 0..n
      OBVIOUS
    <2> QED
      BY <1>9, <2>1
  <1>12. Digits(x, base, n) = [i \in 1..n |-> h[n - i] % base]
    BY <1>7, <1>11
  <1>13. h[0] = x
    BY <1>4
  <1> QED
    BY <1>10, <1>12, <1>13 DEF TakenIn

LEMMA PowersExist ==
  ASSUME NEW base \in Nat \ {0}
  PROVE  \E P \in [0..5 -> Nat \ {0}] :
           P[0] = 1 /\ \A i \in 1..5 : P[i] = P[i - 1] * base
  <1> DEFINE step == [i \in Nat |-> [x \in Nat \ {0} |-> x * base]]
  <1>1. step \in [Nat -> [Nat \ {0} -> Nat \ {0}]]
    <2>1. ASSUME NEW x \in Nat \ {0} PROVE x * base \in Nat \ {0}
      BY SMT
    <2> QED
      BY <2>1
  <1>2. PICK P \in [0..5 -> Nat \ {0}] : IsLoop(P, 5, 1, step)
    <2> HIDE DEF step
    <2>1. 1 \in Nat \ {0} /\ 5 \in Nat
      OBVIOUS
    <2> QED
      BY <1>1, <2>1, LoopRec
  <1>3. P[0] = 1
    BY <1>2 DEF IsLoop
  <1>4. ASSUME NEW i \in 1..5 PROVE P[i] = P[i - 1] * base
    <2>1. i \in 0..5 /\ i \in Nat /\ i # 0 /\ i - 1 \in 0..5
      OBVIOUS
    <2>2. P[i] = step[i][P[i - 1]]
      <3> HIDE DEF step
      <3> QED
        BY <1>2, <2>1 DEF IsLoop
    <2>3. P[i - 1] \in Nat \ {0}
      BY <1>2, <2>1
    <2> QED
      BY <2>1, <2>2, <2>3
  <1> QED
    BY <1>3, <1>4

Byte == 0..ByteBase - 1
Digit == 0..DigitBase - 1

(* The last p bytes of a word were missing and are zeros, and its last p   *)
(* digits were cut off and are the highest: its other bytes are read.      *)
LEMMA WordComesBack ==
  ASSUME NEW w \in [1..4 -> Byte], NEW p \in 0..3,
         \A j \in 1..4 : j > 4 - p => w[j] = 0,
         NEW word \in [1..5 -> Digit],
         \A i \in 1..5 : word[i] = IF i <= 5 - p
                             THEN Digits(Composed(w, ByteBase), DigitBase, 5)[i]
                                   ELSE DigitBase - 1
  PROVE  LET read == Digits(Composed(word, DigitBase) % Words, ByteBase, 4) IN
         read \in [1..4 -> Byte] /\ \A j \in 1..4 - p : read[j] = w[j]
  <1> DEFINE b == ByteBase
             g == DigitBase
  <1>0. b \in Nat \ {0} /\ g \in Nat \ {0} /\ g <= b
    BY BasesAssumption
  <1>1. PICK u : ComposedIn(w, b, 4, u)
    BY <1>0, ComposedIs DEF Byte
  <1>2. PICK x \in Nat : x = Composed(w, b) /\ x = u[4]
    BY <1>1 DEF ComposedIn
  <1>3. PICK r : TakenIn(x, g, 5, r)
    BY <1>0, DigitsIs
  <1>4. PICK e : ComposedIn(word, g, 5, e)
    BY <1>0, ComposedIs DEF Digit
  <1>5. PICK B \in [0..5 -> Nat \ {0}] : B[0] = 1 /\ \A i \in 1..5 : B[i] = B[i - 1] * b
    BY <1>0, PowersExist
  <1>6. PICK G \in [0..5 -> Nat \ {0}] : G[0] = 1 /\ \A i \in 1..5 : G[i] = G[i - 1] * g
    BY <1>0, PowersExist
  <1>7. B[4] = Words /\ Words \in Nat \ {0} /\ Words <= G[5]
    <2>1. B[1] = b /\ B[2] = b * b /\ B[3] = b * b * b /\ B[4] = b * b * b * b
      BY <1>0, <1>5, SMT
    <2>2. G[1] = g /\ G[2] = g * g /\ G[3] = g * g * g /\ G[4] = g * g * g * g
      BY <1>0, <1>6, SMT
    <2>3. G[5] = G[4] * g
      BY <1>6
    <2>4. G[5] = g * g * g * g * g
      BY <2>2, <2>3, Zenon
    <2> QED
      BY <1>5, <2>1, <2>4, BasesAssumption DEF Words
  <1>a. /\ u \in [0..4 -> Nat] /\ u[0] = 0 /\ x = u[4] /\ x = Composed(w, b)
        /\ \A i \in 1..4 : u[i] = u[i - 1] * b + w[i]
    BY <1>1, <1>2 DEF ComposedIn
  <1>b. /\ r \in [0..5 -> Nat] /\ r[0] = x
        /\ \A i \in 1..5 : r[i] = r[i - 1] \div g
        /\ \A i \in 1..5 : Digits(x, g, 5)[i] = r[5 - i] % g
    BY <1>3 DEF TakenIn
  <1>c. /\ e \in [0..5 -> Nat] /\ e[0] = 0 /\ Composed(word, g) = e[5]
        /\ \A i \in 1..5 : e[i] = e[i - 1] * g + word[i]
    BY <1>4 DEF ComposedIn
  <1> HIDE DEF b, g
  <1>8. \A i \in 1..4 : w[i] \in 0..b - 1
    BY DEF b, Byte
  <1>9. \A i \in 0..4 : u[i] < B[i]
    <2> DEFINE T == {i \in 0..4 : u[i] < B[i]}
    <2>1. 0 \in T
      BY <1>a, <1>5
    <2>2. ASSUME NEW i \in 0..3, i \in T PROVE i + 1 \in T
      <3>1. i + 1 \in 1..4 /\ (i + 1) - 1 = i /\ i \in 0..5 /\ i + 1 \in 1..5 /\ i + 1 \in 0..4
        OBVIOUS
      <3>2. u[i + 1] = u[i] * b + w[i + 1] /\ B[i + 1] = B[i] * b
        BY <1>a, <1>5, <3>1
      <3>3. B[i] \in Nat /\ u[i] \in 0..B[i] - 1
        BY <1>a, <1>5, <2>2, <3>1
      <3>4. u[i] * b + w[i + 1] \in 0..B[i] * b - 1
        BY <1>0, <1>8, <3>1, <3>3, BelowProduct
      <3>5. B[i + 1] \in Nat /\ u[i + 1] \in Nat
        BY <1>a, <1>5, <3>1
      <3> QED
        BY <3>1, <3>2, <3>4, <3>5
    <2> HIDE DEF T
    <2>3. 1 \in T /\ 2 \in T /\ 3 \in T /\ 4 \in T
      <3>1. 1 \in T
        BY <2>1, <2>2
      <3>2. 2 \in T
        BY <2>2, <3>1
      <3>3. 3 \in T
        BY <2>2, <3>2
      <3> QED
        BY <2>2, <3>1, <3>2, <3>3
    <2> QED
      BY <2>1, <2>3 DEF T
  <1>10. r[5] = 0
    <2> DEFINE T == {i \in 0..5 : r[i] < G[5 - i]}
    <2>1. 0 \in T
      <3>1. x < Words /\ G[5] \in Nat
        <4>1. 4 \in 0..4 /\ 5 \in 0..5
          OBVIOUS
        <4>2. u[4] < B[4]
          BY <1>9, <4>1
        <4> QED
          BY <1>a, <1>6, <1>7, <4>1, <4>2
      <3> QED
        BY <1>b, <1>7, <3>1
    <2>2. ASSUME NEW i \in 0..4, i \in T PROVE i + 1 \in T
      <3>1. i + 1 \in 1..5 /\ (i + 1) - 1 = i /\ 5 - i \in 1..5 /\ 4 - i \in 0..5
            /\ (5 - i) - 1 = 4 - i /\ 5 - (i + 1) = 4 - i /\ i \in 0..5 /\ i + 1 \in 0..5
        OBVIOUS
      <3>2. r[i + 1] = r[i] \div g /\ G[5 - i] = G[4 - i] * g
        BY <1>b, <1>6, <3>1
      <3>3. PICK a, y \in Nat : a = G[4 - i] /\ y = r[i]
        BY <1>b, <1>6, <3>1
      <3>4. y \in 0..a * g - 1
        <4>1. y < G[5 - i]
          BY <2>2, <3>3
        <4>2. PICK z \in Nat : z = a * g /\ z = G[5 - i]
          BY <1>6, <3>1, <3>2, <3>3
        <4> QED
          BY <4>1, <4>2
      <3>5. y \div g < a
        BY <1>0, <3>4, DivisionBelow
      <3>6. r[i + 1] < a
        BY <3>2, <3>3, <3>5
      <3> QED
        BY <3>1, <3>3, <3>6
    <2> HIDE DEF T
    <2>3. 5 \in T
      BY <2>1, <2>2, LoopInd
    <2> QED
      BY <1>b, <1>6, <2>3 DEF T
  <1>11. \A i \in 0..5 - p : e[i] = r[5 - i]
    <2> DEFINE T == {i \in 0..5 - p : \A k \in 0..i : e[k] = r[5 - k]}
    <2>1. 0 \in T
      BY <1>c, <1>10
    <2>2. ASSUME NEW i \in 0..5 - p - 1, i \in T PROVE i + 1 \in T
      <3>1. i + 1 \in 1..5 /\ (i + 1) - 1 = i /\ i + 1 <= 5 - p /\ i + 1 \in 0..5 - p
            /\ 5 - i \in 1..5 /\ (5 - i) - 1 = 5 - (i + 1) /\ 5 - (i + 1) \in 0..5
        OBVIOUS
      <3>2. PICK z \in Nat : z = r[5 - (i + 1)]
        BY <1>b, <3>1
      <3>3. word[i + 1] = z % g
        BY <1>a, <1>b, <3>1, <3>2 DEF b, g
      <3>4. r[5 - i] = z \div g
        BY <1>b, <3>1, <3>2
      <3>5. e[i + 1] = e[i] * g + word[i + 1] /\ e[i] = r[5 - i]
        BY <1>c, <2>2, <3>1
      <3>6. z = g * (z \div g) + (z % g) /\ z \div g \in Nat /\ z % g \in Nat
        <4>1. z = g * (z \div g) + (z % g) /\ z \div g \in Nat /\ z % g \in 0..g - 1
          BY <1>0, Division, Zenon
        <4> QED
          BY <1>0, <4>1
      <3>7. e[i + 1] = z
        BY <1>0, <3>3, <3>4, <3>5, <3>6, SMT
      <3>8. \A k \in 0..i + 1 : k = i + 1 \/ k \in 0..i
        OBVIOUS
      <3> QED
        BY <2>2, <3>1, <3>2, <3>7, <3>8
    <2>3. 5 - p \in Nat
      OBVIOUS
    <2> HIDE DEF T
    <2>4. 5 - p \in T
      BY <2>1, <2>2, <2>3, LoopInd
    <2> QED
      BY <2>4 DEF T
  <1>12. \E m \in 0..G[p] - 1 : e[5] = x + m
    <2> DEFINE T == {j \in 0..p : \E m \in 0..G[j] - 1 : e[5 - p + j] = r[p - j] + m}
    <2>1. 0 \in T
      <3>1. e[5 - p] = r[p] /\ r[p] \in Nat /\ G[0] = 1
        <4>1. 5 - p \in 0..5 - p /\ 5 - (5 - p) = p /\ p \in 0..5
          OBVIOUS
        <4> QED
          BY <1>6, <1>11, <1>b, <4>1
      <3>2. 0 \in 0..G[0] - 1 /\ r[p] + 0 = r[p] /\ 5 - p + 0 = 5 - p /\ p - 0 = p /\ 0 \in 0..p
        BY <3>1
      <3> QED
        BY <3>1, <3>2
    <2>2. ASSUME NEW j \in 0..p - 1, j \in T PROVE j + 1 \in T
      <3>1. PICK i : i = 5 - p + j
        OBVIOUS
      <3>2. /\ i \in 0..4 /\ i + 1 \in 1..5 /\ (i + 1) - 1 = i /\ ~(i + 1 <= 5 - p)
            /\ 5 - p + (j + 1) = i + 1 /\ p - j \in 1..5 /\ (p - j) - 1 = p - (j + 1)
            /\ p - (j + 1) \in 0..5 /\ j \in 0..5 /\ j + 1 \in 1..5 /\ (j + 1) - 1 = j
            /\ j + 1 \in 0..p /\ j + 1 \in 0..5
        BY <3>1
      <3>3. PICK m \in 0..G[j] - 1 : e[i] = r[p - j] + m
        BY <2>2, <3>1
      <3>4. word[i + 1] = g - 1 /\ e[i + 1] = e[i] * g + word[i + 1]
        BY <1>c, <3>2 DEF g
      <3>5. PICK z \in Nat : z = r[p - (j + 1)]
        BY <1>b, <3>2
      <3>6. r[p - j] = z \div g
        BY <1>b, <3>2, <3>5
      <3>7. PICK q \in Nat, c \in 0..g - 1 : q = z \div g /\ z = g * q + c
        <4>1. z = g * (z \div g) + (z % g) /\ z \div g \in Nat /\ z % g \in 0..g - 1
          BY <1>0, Division, Zenon
        <4> QED
          BY <4>1, Zenon
      <3>8. e[i + 1] = (q + m) * g + (g - 1)
        BY <3>3, <3>4, <3>6, <3>7
      <3>9. PICK d \in 0..g - 1 : d = g - 1 - c
        BY <1>0, <3>7
      <3>10. G[j] \in Nat /\ m \in Nat
        BY <1>6, <3>2
      <3>11. m * g + d \in 0..G[j] * g - 1
        BY <1>0, <3>3, <3>9, <3>10, BelowProduct
      <3>12. (q + m) * g + (g - 1) = z + (m * g + d)
        BY <1>0, <3>7, <3>9, <3>10, SMT
      <3>13. G[j + 1] = G[j] * g
        BY <1>6, <3>2
      <3>14. e[i + 1] = z + (m * g + d)
        BY <3>8, <3>12
      <3>15. \E k \in 0..G[j + 1] - 1 : e[5 - p + (j + 1)] = r[p - (j + 1)] + k
        BY <3>2, <3>5, <3>11, <3>13, <3>14
      <3> QED
        BY <3>2, <3>15
    <2> HIDE DEF T
    <2>3. p \in T
      BY <2>1, <2>2, LoopInd
    <2>4. 5 - p + p = 5 /\ p - p = 0
      OBVIOUS
    <2> QED
      BY <1>b, <2>3, <2>4 DEF T
  <1>13. PICK m \in 0..G[p] - 1 : e[5] = x + m
    BY <1>12
  <1>14. G[p] <= B[p]
    <2> DEFINE T == {j \in 0..p : G[j] <= B[j]}
    <2>1. 0 \in T
      BY <1>5, <1>6
    <2>2. ASSUME NEW j \in 0..p - 1, j \in T PROVE j + 1 \in T
      <3>1. j \in 0..5 /\ j + 1 \in 1..5 /\ (j + 1) - 1 = j /\ j + 1 \in 0..p
        OBVIOUS
      <3>2. PICK y, z \in Nat : y = G[j] /\ z = B[j] /\ y <= z
        BY <1>5, <1>6, <2>2, <3>1
      <3>3. G[j + 1] = y * g /\ B[j + 1] = z * b
        BY <1>5, <1>6, <3>1, <3>2
      <3>4. y * g <= y * b /\ y * b <= z * b
        <4>1. y * (b - g) >= 0 /\ (z - y) * b >= 0
          BY <1>0, <3>2, SMT
        <4> QED
          BY <1>0, <3>2, <4>1, SMT
      <3>5. y * g \in Nat /\ y * b \in Nat /\ z * b \in Nat
        BY <1>0, SMT
      <3> QED
        BY <3>1, <3>3, <3>4, <3>5
    <2> HIDE DEF T
    <2>3. p \in T
      BY <2>1, <2>2, LoopInd
    <2> QED
      BY <2>3 DEF T
  <1>15. x + B[p] <= Words
    <2> DEFINE T == {j \in 0..p : u[4 - p + j] + B[j] <= B[4 - p + j]}
    <2>1. 0 \in T
      <3>1. 4 - p \in 0..4 /\ 4 - p \in 0..5 /\ 4 - p + 0 = 4 - p
        OBVIOUS
      <3>2. u[4 - p] \in Nat /\ B[4 - p] \in Nat /\ u[4 - p] < B[4 - p]
        BY <1>5, <1>9, <1>a, <3>1
      <3> QED
        BY <1>5, <3>1, <3>2
    <2>2. ASSUME NEW j \in 0..p - 1, j \in T PROVE j + 1 \in T
      <3>1. PICK i : i = 4 - p + j
        OBVIOUS
      <3>2. /\ i \in 0..3 /\ i \in 0..4 /\ i \in 0..5 /\ i + 1 \in 1..4 /\ i + 1 \in 1..5
            /\ (i + 1) - 1 = i /\ i + 1 > 4 - p /\ 4 - p + (j + 1) = i + 1
            /\ j \in 0..5 /\ j + 1 \in 1..5 /\ (j + 1) - 1 = j /\ j + 1 \in 0..p
        BY <3>1
      <3>3. PICK y, z, c \in Nat : y = u[i] /\ z = B[j] /\ c = B[i] /\ y + z <= c
        BY <1>5, <1>a, <2>2, <3>1, <3>2
      <3>4. u[i + 1] = y * b + 0 /\ B[j + 1] = z * b /\ B[i + 1] = c * b
        BY <1>5, <1>a, <3>2, <3>3
      <3>5. y * b + z * b <= c * b
        <4>1. (c - y - z) * b >= 0
          BY <1>0, <3>3, SMT
        <4> QED
          BY <1>0, <3>3, <4>1, SMT
      <3>6. y * b \in Nat /\ z * b \in Nat /\ c * b \in Nat
        BY <1>0, SMT
      <3> QED
        BY <3>2, <3>4, <3>5, <3>6
    <2> HIDE DEF T
    <2>3. p \in T
      BY <2>1, <2>2, LoopInd
    <2>4. 4 - p + p = 4
      OBVIOUS
    <2> QED
      BY <1>7, <1>a, <2>3, <2>4 DEF T
  <1>16. Composed(word, g) = x + m /\ x + m \in Nat /\ (x + m) % Words = x + m
    <2>1. x + m \in 0..Words - 1
      <3>1. G[p] \in Nat /\ B[p] \in Nat
        BY <1>5, <1>6
      <3> QED
        BY <1>2, <1>7, <1>13, <1>14, <1>15, <3>1
    <2>2. Words * 0 + (x + m) = x + m
      BY <1>2, <1>7, <2>1, SMT
    <2>3. (x + m) % Words = x + m
      BY <1>7, <2>1, <2>2, RemainderUnique
    <2> QED
      BY <1>13, <1>c, <2>1, <2>3
  <1>17. PICK q : TakenIn(x + m, b, 4, q)
    BY <1>0, <1>16, DigitsIs
  <1>18. /\ q \in [0..4 -> Nat] /\ q[0] = x + m
         /\ \A i \in 1..4 : q[i] = q[i - 1] \div b
         /\ Digits(x + m, b, 4) = [i \in 1..4 |-> q[4 - i] % b]
    BY <1>17 DEF TakenIn
  <1>19. q[p] = u[4 - p]
    <2> DEFINE T == {k \in 0..p : \E l \in 0..B[p - k] - 1 : q[k] = u[4 - k] + l}
    <2>1. 0 \in T
      <3>1. G[p] \in Nat /\ B[p] \in Nat /\ p - 0 = p /\ 4 - 0 = 4
        BY <1>5, <1>6
      <3>2. m \in 0..B[p] - 1
        BY <1>13, <1>14, <3>1
      <3>3. q[0] = u[4 - 0] + m /\ 0 \in 0..p
        <4>1. q[0] = x + m
          BY <1>18
        <4>2. u[4 - 0] = x
          BY <1>a, <3>1
        <4> QED
          BY <4>1, <4>2
      <3>4. \E l \in 0..B[p - 0] - 1 : q[0] = u[4 - 0] + l
        BY <3>1, <3>2, <3>3
      <3> QED
        BY <3>3, <3>4
    <2>2. ASSUME NEW k \in 0..p - 1, k \in T PROVE k + 1 \in T
      <3>1. /\ k + 1 \in 1..4 /\ (k + 1) - 1 = k /\ 4 - k \in 1..4 /\ 4 - k > 4 - p
            /\ (4 - k) - 1 = 4 - (k + 1) /\ 4 - (k + 1) \in 0..4 /\ p - k \in 1..5
            /\ (p - k) - 1 = p - (k + 1) /\ p - (k + 1) \in 0..5 /\ k + 1 \in 0..p
        OBVIOUS
      <3>2. PICK l \in 0..B[p - k] - 1 : q[k] = u[4 - k] + l
        BY <2>2
      <3>3. PICK y, c \in Nat : y = u[4 - (k + 1)] /\ c = B[p - (k + 1)]
        BY <1>5, <1>a, <3>1
      <3>4. u[4 - k] = y * b + 0 /\ B[p - k] = c * b
        BY <1>5, <1>a, <3>1, <3>3
      <3>5. PICK less \in 0..c - 1 : (y * b + l) \div b = y + less
        BY <1>0, <3>2, <3>4, DivisionAbove
      <3>6. y * b + 0 = y * b
        BY <1>0, SMT
      <3>7. q[k + 1] = y + less
        BY <1>18, <3>1, <3>2, <3>4, <3>5, <3>6
      <3> QED
        BY <3>1, <3>3, <3>7
    <2> HIDE DEF T
    <2>3. p \in T
      BY <2>1, <2>2, LoopInd
    <2>4. p - p = 0 /\ 4 - p \in 0..4
      OBVIOUS
    <2>5. PICK l \in 0..0 : q[p] = u[4 - p] + l
      BY <1>5, <2>3, <2>4 DEF T
    <2> QED
      BY <1>a, <2>4, <2>5
  <1>20. \A k \in 0..4 - p : q[p + k] = u[4 - p - k]
    <2> DEFINE T == {k \in 0..4 - p : \A c \in 0..k : q[p + c] = u[4 - p - c]}
    <2>1. 0 \in T
      BY <1>19
    <2>2. ASSUME NEW k \in 0..4 - p - 1, k \in T PROVE k + 1 \in T
      <3>1. /\ p + (k + 1) \in 1..4 /\ (p + (k + 1)) - 1 = p + k /\ 4 - p - k \in 1..4
            /\ (4 - p - k) - 1 = 4 - p - (k + 1) /\ 4 - p - (k + 1) \in 0..4
            /\ k + 1 \in 0..4 - p
        OBVIOUS
      <3>2. PICK y \in Nat : y = u[4 - p - (k + 1)]
        BY <1>a, <3>1
      <3>3. PICK d \in 0..b - 1 : d = w[4 - p - k]
        BY <1>8, <3>1
      <3>4. q[p + k] = y * b + d
        BY <1>a, <2>2, <3>1, <3>2, <3>3
      <3>5. q[p + (k + 1)] = (y * b + d) \div b
        BY <1>18, <3>1, <3>4
      <3>6. q[p + (k + 1)] = y
        BY <1>0, <3>5, DivisionUndoes
      <3>7. \A c \in 0..k + 1 : c = k + 1 \/ c \in 0..k
        OBVIOUS
      <3> QED
        BY <2>2, <3>1, <3>2, <3>6, <3>7
    <2>3. 4 - p \in Nat
      OBVIOUS
    <2> HIDE DEF T
    <2>4. 4 - p \in T
      BY <2>1, <2>2, <2>3, LoopInd
    <2> QED
      BY <2>4 DEF T
  <1>21. ASSUME NEW j \in 1..4 - p PROVE q[4 - j] % b = w[j]
    <2>1. /\ 4 - p - j \in 0..4 - p /\ p + (4 - p - j) = 4 - j /\ 4 - p - (4 - p - j) = j
          /\ j \in 1..4 /\ j - 1 \in 0..4
      OBVIOUS
    <2>2. q[4 - j] = u[j]
      BY <1>20, <2>1
    <2>3. PICK y \in Nat, d \in 0..b - 1 : y = u[j - 1] /\ d = w[j]
      BY <1>8, <1>a, <2>1
    <2>4. u[j] = y * b + d
      BY <1>a, <2>1, <2>3
    <2>5. (y * b + d) % b = d
      BY <1>0, DivisionUndoes
    <2> QED
      BY <2>2, <2>3, <2>4, <2>5
  <1>22. ASSUME NEW i \in 1..4 PROVE q[4 - i] % b \in 0..b - 1
    <2>1. q[4 - i] \in Nat
      BY <1>18
    <2> QED
      BY <1>0, <2>1, Division
  <1>23. PICK read : read = [i \in 1..4 |-> q[4 - i] % b]
    OBVIOUS
  <1>24. read \in [1..4 -> 0..b - 1] /\ \A j \in 1..4 - p : read[j] = w[j]
    BY <1>21, <1>22, <1>23
  <1>25. read = Digits(Composed(word, g) % Words, b, 4)
    BY <1>16, <1>18, <1>23
  <1> QED
    BY <1>24, <1>25 DEF b, g, Byte

-----------------------------------------------------------------------------
(* A piece of a sequence, and its front with one more.                     *)
IsPiece(S, s, from, n, t) ==
  t \in [1..n -> S] /\ \A i \in 1..n : t[i] = s[from + i - 1]
LEMMA PieceIs ==
  ASSUME NEW S, NEW s \in Seq(S), NEW from \in Nat \ {0}, NEW n \in Nat,
         NEW to \in Int, to = from + n - 1, to <= Len(s)
  PROVE  IsPiece(S, s, from, n, SubSeq(s, from, to))
  <1>1. Len(s) \in Nat /\ \A i \in 1..Len(s) : s[i] \in S
    BY LenProperties
  <1>2. from \in Int
    OBVIOUS
  <1>3. \A i \in from..to : s[i] \in S
    <2>1. \A i \in from..to : i \in 1..Len(s)
      BY <1>1
    <2> QED
      BY <1>1, <2>1
  <1>4. PICK t : t = SubSeq(s, from, to)
    OBVIOUS
  <1>5. /\ t \in Seq(S)
        /\ Len(t) = IF from <= to THEN to - from + 1 ELSE 0
        /\ \A i \in 1..to - from + 1 : t[i] = s[from + i - 1]
    BY <1>2, <1>3, <1>4, SubSeqProperties
  <1>6. Len(t) = n
    BY <1>5
  <1>7. t \in [1..n -> S]
    BY <1>5, <1>6, LenProperties
  <1>8. \A i \in 1..n : t[i] = s[from + i - 1]
    BY <1>5
  <1> QED
    BY <1>4, <1>7, <1>8 DEF IsPiece

LEMMA FrontIs ==
  ASSUME NEW S, NEW s \in Seq(S), NEW n \in 0..Len(s)
  PROVE  /\ SubSeq(s, 1, n) \in Seq(S) /\ Len(SubSeq(s, 1, n)) = n
         /\ \A i \in 1..n : SubSeq(s, 1, n)[i] = s[i]
  <1>1. n \in Nat /\ n \in Int /\ n <= Len(s) /\ n = 1 + n - 1 /\ 1 \in Nat \ {0}
    BY LenProperties
  <1>2. PICK t : t = SubSeq(s, 1, n)
    OBVIOUS
  <1>3. t \in [1..n -> S] /\ \A i \in 1..n : t[i] = s[1 + i - 1]
    <2>1. PICK one \in Nat \ {0} : one = 1
      OBVIOUS
    <2>2. n = one + n - 1
      BY <1>1, <2>1
    <2>3. t = SubSeq(s, one, n)
      BY <1>2, <2>1
    <2>4. IsPiece(S, s, one, n, SubSeq(s, one, n))
      BY <1>1, <2>2, PieceIs
    <2> QED
      BY <2>1, <2>3, <2>4 DEF IsPiece
  <1>4. t \in Seq(S) /\ Len(t) = n
    BY <1>1, <1>3, LenProperties
  <1>5. \A i \in 1..n : t[i] = s[i]
    BY <1>3
  <1> QED
    BY <1>2, <1>4, <1>5

LEMMA FrontGrows ==
  ASSUME NEW S, NEW s \in Seq(S), NEW n \in 0..Len(s) - 1
  PROVE  SubSeq(s, 1, n + 1) = SubSeq(s, 1, n) \o <<s[n + 1]>>
  <1>1. n \in 0..Len(s) /\ n + 1 \in 0..Len(s) /\ n + 1 \in 1..Len(s) /\ n \in Nat
    BY LenProperties
  <1>2. PICK a, b : a = SubSeq(s, 1, n) /\ b = SubSeq(s, 1, n + 1)
    OBVIOUS
  <1>3. a \in Seq(S) /\ Len(a) = n /\ \A i \in 1..n : a[i] = s[i]
    BY <1>1, <1>2, FrontIs
  <1>4. b \in Seq(S) /\ Len(b) = n + 1 /\ \A i \in 1..n + 1 : b[i] = s[i]
    BY <1>1, <1>2, FrontIs
  <1>5. PICK e \in S : e = s[n + 1]
    BY <1>1, LenProperties
  <1>6. <<e>> \in Seq(S) /\ Len(<<e>>) = 1 /\ <<e>>[1] = e
    OBVIOUS
  <1>7. PICK c : c = a \o <<e>>
    OBVIOUS
  <1>8. c \in Seq(S) /\ Len(c) = n + 1
    BY <1>3, <1>6, <1>7, ConcatProperties
  <1>9. ASSUME NEW i \in 1..n + 1 PROVE c[i] = b[i]
    <2>1. c[i] = IF i <= n THEN a[i] ELSE <<e>>[i - n]
      BY <1>3, <1>6, <1>7, ConcatProperties
    <2> QED
      BY <1>3, <1>4, <1>5, <1>6, <2>1
  <1>10. c = b
    BY <1>4, <1>8, <1>9, SeqEqual
  <1> QED
    BY <1>2, <1>5, <1>7, <1>10

LEMMA FiveLong ==
  ASSUME NEW S, NEW d \in [1..5 -> S]
  PROVE  d \in Seq(S) /\ Len(d) = 5
  <1>1. PICK n \in Nat : n = 5
    OBVIOUS
  <1>2. d \in [1..n -> S]
    BY <1>1
  <1>3. d \in Seq(S) /\ Len(d) = n
    BY <1>2, LenProperties
  <1> QED
    BY <1>1, <1>3

(* What is flattened from sequences of one length.                         *)
OfLength(S, m, r, c) == r \in [1..m -> Seq(S)] /\ \A i \in 1..m : Len(r[i]) = c
InPieces(S, c, k, r, f) ==
  /\ f \in Seq(S) /\ Len(f) = c * k
  /\ \A i \in 1..k : \A j \in 1..c : f[c * i - c + j] = r[i][j]
LEMMA FlattenedPieces ==
  ASSUME NEW S, NEW c \in Nat, NEW m \in Nat, NEW r, NEW flat,
         OfLength(S, m, r, c), FlattenedBy(S, m, r, flat)
  PROVE  \A k \in 0..m : InPieces(S, c, k, r, flat[k])
  <1> DEFINE Good(k, f) == /\ f \in Seq(S) /\ Len(f) = c * k
                           /\ \A i \in 1..k : \A j \in 1..c : f[c * i - c + j] = r[i][j]
             T == {k \in 0..m : \A h \in 0..k : Good(h, flat[h])}
  <1>1. /\ flat \in [Nat -> Seq(S)] /\ flat[0] = <<>>
        /\ \A i \in Nat : i < m => flat[i + 1] = flat[i] \o r[i + 1]
    BY DEF FlattenedBy
  <1>2. 0 \in T
    <2>1. c * 0 = 0
      BY SMT
    <2>2. <<>> \in Seq(S) /\ Len(<<>>) = 0
      OBVIOUS
    <2> QED
      BY <1>1, <2>1, <2>2
  <1>3. ASSUME NEW k \in 0..m - 1, k \in T PROVE k + 1 \in T
    <2>1. k \in Nat /\ k < m /\ k + 1 \in 1..m /\ k + 1 \in 0..m /\ k \in 0..k
      OBVIOUS
    <2>2. PICK f : f = flat[k]
      OBVIOUS
    <2>3. Good(k, f)
      BY <1>3, <2>1, <2>2
    <2>4. PICK x : x = r[k + 1]
      OBVIOUS
    <2>5. x \in Seq(S) /\ Len(x) = c
      BY <2>1, <2>4 DEF OfLength
    <2>6. PICK d : d = f \o x
      OBVIOUS
    <2>7. flat[k + 1] = d
      BY <1>1, <2>1, <2>2, <2>4, <2>6
    <2>8. PICK len \in Nat : len = c * k
      BY <2>1, SMT
    <2>9. c * (k + 1) = len + c
      BY <2>1, <2>8, SMT
    <2>10. /\ d \in Seq(S) /\ Len(d) = len + c
           /\ \A t \in 1..len + c : d[t] = IF t <= len THEN f[t] ELSE x[t - len]
      <3>1. f \in Seq(S) /\ Len(f) = len
        BY <2>3, <2>8
      <3> HIDE DEF Good
      <3> QED
        BY <2>5, <2>6, <3>1, ConcatProperties
    <2>11. ASSUME NEW i \in 1..k + 1, NEW j \in 1..c PROVE d[c * i - c + j] = r[i][j]
      <3>1. CASE i = k + 1
        <4>1. c * i - c + j = len + j /\ len + j \in 1..len + c
          BY <2>9, <3>1
        <4> QED
          BY <2>4, <2>10, <3>1, <4>1
      <3>2. CASE i # k + 1
        <4>1. i \in 1..k
          BY <2>1, <3>2
        <4>2. PICK a \in Nat : a = c * (i - 1)
          BY <4>1, SMT
        <4>3. PICK e \in Nat : e = c * (k - i)
          BY <2>1, <4>1, SMT
        <4>4. c * i - c = a /\ len = a + c + e
          BY <2>1, <2>8, <4>1, <4>2, <4>3, SMT
        <4>5. c * i - c + j \in 1..len /\ c * i - c + j \in 1..len + c
          BY <4>4
        <4>6. d[c * i - c + j] = f[c * i - c + j]
          BY <2>10, <4>5
        <4>7. f[c * i - c + j] = r[i][j]
          BY <2>3, <4>1
        <4> QED
          BY <4>6, <4>7
      <3> QED
        BY <3>1, <3>2
    <2>12. Good(k + 1, d)
      BY <2>9, <2>10, <2>11
    <2>13. \A h \in 0..k + 1 : h = k + 1 \/ h \in 0..k
      OBVIOUS
    <2> HIDE DEF Good
    <2> QED
      BY <1>3, <2>1, <2>7, <2>12, <2>13
  <1> HIDE DEF T
  <1>4. m \in T
    BY <1>2, <1>3, LoopInd
  <1> QED
    BY <1>4 DEF T, InPieces

(* A "z" is worth five digits, a digit itself.                             *)
Chars == Digit \cup {Z}
LEMMA WorthIs ==
  ASSUME NEW char \in Chars
  PROVE  Worth(char) \in Seq(Digit)
  <1>1. 0 \in Digit
    BY BasesAssumption DEF Digit
  <1>2. <<0, 0, 0, 0, 0>> \in Seq(Digit)
    BY <1>1
  <1>3. CASE char # Z
    <2>1. char \in Digit
      BY <1>3 DEF Chars
    <2>2. <<char>> \in Seq(Digit)
      BY <2>1
    <2> QED
      BY <1>3, <2>2 DEF Worth
  <1> QED
    BY <1>2, <1>3 DEF Worth

LEMMA LongStep ==
  ASSUME NEW c \in Seq(Chars), NEW char \in Chars
  PROVE  /\ Long(c) \in Seq(Digit)
         /\ Long(c \o <<char>>) = Long(c) \o Worth(char)
  <1>1. PICK n \in Nat : n = Len(c)
    BY LenProperties
  <1>2. <<char>> \in Seq(Chars) /\ Len(<<char>>) = 1 /\ <<char>>[1] = char
    OBVIOUS
  <1>3. PICK d : d = c \o <<char>>
    OBVIOUS
  <1>4. /\ d \in Seq(Chars) /\ Len(d) = n + 1
        /\ \A i \in 1..n + 1 : d[i] = IF i <= n THEN c[i] ELSE <<char>>[i - n]
    BY <1>1, <1>2, <1>3, ConcatProperties
  <1>5. d[n + 1] = char /\ \A i \in 1..n : d[i] = c[i] /\ i \in 1..n + 1
    BY <1>1, <1>2, <1>4
  <1>6. PICK r : r = [i \in 1..n + 1 |-> Worth(d[i])]
    OBVIOUS
  <1>7. r \in [1..n + 1 -> Seq(Digit)]
    <2>1. \A i \in 1..n + 1 : d[i] \in Chars
      BY <1>4, LenProperties
    <2>2. \A i \in 1..n + 1 : Worth(d[i]) \in Seq(Digit)
      BY <2>1, WorthIs
    <2> QED
      BY <1>6, <2>2
  <1>8. PICK q : q = [i \in 1..n |-> r[i]]
    OBVIOUS
  <1>9. q = [i \in 1..n |-> Worth(c[i])]
    BY <1>5, <1>6, <1>8
  <1>10. Long(c) = FlattenSeq(q)
    BY <1>1, <1>9, Zenon DEF Long
  <1>11. Long(d) = FlattenSeq(r)
    BY <1>4, <1>6, Zenon DEF Long
  <1>12. FlattenSeq(q) \in Seq(Digit) /\ FlattenSeq(r) = FlattenSeq(q) \o r[n + 1]
    BY <1>7, <1>8, FlattenStep
  <1>13. r[n + 1] = Worth(char)
    BY <1>5, <1>6
  <1> QED
    BY <1>3, <1>10, <1>11, <1>12, <1>13

LEMMA LongDigits ==
  ASSUME NEW c \in Seq(Chars), NEW t \in Seq(Digit)
  PROVE  Long(c \o t) = Long(c) \o t /\ c \o t \in Seq(Chars)
  <1>0. \A d \in Digit : d \in Chars /\ Worth(d) = <<d>>
    BY ZAssumption DEF Chars, Worth, Digit
  <1>1. PICK n \in Nat : n = Len(t)
    BY LenProperties
  <1>2. t \in Seq(Chars)
    <2>1. t \in [1..n -> Digit]
      BY <1>1, LenProperties
    <2> QED
      BY <1>0, <2>1
  <1>3. Long(c) \in Seq(Digit)
    <2>1. Z \in Chars
      BY DEF Chars
    <2> QED
      BY <2>1, LongStep
  <1> DEFINE T == {k \in 0..n : Long(c \o SubSeq(t, 1, k)) = Long(c) \o SubSeq(t, 1, k)}
  <1>4. 0 \in T
    <2>1. SubSeq(t, 1, 0) = <<>>
      BY SubSeqEmpty
    <2>2. c \o <<>> = c /\ Long(c) \o <<>> = Long(c)
      BY <1>3, ConcatEmptySeq
    <2>3. Long(c \o SubSeq(t, 1, 0)) = Long(c) \o SubSeq(t, 1, 0)
      BY <2>1, <2>2, Zenon
    <2>4. 0 \in 0..n
      OBVIOUS
    <2> QED
      BY <2>3, <2>4
  <1>5. ASSUME NEW k \in 0..n - 1, k \in T PROVE k + 1 \in T
    <2>1. k \in 0..Len(t) - 1 /\ k \in 0..Len(t) /\ k + 1 \in 1..Len(t) /\ k + 1 \in 0..n
      BY <1>1
    <2>2. PICK a : a = SubSeq(t, 1, k)
      OBVIOUS
    <2>3. PICK d \in Digit : d = t[k + 1]
      BY <2>1, LenProperties
    <2>4. SubSeq(t, 1, k + 1) = a \o <<d>>
      BY <2>1, <2>2, <2>3, FrontGrows
    <2>5. a \in Seq(Digit) /\ a \in Seq(Chars)
      BY <1>2, <2>1, <2>2, FrontIs
    <2>6. <<d>> \in Seq(Digit) /\ <<d>> \in Seq(Chars) /\ d \in Chars /\ Worth(d) = <<d>>
      BY <1>0
    <2>7. PICK e : e = c \o a
      OBVIOUS
    <2>8. e \in Seq(Chars)
      BY <2>5, <2>7, ConcatProperties
    <2>9. Long(e) = Long(c) \o a
      BY <1>5, <2>2, <2>7
    <2>10. Long(e \o <<d>>) = Long(e) \o <<d>>
      BY <2>6, <2>8, LongStep
    <2>11. e \o <<d>> = c \o (a \o <<d>>)
      BY <2>5, <2>6, <2>7, ConcatAssociative
    <2>12. (Long(c) \o a) \o <<d>> = Long(c) \o (a \o <<d>>)
      BY <1>3, <2>5, <2>6, ConcatAssociative
    <2>13. Long(c \o (a \o <<d>>)) = Long(c) \o (a \o <<d>>)
      BY <2>9, <2>10, <2>11, <2>12
    <2> QED
      BY <2>1, <2>4, <2>13
  <1> HIDE DEF T
  <1>6. n \in T
    BY <1>4, <1>5, LoopInd
  <1>7. SubSeq(t, 1, n) = t
    <2>1. n \in 0..Len(t)
      BY <1>1
    <2>2. PICK a : a = SubSeq(t, 1, n)
      OBVIOUS
    <2>3. a \in Seq(Digit) /\ Len(a) = Len(t) /\ \A i \in 1..Len(a) : a[i] = t[i]
      BY <1>1, <2>1, <2>2, FrontIs
    <2>4. a = t
      BY <2>3, SeqEqual
    <2> QED
      BY <2>2, <2>4
  <1>8. c \o t \in Seq(Chars)
    BY <1>2, ConcatProperties
  <1> QED
    BY <1>6, <1>7, <1>8 DEF T

-----------------------------------------------------------------------------
(* What is filled up.                                                      *)
LEMMA PaddedIs ==
  ASSUME NEW S, NEW s \in Seq(S), NEW unit, NEW filler \in S, NEW p \in Nat,
         Missing(s, unit) = p
  PROVE  /\ Padded(s, unit, filler) \in Seq(S) /\ Len(Padded(s, unit, filler)) = Len(s) + p
         /\ \A t \in 1..Len(s) + p :
              Padded(s, unit, filler)[t] = IF t <= Len(s) THEN s[t] ELSE filler
  <1>1. PICK x : x = [i \in 1..p |-> filler]
    OBVIOUS
  <1>2. x \in [1..p -> S]
    BY <1>1
  <1>3. x \in Seq(S) /\ Len(x) = p
    BY <1>2, LenProperties
  <1>4. PICK d : d = s \o x
    OBVIOUS
  <1>5. /\ d \in Seq(S) /\ Len(d) = Len(s) + p
        /\ \A t \in 1..Len(s) + p : d[t] = IF t <= Len(s) THEN s[t] ELSE x[t - Len(s)]
    <2>1. /\ d \in Seq(S) /\ Len(d) = Len(s) + Len(x)
          /\ \A t \in 1..Len(s) + Len(x) : d[t] = IF t <= Len(s) THEN s[t] ELSE x[t - Len(s)]
      <3>1. x \in Seq(S)
        BY <1>3
      <3> QED
        BY <1>4, <3>1, ConcatProperties
    <2> QED
      BY <1>3, <2>1
  <1>6. ASSUME NEW t \in 1..Len(s) + p PROVE d[t] = IF t <= Len(s) THEN s[t] ELSE filler
    <2>1. Len(s) \in Nat
      BY LenProperties
    <2>2. CASE t <= Len(s)
      BY <1>5, <2>2
    <2>3. CASE ~(t <= Len(s))
      <3>1. t - Len(s) \in 1..p
        BY <2>1, <2>3
      <3> QED
        BY <1>1, <1>5, <2>3, <3>1
    <2> QED
      BY <2>2, <2>3
  <1>7. Padded(s, unit, filler) = d
    BY <1>1, <1>4, Zenon DEF Padded
  <1> QED
    BY <1>5, <1>6, <1>7

LEMMA MissingFour ==
  ASSUME NEW n \in Nat
  PROVE  LET p == (4 - (n % 4)) % 4 IN p \in 0..3 /\ \E m \in Nat : n + p = 4 * m
  <1>1. PICK q \in Nat, r \in 0..3 : n = 4 * q + r /\ r = n % 4
    <2>1. 4 \in Nat \ {0} /\ 4 - 1 = 3
      OBVIOUS
    <2> QED
      BY <2>1, Division
  <1>2. CASE r = 0
    BY <1>1, <1>2
  <1>3. CASE r # 0
    <2>1. (4 - r) % 4 = 4 - r /\ 4 - r \in 0..3
      BY <1>3
    <2>2. n + (4 - r) = 4 * (q + 1) /\ q + 1 \in Nat
      BY <1>1
    <2> QED
      BY <1>1, <2>1, <2>2
  <1> QED
    BY <1>2, <1>3

LEMMA MissingFive ==
  ASSUME NEW m \in Nat, NEW p \in 0..3, NEW n \in Nat, n = 5 * m - p
  PROVE  (5 - (n % 5)) % 5 = p
  BY SMT

(* The words of what is encoded, and what each becomes.                    *)
WordAt(s, i) == SubSeq(Padded(s, 4, 0), 4 * i - 3, 4 * i)
DigitsAt(s, i) == Digits(Composed(WordAt(s, i), ByteBase), DigitBase, 5)
CodeAt(s, i) ==
  IF IsShort(Composed(WordAt(s, i), ByteBase), Len(s) - 4 * i) THEN <<Z>> ELSE DigitsAt(s, i)
InWords(s, p, m) ==
  /\ s \in Seq(Byte) /\ p \in 0..3 /\ m \in Nat
  /\ Missing(s, 4) = p /\ Len(s) + p = 4 * m

LEMMA WordsExist ==
  ASSUME NEW s \in Seq(Byte)
  PROVE  \E p, m : InWords(s, p, m)
  <1>1. PICK n \in Nat : n = Len(s)
    BY LenProperties
  <1>2. PICK p : p = (4 - (n % 4)) % 4
    OBVIOUS
  <1>3. p \in 0..3 /\ \E m \in Nat : n + p = 4 * m
    BY <1>2, MissingFour
  <1>4. PICK m \in Nat : n + p = 4 * m
    BY <1>3
  <1>5. Missing(s, 4) = p
    BY <1>1, <1>2, Zenon DEF Missing
  <1> QED
    BY <1>1, <1>3, <1>4, <1>5 DEF InWords

LEMMA FullIs ==
  ASSUME NEW s, NEW p, NEW m, InWords(s, p, m)
  PROVE  /\ Padded(s, 4, 0) \in Seq(Byte) /\ Len(Padded(s, 4, 0)) = 4 * m
         /\ \A t \in 1..4 * m : Padded(s, 4, 0)[t] = IF t <= Len(s) THEN s[t] ELSE 0
  <1>1. 0 \in Byte
    BY BasesAssumption DEF Byte
  <1>2. s \in Seq(Byte) /\ p \in Nat /\ Missing(s, 4) = p /\ Len(s) + p = 4 * m
    BY DEF InWords
  <1>3. PICK f : f = Padded(s, 4, 0)
    OBVIOUS
  <1>4. /\ f \in Seq(Byte) /\ Len(f) = Len(s) + p
        /\ \A t \in 1..Len(s) + p : f[t] = IF t <= Len(s) THEN s[t] ELSE 0
    BY <1>1, <1>2, <1>3, PaddedIs
  <1> QED
    BY <1>2, <1>3, <1>4

LEMMA WordAtIs ==
  ASSUME NEW s, NEW p, NEW m, InWords(s, p, m), NEW i \in 1..m
  PROVE  /\ WordAt(s, i) \in [1..4 -> Byte]
         /\ \A j \in 1..4 : WordAt(s, i)[j] = Padded(s, 4, 0)[4 * i - 4 + j]
  <1>1. PICK f \in Seq(Byte) : f = Padded(s, 4, 0) /\ Len(f) = 4 * m
    BY FullIs
  <1>2. m \in Nat
    BY DEF InWords
  <1>3. PICK from \in Nat \ {0}, to \in Int : from = 4 * i - 3 /\ to = 4 * i
    BY <1>2
  <1>4. PICK n \in Nat : n = 4 /\ to = from + n - 1 /\ to <= Len(f)
    BY <1>1, <1>2, <1>3
  <1>5. /\ SubSeq(f, from, to) \in [1..n -> Byte]
        /\ \A j \in 1..n : SubSeq(f, from, to)[j] = f[from + j - 1]
    <2>1. to = from + n - 1 /\ to <= Len(f)
      BY <1>4
    <2>2. IsPiece(Byte, f, from, n, SubSeq(f, from, to))
      BY <2>1, PieceIs
    <2> QED
      BY <2>2 DEF IsPiece
  <1>6. WordAt(s, i) = SubSeq(f, from, to)
    BY <1>1, <1>3, Zenon DEF WordAt
  <1>7. \A j \in 1..4 : from + j - 1 = 4 * i - 4 + j
    BY <1>3
  <1> QED
    BY <1>1, <1>4, <1>5, <1>6, <1>7

LEMMA DigitsTypes ==
  ASSUME NEW base \in Nat \ {0}, NEW x \in Nat, NEW n \in Nat
  PROVE  Digits(x, base, n) \in [1..n -> 0..base - 1]
  <1>1. PICK r : TakenIn(x, base, n, r)
    BY DigitsIs
  <1>2. r \in [0..n -> Nat] /\ Digits(x, base, n) = [i \in 1..n |-> r[n - i] % base]
    BY <1>1 DEF TakenIn
  <1>3. ASSUME NEW i \in 1..n PROVE r[n - i] % base \in 0..base - 1
    <2>1. n - i \in 0..n
      OBVIOUS
    <2>2. PICK y \in Nat : y = r[n - i]
      BY <1>2, <2>1
    <2> QED
      BY <2>2, Division
  <1> QED
    BY <1>2, <1>3

LEMMA ZeroDigits ==
  ASSUME NEW base \in Nat \ {0}
  PROVE  Digits(0, base, 5) = <<0, 0, 0, 0, 0>>
  <1>1. PICK r : TakenIn(0, base, 5, r)
    BY DigitsIs
  <1>2. /\ r \in [0..5 -> Nat] /\ r[0] = 0 /\ \A i \in 1..5 : r[i] = r[i - 1] \div base
        /\ Digits(0, base, 5) = [i \in 1..5 |-> r[5 - i] % base]
    BY <1>1 DEF TakenIn
  <1>3. 0 \div base = 0 /\ 0 % base = 0
    <2>1. 0 \in 0..base - 1 /\ 0 * base + 0 = 0
      BY SMT
    <2>2. (0 * base + 0) \div base = 0 /\ (0 * base + 0) % base = 0
      BY <2>1, DivisionUndoes
    <2> QED
      BY <2>1, <2>2
  <1>4. r[1] = 0
    BY <1>2, <1>3
  <1>5. r[2] = 0
    BY <1>2, <1>3, <1>4
  <1>6. r[3] = 0
    BY <1>2, <1>3, <1>5
  <1>7. r[4] = 0
    BY <1>2, <1>3, <1>6
  <1>8. \A i \in 1..5 : r[5 - i] = 0
    BY <1>2, <1>4, <1>5, <1>6, <1>7
  <1>9. Digits(0, base, 5) = [i \in 1..5 |-> 0]
    BY <1>2, <1>3, <1>8
  <1> QED
    BY <1>9

LEMMA DigitsAtIs ==
  ASSUME NEW s, NEW p, NEW m, InWords(s, p, m), NEW i \in 1..m
  PROVE  /\ DigitsAt(s, i) \in [1..5 -> Digit]
         /\ Composed(WordAt(s, i), ByteBase) = 0 => DigitsAt(s, i) = <<0, 0, 0, 0, 0>>
  <1>1. PICK w \in [1..4 -> Byte] : w = WordAt(s, i)
    BY WordAtIs
  <1>2. ByteBase \in Nat \ {0} /\ DigitBase \in Nat \ {0}
    BY BasesAssumption
  <1>3. PICK v : ComposedIn(w, ByteBase, 4, v)
    BY <1>2, ComposedIs DEF Byte
  <1>4. PICK x \in Nat : x = Composed(w, ByteBase)
    BY <1>3 DEF ComposedIn
  <1>5. DigitsAt(s, i) = Digits(x, DigitBase, 5)
    BY <1>1, <1>4, Zenon DEF DigitsAt
  <1>6. Digits(x, DigitBase, 5) \in [1..5 -> 0..DigitBase - 1]
    BY <1>2, DigitsTypes
  <1>7. x = 0 => Digits(x, DigitBase, 5) = <<0, 0, 0, 0, 0>>
    BY <1>2, ZeroDigits
  <1> QED
    BY <1>1, <1>4, <1>5, <1>6, <1>7 DEF Digit

LEMMA DigitsOfLength ==
  ASSUME NEW s, NEW p, NEW m, InWords(s, p, m)
  PROVE  OfLength(Digit, m, [i \in 1..m |-> DigitsAt(s, i)], 5)
  <1>1. ASSUME NEW i \in 1..m
        PROVE  DigitsAt(s, i) \in Seq(Digit) /\ Len(DigitsAt(s, i)) = 5
    <2>1. PICK e \in [1..5 -> Digit] : e = DigitsAt(s, i)
      BY DigitsAtIs
    <2> QED
      BY <2>1, FiveLong
  <1> QED
    BY <1>1 DEF OfLength

(* A "z" or not, it is worth the digits.                                   *)
LEMMA CodeAtIs ==
  ASSUME NEW s, NEW p, NEW m, InWords(s, p, m), NEW i \in 1..m, NEW c \in Seq(Chars)
  PROVE  /\ CodeAt(s, i) \in Seq(Chars)
         /\ c \o CodeAt(s, i) \in Seq(Chars)
         /\ Long(c \o CodeAt(s, i)) = Long(c) \o DigitsAt(s, i)
  <1>1. PICK d \in [1..5 -> Digit] : d = DigitsAt(s, i)
    BY DigitsAtIs
  <1>2. d \in Seq(Digit) /\ \A x \in Digit : x \in Chars
    BY FiveLong DEF Chars
  <1>3. CASE IsShort(Composed(WordAt(s, i), ByteBase), Len(s) - 4 * i)
    <2>1. CodeAt(s, i) = <<Z>>
      BY <1>3 DEF CodeAt
    <2>2. d = <<0, 0, 0, 0, 0>>
      BY <1>1, <1>3, DigitsAtIs DEF IsShort
    <2>3. Z \in Chars /\ Worth(Z) = <<0, 0, 0, 0, 0>>
      BY DEF Chars, Worth
    <2>4. Long(c \o <<Z>>) = Long(c) \o d
      BY <2>2, <2>3, LongStep
    <2>5. <<Z>> \in Seq(Chars) /\ c \o <<Z>> \in Seq(Chars)
      BY <2>3, ConcatProperties
    <2> QED
      BY <1>1, <2>1, <2>4, <2>5
  <1>4. CASE ~IsShort(Composed(WordAt(s, i), ByteBase), Len(s) - 4 * i)
    <2>1. CodeAt(s, i) = d
      BY <1>1, <1>4 DEF CodeAt
    <2>2. d \in Seq(Chars)
      BY <1>1, <1>2
    <2>3. Long(c \o d) = Long(c) \o d /\ c \o d \in Seq(Chars)
      BY <1>2, LongDigits
    <2> QED
      BY <1>1, <2>1, <2>2, <2>3
  <1> QED
    BY <1>3, <1>4

LEMMA FrontOfConcat ==
  ASSUME NEW S, NEW a \in Seq(S), NEW b \in Seq(S), NEW n \in 0..Len(b)
  PROVE  SubSeq(a \o b, 1, Len(a) + n) = a \o SubSeq(b, 1, n)
  <1>1. PICK la, lb \in Nat : la = Len(a) /\ lb = Len(b)
    BY LenProperties
  <1>2. PICK c, d, e, f : c = a \o b /\ d = SubSeq(c, 1, la + n) /\
                               e = SubSeq(b, 1, n) /\ f = a \o e
    OBVIOUS
  <1>3. /\ c \in Seq(S) /\ Len(c) = la + lb
        /\ \A t \in 1..la + lb : c[t] = IF t <= la THEN a[t] ELSE b[t - la]
    BY <1>1, <1>2, ConcatProperties
  <1>4. la + n \in 0..Len(c)
    BY <1>1, <1>3
  <1>5. d \in Seq(S) /\ Len(d) = la + n /\ \A t \in 1..la + n : d[t] = c[t]
    BY <1>2, <1>3, <1>4, FrontIs
  <1>6. e \in Seq(S) /\ Len(e) = n /\ \A t \in 1..n : e[t] = b[t]
    BY <1>2, FrontIs
  <1>7. /\ f \in Seq(S) /\ Len(f) = la + n
        /\ \A t \in 1..la + n : f[t] = IF t <= la THEN a[t] ELSE e[t - la]
    BY <1>1, <1>2, <1>6, ConcatProperties
  <1>8. ASSUME NEW t \in 1..la + n PROVE d[t] = f[t]
    <2>1. d[t] = IF t <= la THEN a[t] ELSE b[t - la]
      BY <1>1, <1>3, <1>5
    <2>2. CASE t <= la
      BY <1>7, <2>1, <2>2
    <2>3. CASE ~(t <= la)
      <3>1. t - la \in 1..n
        BY <1>1, <2>3
      <3> QED
        BY <1>6, <1>7, <2>1, <2>3, <3>1
    <2> QED
      BY <2>2, <2>3
  <1>9. d = f
    BY <1>5, <1>7, <1>8, SeqEqual
  <1> QED
    BY <1>1, <1>2, <1>9

LEMMA LongEmpty == Long(<<>>) = <<>>
  <1>1. PICK r : r = [i \in 1..0 |-> Worth(<<>>[i])]
    OBVIOUS
  <1>2. r \in [1..0 -> Seq(Digit)] /\ 0 \in Nat
    BY <1>1
  <1>3. PICK flat : FlattenedBy(Digit, 0, r, flat)
    BY <1>2, FlattenLoop
  <1>4. FlattenSeq(r) = <<>>
    BY <1>3 DEF FlattenedBy
  <1>5. Len(<<>>) = 0
    OBVIOUS
  <1> QED
    BY <1>1, <1>4, <1>5, Zenon DEF Long

(* What is encoded is worth the digits of the words without the last ones. *)
LEMMA EncodedIs ==
  ASSUME NEW s, NEW p, NEW m, InWords(s, p, m), NEW flat,
         FlattenedBy(Digit, m, [i \in 1..m |-> DigitsAt(s, i)], flat)
  PROVE  Long(Encode(s)) = SubSeq(flat[m], 1, 5 * m - p)
  <1>1. /\ s \in Seq(Byte) /\ p \in 0..3 /\ m \in Nat /\ Missing(s, 4) = p
        /\ Len(s) \in Nat /\ Len(s) + p = 4 * m
    BY LenProperties DEF InWords
  <1>2. /\ flat[0] = <<>>
        /\ \A i \in Nat : i < m => flat[i + 1] = flat[i] \o DigitsAt(s, i + 1)
    <2>1. PICK q : q = [i \in 1..m |-> DigitsAt(s, i)]
      OBVIOUS
    <2>2. FlattenedBy(Digit, m, q, flat)
      BY <2>1
    <2>3. flat[0] = <<>> /\ \A i \in Nat : i < m => flat[i + 1] = flat[i] \o q[i + 1]
      BY <2>2 DEF FlattenedBy
    <2>4. ASSUME NEW i \in Nat, i < m PROVE q[i + 1] = DigitsAt(s, i + 1)
      <3>1. i + 1 \in 1..m
        BY <1>1, <2>4
      <3> QED
        BY <2>1, <3>1
    <2> QED
      BY <2>3, <2>4
  <1>3. PICK r : r = [i \in 1..m |-> CodeAt(s, i)]
    OBVIOUS
  <1>4. r \in [1..m -> Seq(Chars)]
    <2>1. <<>> \in Seq(Chars)
      OBVIOUS
    <2>2. \A i \in 1..m : CodeAt(s, i) \in Seq(Chars)
      BY <2>1, CodeAtIs
    <2> QED
      BY <1>3, <2>2
  <1>5. PICK cod : FlattenedBy(Chars, m, r, cod)
    BY <1>1, <1>4, FlattenLoop
  <1>6. /\ cod \in [Nat -> Seq(Chars)] /\ cod[0] = <<>> /\ FlattenSeq(r) = cod[m]
        /\ \A i \in Nat : i < m => cod[i + 1] = cod[i] \o CodeAt(s, i + 1)
    <2>1. /\ cod \in [Nat -> Seq(Chars)] /\ cod[0] = <<>> /\ FlattenSeq(r) = cod[m]
          /\ \A i \in Nat : i < m => cod[i + 1] = cod[i] \o r[i + 1]
      BY <1>5 DEF FlattenedBy
    <2>2. ASSUME NEW i \in Nat, i < m PROVE r[i + 1] = CodeAt(s, i + 1)
      <3>1. i + 1 \in 1..m
        BY <1>1, <2>2
      <3> QED
        BY <1>3, <3>1
    <2> QED
      BY <2>1, <2>2
  <1>7. Encode(s) = SubSeq(cod[m], 1, Len(cod[m]) - p)
    <2>1. Len(Padded(s, 4, 0)) = 4 * m
      BY FullIs
    <2>2. (4 * m) \div 4 = m
      BY <1>1
    <2>3. Len(Padded(s, 4, 0)) \div 4 = m
      BY <2>1, <2>2
    <2>4. Encode(s) = Without(FlattenSeq(r), p)
      BY <1>1, <1>3, <2>3, ZenonT(60) DEF Encode, CodeAt, WordAt, DigitsAt
    <2> QED
      BY <1>6, <2>4, Zenon DEF Without
  <1>8. \A k \in 0..m : Long(cod[k]) = flat[k]
    <2> DEFINE T == {k \in 0..m : \A h \in 0..k : Long(cod[h]) = flat[h]}
    <2>1. 0 \in T
      <3>1. Long(cod[0]) = flat[0]
        BY <1>2, <1>6, LongEmpty
      <3>2. 0 \in 0..m /\ \A h \in 0..0 : h = 0
        BY <1>1
      <3> QED
        BY <3>1, <3>2
    <2>2. ASSUME NEW k \in 0..m - 1, k \in T PROVE k + 1 \in T
      <3>1. k \in Nat /\ k < m /\ k + 1 \in 1..m /\ k + 1 \in 0..m /\ k \in 0..k
        BY <1>1
      <3>2. PICK c \in Seq(Chars) : c = cod[k]
        BY <1>6, <3>1
      <3>3. Long(c) = flat[k]
        BY <2>2, <3>1, <3>2
      <3>4. Long(c \o CodeAt(s, k + 1)) = Long(c) \o DigitsAt(s, k + 1)
        BY <3>1, CodeAtIs
      <3>5. Long(cod[k + 1]) = flat[k + 1]
        BY <1>2, <1>6, <3>1, <3>2, <3>3, <3>4
      <3>6. \A h \in 0..k + 1 : h = k + 1 \/ h \in 0..k
        BY <3>1
      <3> QED
        BY <2>2, <3>1, <3>5, <3>6
    <2> HIDE DEF T
    <2>3. m \in T
      BY <1>1, <2>1, <2>2, LoopInd
    <2> QED
      BY <2>3 DEF T
  <1>9. CASE m = 0
    <2>1. p = 0
      BY <1>1, <1>9
    <2>2. Len(<<>>) = 0 /\ 0 - 0 = 0 /\ 5 * 0 - 0 = 0
      OBVIOUS
    <2>3. SubSeq(<<>>, 1, 0) = <<>>
      BY SubSeqEmpty
    <2>4. Encode(s) = <<>>
      BY <1>6, <1>7, <1>9, <2>1, <2>2, <2>3
    <2>5. SubSeq(flat[m], 1, 5 * m - p) = <<>>
      BY <1>2, <1>9, <2>1, <2>2, <2>3
    <2> QED
      BY <2>4, <2>5, LongEmpty
  <1>10. CASE m # 0
    <2>1. PICK k \in Nat : k + 1 = m /\ k < m /\ k \in 0..m /\ m \in 1..m
      <3>1. m - 1 \in Nat /\ (m - 1) + 1 = m /\ m - 1 < m
        BY <1>1, <1>10
      <3> QED
        BY <1>1, <1>10, <3>1
    <2>2. PICK c \in Seq(Chars) : c = cod[k]
      BY <1>6
    <2>3. PICK d \in [1..5 -> Digit] : d = DigitsAt(s, m)
      BY <2>1, DigitsAtIs
    <2>4. d \in Seq(Digit) /\ Len(d) = 5
      BY FiveLong
    <2>5. CodeAt(s, m) = d
      <3>1. ~(Len(s) - 4 * m >= 4)
        BY <1>1
      <3> QED
        BY <2>3, <3>1 DEF CodeAt, IsShort
    <2>6. d \in Seq(Chars)
      <3>1. \A x \in Digit : x \in Chars
        BY DEF Chars
      <3>2. d \in [1..5 -> Chars]
        BY <3>1
      <3> QED
        BY <3>2, FiveLong
    <2>7. PICK n \in 0..5 : n = 5 - p
      BY <1>1
    <2>8. PICK x : x = SubSeq(d, 1, n)
      OBVIOUS
    <2>9. x \in Seq(Digit)
      BY <2>4, <2>7, <2>8, FrontIs
    <2>10. Encode(s) = c \o x
      <3>1. cod[m] = c \o d
        BY <1>6, <2>1, <2>2, <2>5
      <3>2. Len(c) \in Nat /\ Len(c \o d) = Len(c) + 5
        <4>1. Len(c \o d) = Len(c) + Len(d)
          BY <2>6, ConcatProperties
        <4>2. Len(c) \in Nat
          BY LenProperties
        <4> QED
          BY <2>4, <4>1, <4>2
      <3>3. Len(c \o d) - p = Len(c) + n
        BY <1>1, <2>7, <3>2
      <3>4. SubSeq(c \o d, 1, Len(c) + n) = c \o x
        <4>1. n \in 0..Len(d)
          BY <2>4, <2>7
        <4> QED
          BY <2>6, <2>8, <4>1, FrontOfConcat
      <3> QED
        BY <1>7, <3>1, <3>3, <3>4
    <2>11. Long(c \o x) = Long(c) \o x
      BY <2>9, LongDigits
    <2>12. Long(c) = flat[k]
      BY <1>8, <2>1, <2>2
    <2>13. flat[k] \in Seq(Digit) /\ Len(flat[k]) = 5 * k
      <3>1. PICK q : q = [i \in 1..m |-> DigitsAt(s, i)]
        OBVIOUS
      <3>2. PICK five \in Nat : five = 5
        OBVIOUS
      <3>3. OfLength(Digit, m, q, five)
        BY <3>1, <3>2, DigitsOfLength
      <3>4. FlattenedBy(Digit, m, q, flat)
        BY <3>1
      <3>5. InPieces(Digit, five, k, q, flat[k])
        BY <1>1, <2>1, <3>3, <3>4, FlattenedPieces
      <3>6. flat[k] \in Seq(Digit) /\ Len(flat[k]) = five * k
        BY <3>5 DEF InPieces
      <3> QED
        BY <3>2, <3>6
    <2>14. SubSeq(flat[k] \o d, 1, Len(flat[k]) + n) = flat[k] \o x
      <3>1. PICK a \in Seq(Digit) : a = flat[k]
        BY <2>13
      <3>2. SubSeq(a \o d, 1, Len(a) + n) = a \o x
        <4>1. n \in 0..Len(d)
          BY <2>4, <2>7
        <4> QED
          BY <2>4, <2>8, <4>1, FrontOfConcat
      <3> QED
        BY <3>1, <3>2
    <2>15. flat[m] = flat[k] \o d
      BY <1>2, <2>1, <2>3
    <2>16. Len(flat[k]) + n = 5 * m - p
      BY <1>1, <2>1, <2>7, <2>13
    <2> QED
      BY <2>10, <2>11, <2>12, <2>14, <2>15, <2>16
  <1> QED
    BY <1>9, <1>10

(* The groups of what is decoded.                                          *)
GroupAt(g, i) == SubSeq(g, 5 * i - 4, 5 * i)
ReadAt(g, i) == Digits(Composed(GroupAt(g, i), DigitBase) % Words, ByteBase, 4)
LEMMA GroupAtIs ==
  ASSUME NEW g \in Seq(Digit), NEW m \in Nat, Len(g) = 5 * m, NEW i \in 1..m
  PROVE  /\ GroupAt(g, i) \in [1..5 -> Digit]
         /\ \A j \in 1..5 : GroupAt(g, i)[j] = g[5 * i - 5 + j]
  <1>1. PICK from \in Nat \ {0}, to \in Int : from = 5 * i - 4 /\ to = 5 * i
    OBVIOUS
  <1>2. PICK n \in Nat : n = 5 /\ to = from + n - 1 /\ to <= Len(g)
    BY <1>1
  <1>5. /\ SubSeq(g, from, to) \in [1..n -> Digit]
        /\ \A j \in 1..n : SubSeq(g, from, to)[j] = g[from + j - 1]
    <2>1. to = from + n - 1 /\ to <= Len(g)
      BY <1>2
    <2>2. IsPiece(Digit, g, from, n, SubSeq(g, from, to))
      BY <2>1, PieceIs
    <2> QED
      BY <2>2 DEF IsPiece
  <1>6. GroupAt(g, i) = SubSeq(g, from, to)
    BY <1>1, Zenon DEF GroupAt
  <1>7. \A j \in 1..5 : from + j - 1 = 5 * i - 5 + j
    BY <1>1
  <1> QED
    BY <1>2, <1>5, <1>6, <1>7

(* What is read from the digits of the words, when the missing ones are    *)
(* the highest, are the bytes.                                             *)
Refilled(s, p, m, g) ==
  /\ g \in Seq(Digit) /\ Len(g) = 5 * m
  /\ \A i \in 1..m : \A j \in 1..5 :
       g[5 * i - 5 + j] = IF 5 * i - 5 + j <= 5 * m - p THEN DigitsAt(s, i)[j]
           ELSE DigitBase - 1
LEMMA ReadAtIs ==
  ASSUME NEW s, NEW p, NEW m, InWords(s, p, m), NEW g, Refilled(s, p, m, g), NEW i \in 1..m
  PROVE  /\ ReadAt(g, i) \in [1..4 -> Byte]
         /\ \A j \in 1..4 : 4 * i - 4 + j <= Len(s) => ReadAt(g, i)[j] = s[4 * i - 4 + j]
  <1>1. /\ s \in Seq(Byte) /\ p \in 0..3 /\ m \in Nat
        /\ Len(s) \in Nat /\ Len(s) + p = 4 * m
    BY LenProperties DEF InWords
  <1>2. PICK q \in 0..3 : q = IF i = m THEN p ELSE 0
    BY <1>1
  <1>3. PICK w \in [1..4 -> Byte] : w = WordAt(s, i)
    BY WordAtIs
  <1>4. PICK word \in [1..5 -> Digit] : word = GroupAt(g, i)
    BY <1>1, GroupAtIs DEF Refilled
  <1>5. ASSUME NEW j \in 1..4
        PROVE  /\ 4 * i - 4 + j \in 1..4 * m
               /\ 4 * i - 4 + j <= Len(s) <=> j <= 4 - q
               /\ w[j] = IF j <= 4 - q THEN s[4 * i - 4 + j] ELSE 0
    <2>1. PICK t : t = 4 * i - 4 + j
      OBVIOUS
    <2>2. t \in 1..4 * m
      BY <1>1, <2>1
    <2>3. t <= Len(s) <=> j <= 4 - q
      <3>1. CASE i = m
        BY <1>1, <1>2, <2>1, <3>1
      <3>2. CASE i # m
        BY <1>1, <1>2, <2>1, <3>2
      <3> QED
        BY <3>1, <3>2
    <2>4. w[j] = Padded(s, 4, 0)[t]
      BY <1>3, <2>1, WordAtIs
    <2>5. Padded(s, 4, 0)[t] = IF t <= Len(s) THEN s[t] ELSE 0
      BY <2>2, FullIs
    <2> QED
      BY <2>1, <2>2, <2>3, <2>4, <2>5
  <1>6. ASSUME NEW j \in 1..5
        PROVE  word[j] = IF j <= 5 - q THEN Digits(Composed(w, ByteBase), DigitBase, 5)[j]
                         ELSE DigitBase - 1
    <2>1. PICK t : t = 5 * i - 5 + j
      OBVIOUS
    <2>2. t <= 5 * m - p <=> j <= 5 - q
      <3>1. CASE i = m
        BY <1>1, <1>2, <2>1, <3>1
      <3>2. CASE i # m
        BY <1>1, <1>2, <2>1, <3>2
      <3> QED
        BY <3>1, <3>2
    <2>3. word[j] = g[t]
      BY <1>1, <1>4, <2>1, GroupAtIs DEF Refilled
    <2>4. g[t] = IF t <= 5 * m - p THEN DigitsAt(s, i)[j] ELSE DigitBase - 1
      BY <2>1 DEF Refilled
    <2>5. DigitsAt(s, i) = Digits(Composed(w, ByteBase), DigitBase, 5)
      BY <1>3, Zenon DEF DigitsAt
    <2> QED
      BY <2>2, <2>3, <2>4, <2>5
  <1>7. PICK read : read = Digits(Composed(word, DigitBase) % Words, ByteBase, 4)
    OBVIOUS
  <1>8. read \in [1..4 -> Byte] /\ \A j \in 1..4 - q : read[j] = w[j]
    <2>1. ASSUME NEW j \in 1..4, j > 4 - q PROVE w[j] = 0
      <3>1. ~(j <= 4 - q)
        BY <2>1
      <3> QED
        BY <1>5, <3>1
    <2> QED
      BY <1>6, <1>7, <2>1, WordComesBack
  <1>9. ReadAt(g, i) = read
    BY <1>4, <1>7, Zenon DEF ReadAt
  <1>10. ASSUME NEW j \in 1..4, 4 * i - 4 + j <= Len(s) PROVE read[j] = s[4 * i - 4 + j]
    <2>1. j <= 4 - q
      BY <1>5, <1>10
    <2>2. j \in 1..4 - q
      BY <2>1
    <2> QED
      BY <1>5, <1>8, <2>1, <2>2
  <1> QED
    BY <1>8, <1>9, <1>10

LEMMA FourLong ==
  ASSUME NEW S, NEW d \in [1..4 -> S]
  PROVE  d \in Seq(S) /\ Len(d) = 4
  <1>1. PICK n \in Nat : n = 4
    OBVIOUS
  <1>2. d \in [1..n -> S]
    BY <1>1
  <1>3. d \in Seq(S) /\ Len(d) = n
    BY <1>2, LenProperties
  <1> QED
    BY <1>1, <1>3

LEMMA DecodesWhatIsEncoded ==
  ASSUME NEW s \in Seq(Byte)
  PROVE  Decode(Encode(s)) = s
  <1>1. PICK p, m : InWords(s, p, m)
    BY WordsExist
  <1>2. /\ p \in 0..3 /\ p \in Nat /\ m \in Nat /\ Len(s) \in Nat /\ Len(s) + p = 4 * m
    BY <1>1, LenProperties DEF InWords
  <1>3. PICK r : r = [i \in 1..m |-> DigitsAt(s, i)]
    OBVIOUS
  <1>4. PICK five \in Nat : five = 5
    OBVIOUS
  <1>5. OfLength(Digit, m, r, five)
    BY <1>1, <1>3, <1>4, DigitsOfLength
  <1>6. PICK flat : FlattenedBy(Digit, m, r, flat)
    BY <1>2, <1>5, FlattenLoop DEF OfLength
  <1>7. PICK f : f = flat[m]
    OBVIOUS
  <1>8. /\ f \in Seq(Digit) /\ Len(f) = 5 * m
        /\ \A i \in 1..m : \A j \in 1..5 : f[5 * i - 5 + j] = DigitsAt(s, i)[j]
    <2>1. InPieces(Digit, five, m, r, f)
      <3>1. m \in 0..m
        BY <1>2
      <3> QED
        BY <1>2, <1>5, <1>6, <1>7, <3>1, FlattenedPieces
    <2>2. /\ f \in Seq(Digit) /\ Len(f) = five * m
          /\ \A i \in 1..m : \A j \in 1..five : f[five * i - five + j] = r[i][j]
      BY <2>1 DEF InPieces
    <2> QED
      BY <1>3, <1>4, <2>2
  <1>9. PICK len \in Nat : len = 5 * m - p /\ len \in 0..Len(f)
    <2>1. 5 * m - p \in Nat /\ 5 * m - p <= 5 * m
      BY <1>2
    <2> QED
      BY <1>8, <2>1
  <1>10. PICK long : long = Long(Encode(s))
    OBVIOUS
  <1>11. long \in Seq(Digit) /\ Len(long) = len /\ \A t \in 1..len : long[t] = f[t]
    <2>1. long = SubSeq(f, 1, len)
      BY <1>1, <1>3, <1>6, <1>7, <1>9, <1>10, EncodedIs
    <2> QED
      BY <1>8, <1>9, <2>1, FrontIs
  <1>12. Missing(long, 5) = p
    <2>1. (5 - (len % 5)) % 5 = p
      BY <1>2, <1>9, MissingFive
    <2> QED
      BY <1>11, <2>1 DEF Missing
  <1>13. PICK g : g = Padded(long, 5, DigitBase - 1)
    OBVIOUS
  <1>14. /\ g \in Seq(Digit) /\ Len(g) = 5 * m
         /\ \A t \in 1..5 * m : g[t] = IF t <= len THEN f[t] ELSE DigitBase - 1
    <2>1. PICK u \in Digit : u = DigitBase - 1
      BY BasesAssumption DEF Digit
    <2>2. /\ g \in Seq(Digit) /\ Len(g) = Len(long) + p
          /\ \A t \in 1..Len(long) + p : g[t] = IF t <= Len(long) THEN long[t] ELSE u
      <3>1. long \in Seq(Digit) /\ g = Padded(long, 5, u)
        BY <1>11, <1>13, <2>1
      <3> QED
        BY <1>2, <1>12, <3>1, PaddedIs
    <2>3. Len(long) + p = 5 * m
      BY <1>2, <1>9, <1>11
    <2> QED
      BY <1>11, <2>1, <2>2, <2>3
  <1>15. Refilled(s, p, m, g)
    <2>1. ASSUME NEW i \in 1..m, NEW j \in 1..5
          PROVE  g[5 * i - 5 + j] = IF 5 * i - 5 + j <= 5 * m - p THEN DigitsAt(s, i)[j]
                                    ELSE DigitBase - 1
      <3>1. PICK t : t = 5 * i - 5 + j
        OBVIOUS
      <3>2. t \in 1..5 * m
        BY <1>2, <3>1
      <3>3. f[t] = DigitsAt(s, i)[j]
        BY <1>8, <3>1
      <3>4. g[t] = IF t <= len THEN f[t] ELSE DigitBase - 1
        BY <1>14, <3>2
      <3> QED
        BY <1>9, <3>1, <3>3, <3>4
    <2> QED
      BY <1>14, <2>1 DEF Refilled
  <1>16. PICK bytes : bytes = [i \in 1..m |-> ReadAt(g, i)]
    OBVIOUS
  <1>17. \A i \in 1..m :
           /\ bytes[i] \in Seq(Byte) /\ Len(bytes[i]) = 4
           /\ \A j \in 1..4 : 4 * i - 4 + j <= Len(s) => bytes[i][j] = s[4 * i - 4 + j]
    <2> SUFFICES ASSUME NEW i \in 1..m
                 PROVE  /\ bytes[i] \in Seq(Byte) /\ Len(bytes[i]) = 4
                        /\ \A j \in 1..4 :
                             4 * i - 4 + j <= Len(s) => bytes[i][j] = s[4 * i - 4 + j]
      OBVIOUS
    <2>1. PICK read \in [1..4 -> Byte] :
            /\ read = ReadAt(g, i)
            /\ \A j \in 1..4 : 4 * i - 4 + j <= Len(s) => read[j] = s[4 * i - 4 + j]
      BY <1>1, <1>15, ReadAtIs
    <2>2. bytes[i] = read
      BY <1>16, <2>1
    <2>3. read \in Seq(Byte) /\ Len(read) = 4
      BY FourLong
    <2> QED
      BY <2>1, <2>2, <2>3
  <1>18. PICK four \in Nat : four = 4
    OBVIOUS
  <1>19. OfLength(Byte, m, bytes, four)
    BY <1>16, <1>17, <1>18 DEF OfLength
  <1>20. PICK all : FlattenedBy(Byte, m, bytes, all)
    BY <1>2, <1>19, FlattenLoop DEF OfLength
  <1>21. PICK h : h = all[m] /\ h = FlattenSeq(bytes)
    BY <1>20 DEF FlattenedBy
  <1>22. /\ h \in Seq(Byte) /\ Len(h) = 4 * m
         /\ \A i \in 1..m : \A j \in 1..4 : h[4 * i - 4 + j] = bytes[i][j]
    <2>1. InPieces(Byte, four, m, bytes, h)
      <3>1. m \in 0..m
        BY <1>2
      <3> QED
        BY <1>2, <1>19, <1>20, <1>21, <3>1, FlattenedPieces
    <2>2. /\ h \in Seq(Byte) /\ Len(h) = four * m
          /\ \A i \in 1..m : \A j \in 1..four : h[four * i - four + j] = bytes[i][j]
      BY <2>1 DEF InPieces
    <2> QED
      BY <1>18, <2>2
  <1>23. Decode(Encode(s)) = SubSeq(h, 1, Len(s))
    <2>1. Len(g) \div 5 = m
      <3>1. (5 * m) \div 5 = m
        BY <1>2
      <3> QED
        BY <1>14, <3>1
    <2>2. Decode(Encode(s)) = Without(FlattenSeq(bytes), p)
      BY <1>10, <1>12, <1>13, <1>16, <2>1, ZenonT(60) DEF Decode, ReadAt, GroupAt
    <2>3. Len(h) - p = Len(s)
      BY <1>2, <1>22
    <2> QED
      BY <1>21, <2>2, <2>3 DEF Without
  <1>24. PICK d : d = SubSeq(h, 1, Len(s))
    OBVIOUS
  <1>25. d \in Seq(Byte) /\ Len(d) = Len(s) /\ \A t \in 1..Len(s) : d[t] = h[t]
    <2>1. Len(s) \in 0..Len(h)
      BY <1>2, <1>22
    <2> QED
      BY <1>22, <1>24, <2>1, FrontIs
  <1>26. ASSUME NEW t \in 1..Len(s) PROVE d[t] = s[t]
    <2>1. PICK i \in 1..m, j \in 1..4 : t = 4 * i - 4 + j
      <3>1. PICK n \in Nat : n = 4
        OBVIOUS
      <3>2. PICK q \in Nat, rest \in 0..n - 1 : t - 1 = n * q + rest
        <4>1. PICK x \in Nat : x = t - 1
          BY <1>2
        <4>2. n \in Nat \ {0}
          BY <3>1
        <4>3. x \div n \in Nat /\ x % n \in 0..n - 1 /\ x = n * (x \div n) + (x % n)
          BY <4>2, Division, Zenon
        <4> QED
          BY <4>1, <4>3, Zenon
      <3>3. q + 1 \in 1..m /\ rest + 1 \in 1..4 /\ t = 4 * (q + 1) - 4 + (rest + 1)
        BY <1>2, <3>1, <3>2
      <3> QED
        BY <3>3
    <2>2. h[t] = bytes[i][j]
      BY <1>22, <2>1
    <2>3. bytes[i][j] = s[t]
      <3>1. 4 * i - 4 + j <= Len(s)
        BY <1>2, <2>1
      <3>2. bytes[i][j] = s[4 * i - 4 + j]
        BY <1>17, <3>1
      <3> QED
        BY <2>1, <3>2
    <2> QED
      BY <1>25, <2>2, <2>3
  <1>27. d = s
    BY <1>25, <1>26, SeqEqual
  <1> QED
    BY <1>23, <1>24, <1>27

AsciiInv ==
  /\ source \in Sources /\ ascii \in {<<>>, Encode(source)}
  /\ decoded \in {<<>>, <<source>>}

(* What dse/clib/util/ascii85.c encoded it decodes again, for every        *)
(* sequence of bytes, however it ends, and every two bases that stand to   *)
(* each other as 256 and 85 do.                                            *)
THEOREM DecodesAgain == AsciiInit /\ [][AsciiNext]_asciiVars => []RoundTrips
  <1>1. AsciiInit => AsciiInv
    BY DEF AsciiInit, AsciiInv
  <1>2. AsciiInv /\ [AsciiNext]_asciiVars => AsciiInv'
    <2> SUFFICES ASSUME AsciiInv, [AsciiNext]_asciiVars PROVE AsciiInv'
      OBVIOUS
    <2>1. CASE UNCHANGED asciiVars
      BY <2>1 DEF AsciiInv, asciiVars
    <2>2. CASE ascii = <<>> /\ DseAscii85Encode
      BY <2>2 DEF AsciiInv, DseAscii85Encode
    <2>3. CASE ascii # <<>> /\ DseAscii85Decode
      <3>1. Decode(Encode(source)) = source
        BY SourcesAssumption, DecodesWhatIsEncoded DEF AsciiInv, Byte
      <3> QED
        BY <2>3, <3>1 DEF AsciiInv, DseAscii85Decode
    <2> QED
      BY <2>1, <2>2, <2>3 DEF AsciiNext
  <1>3. AsciiInv => RoundTrips
    BY DEF AsciiInv, RoundTrips
  <1> QED
    BY <1>1, <1>2, <1>3, PTL

-----------------------------------------------------------------------------
(* The sums, pass by pass.                                                 *)
LEMMA SumsAre ==
  ASSUME NEW start \in Nat, NEW n \in Nat, NEW sizes \in [1..n -> Nat]
  PROVE  /\ SumsFrom(start, sizes) \in [0..n -> Nat]
         /\ SumsFrom(start, sizes)[0] = start
         /\ \A i \in 1..n : SumsFrom(start, sizes)[i] = SumsFrom(start, sizes)[i - 1] + sizes[i]
  <1>1. sizes \in Seq(Nat) /\ Len(sizes) = n
    BY LenProperties
  <1> DEFINE step == [i \in Nat |-> [x \in Nat |-> IF i \in 1..n THEN x + sizes[i] ELSE x]]
             Loop(h) == h = [i \in 0..n |-> IF i = 0 THEN start ELSE h[i - 1] + sizes[i]]
  <1>2. step \in [Nat -> [Nat -> Nat]]
    OBVIOUS
  <1>3. PICK h \in [0..n -> Nat] : IsLoop(h, n, start, step)
    <2> HIDE DEF step
    <2> QED
      BY <1>2, LoopRec
  <1>4. ASSUME NEW i \in 0..n
        PROVE  h[i] = IF i = 0 THEN start ELSE h[i - 1] + sizes[i]
    <2>1. CASE i = 0
      BY <1>3, <2>1 DEF IsLoop
    <2>2. CASE i # 0
      <3>1. i \in 1..n /\ i - 1 \in 0..n /\ i \in Nat
        BY <2>2
      <3>2. h[i - 1] \in Nat
        BY <1>3, <3>1
      <3>3. h[i] = step[i][h[i - 1]]
        <4> HIDE DEF step
        <4> QED
          BY <1>3, <2>2, <3>1 DEF IsLoop
      <3> QED
        BY <2>2, <3>1, <3>2, <3>3
    <2> QED
      BY <2>1, <2>2
  <1>5. Loop(h)
    BY <1>3, <1>4
  <1> HIDE DEF step
  <1> DEFINE g == CHOOSE f : Loop(f)
  <1>6. Loop(g)
    BY <1>5
  <1>7. SumsFrom(start, sizes) = g
    BY <1>1, Zenon DEF SumsFrom
  <1> HIDE DEF g
  <1>8. \A i \in 0..n : g[i] = IF i = 0 THEN start ELSE g[i - 1] + sizes[i]
    BY <1>6
  <1>9. DOMAIN g = 0..n
    BY <1>6
  <1>10. g = [i \in 0..n |-> g[i]]
    BY <1>6
  <1> HIDE DEF Loop
  <1> DEFINE T == {i \in 0..n : \A j \in 0..i : g[j] = h[j]}
  <1>11. n \in T
    <2>1. 0 \in T
      BY <1>4, <1>8
    <2>2. ASSUME NEW i \in 0..n - 1, i \in T PROVE i + 1 \in T
      <3>1. i + 1 \in 0..n /\ i + 1 # 0 /\ (i + 1) - 1 = i
        OBVIOUS
      <3>2. g[i + 1] = g[i] + sizes[i + 1] /\ h[i + 1] = h[i] + sizes[i + 1]
        BY <1>4, <1>8, <3>1
      <3>3. g[i + 1] = h[i + 1]
        BY <2>2, <3>2
      <3>4. \A j \in 0..i + 1 : j = i + 1 \/ j \in 0..i
        OBVIOUS
      <3> QED
        BY <2>2, <3>1, <3>3, <3>4
    <2> HIDE DEF T
    <2> QED
      BY <2>1, <2>2, LoopInd
  <1>12. \A i \in 0..n : g[i] = h[i]
    BY <1>11
  <1>13. g \in [0..n -> Nat]
    BY <1>3, <1>10, <1>12
  <1>14. \A i \in 1..n : g[i] = g[i - 1] + sizes[i]
    BY <1>8
  <1>15. g[0] = start
    BY <1>8
  <1> QED
    BY <1>7, <1>13, <1>14, <1>15

(* The sizes of blocks, and of texts.                                      *)
LEMMA SizesAre ==
  /\ SizeOf.ID = 64 /\ SizeOf.HD = 104 /\ SizeOf.FH = 56 /\ SizeOf.MD = 24
  /\ SizeOf.TX = 24 /\ SizeOf.CN = 160 /\ SizeOf.CG = 104 /\ SizeOf.DG = 64
  /\ SizeOf.DT = 24 /\ Metadata = 152 /\ MasterSize = 192
  BY DEF SizeOf, HeaderSection, Metadata, MasterSize

Place == {x \in Nat : x % 8 = 0}
(* Texts are filled up to a multiple of a word.                            *)
LEMMA TextsFill ==
  ASSUME NEW name \in Nat
  PROVE  GetOffset(name) \in Place /\ GetOffset(name) > 0
             /\ TextSize(name) = 24 + GetOffset(name)
  <1>1. TextSize(name) = 24 + GetOffset(name)
    BY SizesAre DEF TextSize
  <1>2. PICK size \in Nat : size = name + 1
    OBVIOUS
  <1>3. PICK q, r : q = size \div 8 /\ r = size % 8
    OBVIOUS
  <1>4. q \in Nat /\ r \in 0..7 /\ size = 8 * q + r
    BY <1>3, Division
  <1>5. GetOffset(name) = size + (IF r = 0 THEN 0 ELSE 8 - r)
    BY <1>2, <1>3 DEF GetOffset, Fulfilment
  <1>6. PICK p \in Nat : GetOffset(name) = 8 * p
    <2>1. CASE r = 0
      BY <1>4, <1>5, <2>1
    <2>2. CASE r # 0
      BY <1>4, <1>5, <2>2
    <2> QED
      BY <2>1, <2>2
  <1>7. (8 * p) % 8 = 0
    <2>1. (8 * p + 0) % 8 = 0
      BY RemainderUnique
    <2> QED
      BY <2>1
  <1>8. GetOffset(name) > 0
    BY <1>2, <1>4, <1>5
  <1> QED
    BY <1>1, <1>6, <1>7, <1>8 DEF Place

(* So are all that is made of them.                                        *)
LEMMA PlacesAdd ==
  /\ \A x, y \in Place : x + y \in Place
  /\ \A x \in {0, 8, 24, 56, 64, 104, 152, 160, 168, 192, 224, 400} : x \in Place
  <1>1. ASSUME NEW x \in Place, NEW y \in Place PROVE x + y \in Place
    <2>1. x \in Nat /\ y \in Nat /\ x % 8 = 0 /\ y % 8 = 0
      BY DEF Place
    <2>2. PICK p, q \in Nat : x = 8 * p /\ y = 8 * q
      <3>1. x = 8 * (x \div 8) /\ y = 8 * (y \div 8) /\ x \div 8 \in Nat /\ y \div 8 \in Nat
        BY <2>1, Division
      <3> QED
        BY <3>1
    <2>3. x + y = 8 * (p + q) + 0 /\ p + q \in Nat
      BY <2>2
    <2>4. (8 * (p + q) + 0) % 8 = 0
      BY <2>3, RemainderUnique
    <2> QED
      BY <2>1, <2>3, <2>4 DEF Place
  <1>2. \A x \in {0, 8, 24, 56, 64, 104, 152, 160, 168, 192, 224, 400} : x \in Place
    BY DEF Place
  <1> QED
    BY <1>1, <1>2

(* Where a group has its master channel, its channels and itself.          *)
Count(g) == Len(Signals(g))
StartOf(g) == GroupSums[g - 1]
ChannelAt(g, n) == StartOf(g) + MasterSize + ChannelSums(g)[n - 1]
GroupPlace(g) == StartOf(g) + MasterSize + ChannelsSize(g)

(* What a list of groups is.                                               *)
LEMMA GroupTypes ==
  ASSUME list \in Groups
  PROVE  /\ Len(list) \in Nat /\ DOMAIN list = 1..Len(list)
         /\ \A g \in 1..Len(list) :
              /\ list[g].name \in Names /\ list[g].name \in Nat
              /\ Count(g) \in Nat /\ DOMAIN Signals(g) = 1..Count(g)
              /\ Signals(g) \in [1..Count(g) -> Nat]
  <1>1. list \in Seq([name : Names, signal : Seq(Nat)])
    BY GroupsAssumption
  <1>2. Len(list) \in Nat /\ DOMAIN list = 1..Len(list)
        /\ list \in [1..Len(list) -> [name : Names, signal : Seq(Nat)]]
    BY <1>1, LenProperties
  <1>3. ASSUME NEW g \in 1..Len(list)
        PROVE  /\ list[g].name \in Names /\ list[g].name \in Nat
               /\ Count(g) \in Nat /\ DOMAIN Signals(g) = 1..Count(g)
               /\ Signals(g) \in [1..Count(g) -> Nat]
    <2>1. list[g].name \in Names /\ list[g].signal \in Seq(Nat)
      BY <1>2
    <2>2. Signals(g) \in Seq(Nat)
      BY <2>1 DEF Signals
    <2>3. Len(Signals(g)) \in Nat /\ DOMAIN Signals(g) = 1..Len(Signals(g))
          /\ Signals(g) \in [1..Len(Signals(g)) -> Nat]
      BY <2>2, LenProperties
    <2> QED
      BY <2>1, <2>3, LengthsAssumption DEF Count
  <1> QED
    BY <1>2, <1>3

(* What the first channels of a group take.                                *)
LEMMA ChannelSumsAre ==
  ASSUME list \in Groups, NEW g \in 1..Len(list)
  PROVE  /\ ChannelSums(g)[0] = 0
         /\ \A i \in 0..Count(g) : ChannelSums(g)[i] \in Place
         /\ \A i \in 1..Count(g) :
              /\ TextSize(Signals(g)[i]) \in Nat
              /\ ChannelSums(g)[i] = ChannelSums(g)[i - 1] + 160 + TextSize(Signals(g)[i])
         /\ ChannelsSize(g) = ChannelSums(g)[Count(g)]
  <1>1. PICK n \in Nat : n = Count(g)
    BY GroupTypes
  <1>2. PICK s \in [1..n -> Nat] : s = Signals(g)
    BY <1>1, GroupTypes
  <1>3. DOMAIN s = 1..n
    OBVIOUS
  <1>4. ASSUME NEW i \in 1..n PROVE TextSize(s[i]) \in Nat /\ 160 + TextSize(s[i]) \in Place
    <2>1. PICK t \in Nat : t = s[i]
      BY <1>2
    <2>2. TextSize(t) \in Place
      BY TextsFill, PlacesAdd
    <2>3. 160 + TextSize(t) \in Place
      BY <2>2, PlacesAdd
    <2> QED
      BY <2>1, <2>2, <2>3 DEF Place
  <1>5. PICK sizes : sizes = [i \in 1..n |-> 160 + TextSize(s[i])]
    OBVIOUS
  <1>6. sizes \in [1..n -> Nat]
    BY <1>4, <1>5
  <1>7. PICK sums : sums = SumsFrom(0, sizes)
    OBVIOUS
  <1>8. ChannelSums(g) = sums
    BY <1>2, <1>3, <1>5, <1>7, SizesAre DEF ChannelSums
  <1>9. sums \in [0..n -> Nat] /\ sums[0] = 0
            /\ \A i \in 1..n : sums[i] = sums[i - 1] + sizes[i]
    <2>1. 0 \in Nat
      OBVIOUS
    <2> QED
      BY <1>6, <1>7, <2>1, SumsAre, Zenon
  <1>10. \A i \in 1..n : sizes[i] = 160 + TextSize(s[i]) /\ sizes[i] \in Place
    BY <1>4, <1>5
  <1>11. \A i \in 0..n : sums[i] \in Place
    <2> DEFINE T == {i \in 0..n : \A j \in 0..i : sums[j] \in Place}
    <2>1. 0 \in T
      <3>1. sums[0] \in Place
        BY <1>9, PlacesAdd
      <3>2. 0 \in 0..n /\ \A j \in 0..0 : j = 0
        OBVIOUS
      <3> QED
        BY <3>1, <3>2
    <2>2. ASSUME NEW i \in 0..n - 1, i \in T PROVE i + 1 \in T
      <3>1. i + 1 \in 1..n /\ i + 1 \in 0..n /\ (i + 1) - 1 = i /\ i \in 0..i
        OBVIOUS
      <3>2. sums[i + 1] = sums[i] + sizes[i + 1] /\ sizes[i + 1] \in Place /\ sums[i] \in Place
        BY <1>9, <1>10, <2>2, <3>1
      <3>3. PICK x \in Place, y \in Place : sums[i + 1] = x + y
        BY <3>2, Zenon
      <3>4. x + y \in Place
        BY PlacesAdd
      <3>5. sums[i + 1] \in Place
        BY <3>3, <3>4, Zenon
      <3>6. \A j \in 0..i + 1 : j = i + 1 \/ j \in 0..i
        OBVIOUS
      <3> QED
        BY <2>2, <3>1, <3>5, <3>6
    <2> HIDE DEF T
    <2>3. n \in T
      BY <2>1, <2>2, LoopInd
    <2> QED
      BY <2>3 DEF T
  <1>12. \A i \in 1..n : sums[i] = sums[i - 1] + 160 + TextSize(s[i])
    <2>1. ASSUME NEW i \in 1..n PROVE sums[i] = sums[i - 1] + 160 + TextSize(s[i])
      <3>1. i - 1 \in 0..n
        OBVIOUS
      <3>2. PICK t \in Nat, x \in Nat : t = TextSize(s[i]) /\ x = sums[i - 1]
        BY <1>4, <1>9, <3>1
      <3>3. sums[i] = x + (160 + t)
        BY <1>9, <1>10, <3>2
      <3>4. sums[i - 1] + 160 + TextSize(s[i]) = x + 160 + t
        BY <3>2, Zenon
      <3> QED
        BY <3>3, <3>4
    <2> QED
      BY <2>1
  <1>13. ChannelsSize(g) = sums[n]
    BY <1>1, <1>8 DEF ChannelsSize, Count
  <1> QED
    BY <1>1, <1>2, <1>4, <1>8, <1>9, <1>11, <1>12, <1>13

(* The groups follow each other.                                           *)
LEMMA GroupSumsAre ==
  ASSUME list \in Groups
  PROVE  /\ StartOf(1) = 400
         /\ \A g \in 1..Len(list) + 1 : StartOf(g) \in Place /\ StartOf(g) >= 400
         /\ \A g \in 1..Len(list) :
              /\ StartOf(g + 1) = StartOf(g) + MasterSize + ChannelsSize(g) + GroupSize(g)
              /\ ChannelsSize(g) \in Place /\ GroupSize(g) \in Place
         /\ DgFirst = StartOf(Len(list) + 1)
  <1>1. PICK m \in Nat : m = Len(list)
    BY GroupTypes
  <1>2. DOMAIN list = 1..m
    BY <1>1, GroupTypes
  <1>3. ASSUME NEW g \in 1..m
        PROVE  /\ ChannelsSize(g) \in Place /\ GroupSize(g) \in Place
               /\ MasterSize + ChannelsSize(g) + GroupSize(g) \in Place
    <2>1. PICK n \in Nat : n = Count(g)
      BY <1>1, GroupTypes
    <2>2. n \in 0..n
      OBVIOUS
    <2>3. ChannelsSize(g) \in Place
      BY <1>1, <2>1, <2>2, ChannelSumsAre
    <2>4. PICK name \in Nat : name = list[g].name
      BY <1>1, GroupTypes
    <2>5. TextSize(name) \in Place
      BY TextsFill, PlacesAdd
    <2>6. GroupSize(g) \in Place
      BY <2>4, <2>5, SizesAre, PlacesAdd DEF GroupSize
    <2>7. MasterSize \in Place
      BY SizesAre, PlacesAdd
    <2> QED
      BY <2>3, <2>6, <2>7, PlacesAdd
  <1>4. PICK sizes : sizes = [g \in 1..m |-> MasterSize + ChannelsSize(g) + GroupSize(g)]
    OBVIOUS
  <1>5. sizes \in [1..m -> Nat] /\ \A g \in 1..m : sizes[g] \in Place
    BY <1>3, <1>4 DEF Place
  <1>6. PICK sums : sums = SumsFrom(400, sizes)
    OBVIOUS
  <1>7. GroupSums = sums
    <2>1. SizeOf.ID + SizeOf.HD + SizeOf.FH + SizeOf.MD + Metadata = 400
      BY SizesAre
    <2> QED
      BY <1>2, <1>4, <1>6, <2>1 DEF GroupSums
  <1>8. sums \in [0..m -> Nat] /\ sums[0] = 400
            /\ \A i \in 1..m : sums[i] = sums[i - 1] + sizes[i]
    <2>1. PICK start \in Nat : start = 400
      OBVIOUS
    <2>2. sums = SumsFrom(start, sizes)
      BY <1>6, <2>1
    <2>3. /\ SumsFrom(start, sizes) \in [0..m -> Nat] /\ SumsFrom(start, sizes)[0] = start
          /\ \A i \in 1..m :
               SumsFrom(start, sizes)[i] = SumsFrom(start, sizes)[i - 1] + sizes[i]
      <3>1. sizes \in [1..m -> Nat]
        BY <1>5
      <3>2. SumsFrom(start, sizes) \in [0..m -> Nat]
        BY <3>1, SumsAre
      <3>3. SumsFrom(start, sizes)[0] = start
        BY <3>1, SumsAre
      <3>4. ASSUME NEW i \in 1..m
            PROVE  SumsFrom(start, sizes)[i] = SumsFrom(start, sizes)[i - 1] + sizes[i]
        BY <3>1, SumsAre
      <3> QED
        BY <3>2, <3>3, <3>4, Zenon
    <2>4. sums \in [0..m -> Nat] /\ sums[0] = start
      BY <2>2, <2>3, Zenon
    <2>5. ASSUME NEW i \in 1..m PROVE sums[i] = sums[i - 1] + sizes[i]
      BY <2>2, <2>3, Zenon
    <2> QED
      BY <2>1, <2>4, <2>5, Zenon
  <1>9. \A i \in 0..m : sums[i] \in Place /\ sums[i] >= 400
    <2> DEFINE T == {i \in 0..m : \A j \in 0..i : sums[j] \in Place /\ sums[j] >= 400}
    <2>1. 0 \in T
      <3>1. sums[0] \in Place /\ sums[0] >= 400
        BY <1>8, PlacesAdd
      <3>2. 0 \in 0..m /\ \A j \in 0..0 : j = 0
        OBVIOUS
      <3> QED
        BY <3>1, <3>2
    <2>2. ASSUME NEW i \in 0..m - 1, i \in T PROVE i + 1 \in T
      <3>1. i + 1 \in 1..m /\ i + 1 \in 0..m /\ (i + 1) - 1 = i /\ i \in 0..i
        OBVIOUS
      <3>2. /\ sums[i + 1] = sums[i] + sizes[i + 1] /\ sizes[i + 1] \in Place
            /\ sums[i] \in Place /\ sums[i] >= 400
        BY <1>5, <1>8, <2>2, <3>1
      <3>3. PICK x \in Place, y \in Place : sums[i + 1] = x + y
        BY <3>2, Zenon
      <3>4. x + y \in Place
        BY PlacesAdd
      <3>5. sums[i + 1] \in Place
        BY <3>3, <3>4, Zenon
      <3>6. sums[i + 1] >= 400
        BY <3>2 DEF Place
      <3>7. \A j \in 0..i + 1 : j = i + 1 \/ j \in 0..i
        OBVIOUS
      <3> QED
        BY <2>2, <3>1, <3>5, <3>6, <3>7
    <2> HIDE DEF T
    <2>3. m \in T
      BY <2>1, <2>2, LoopInd
    <2> QED
      BY <2>3 DEF T
  <1>10. \A g \in 1..m + 1 : StartOf(g) = sums[g - 1] /\ g - 1 \in 0..m
    BY <1>7 DEF StartOf
  <1>11. \A g \in 1..m + 1 : StartOf(g) \in Place /\ StartOf(g) >= 400
    BY <1>9, <1>10
  <1>12. ASSUME NEW g \in 1..m
         PROVE  StartOf(g + 1) = StartOf(g) + MasterSize + ChannelsSize(g) + GroupSize(g)
    <2>1. g \in 1..m + 1 /\ g + 1 \in 1..m + 1 /\ (g + 1) - 1 = g
      OBVIOUS
    <2>2. sums[g] = sums[g - 1] + (MasterSize + ChannelsSize(g) + GroupSize(g))
      BY <1>4, <1>8
    <2>3. StartOf(g + 1) = sums[g] /\ StartOf(g) = sums[g - 1] /\ sums[g - 1] \in Nat
      BY <1>8, <1>10, <2>1
    <2>4. MasterSize \in Nat /\ ChannelsSize(g) \in Nat /\ GroupSize(g) \in Nat
      BY <1>3, SizesAre DEF Place
    <2> QED
      BY <2>2, <2>3, <2>4
  <1>13. StartOf(1) = 400
    <2>1. 1 \in 1..m + 1 /\ 1 - 1 = 0
      OBVIOUS
    <2> QED
      BY <1>8, <1>10, <2>1
  <1>14. DgFirst = StartOf(m + 1)
    <2>1. (m + 1) - 1 = m /\ m + 1 \in 1..m + 1
      OBVIOUS
    <2> QED
      BY <1>1, <1>7, <1>10, <2>1 DEF DgFirst
  <1> QED
    BY <1>1, <1>3, <1>11, <1>12, <1>13, <1>14

(* What a group has, and where.                                            *)
LEMMA PlacesAre ==
  ASSUME list \in Groups, NEW g \in 1..Len(list)
  PROVE  /\ StartOf(g) \in Place /\ StartOf(g) >= 400
         /\ ChannelAt(g, 1) = StartOf(g) + 192
         /\ \A n \in 1..Count(g) :
              /\ ChannelAt(g, n + 1) = ChannelAt(g, n) + 160 + TextSize(Signals(g)[n])
         /\ \A n \in 1..Count(g) + 1 : ChannelAt(g, n) \in Place /\ ChannelAt(g, n) >= 400
         /\ GroupPlace(g) = ChannelAt(g, Count(g) + 1)
         /\ GroupPlace(g) \in Place /\ GroupPlace(g) >= 400
         /\ StartOf(g + 1) = GroupPlace(g) + GroupSize(g)
         /\ g < Len(list) => GroupPlace(g + 1) = GroupPlace(g) + CgNext(g)
  <1>1. PICK n \in Nat : n = Count(g)
    BY GroupTypes
  <1>2. PICK m \in Nat : m = Len(list)
    BY GroupTypes
  <1>3. g \in 1..m + 1
    BY <1>2
  <1>4. StartOf(g) \in Place /\ StartOf(g) >= 400
    BY <1>2, <1>3, GroupSumsAre
  <1>5. PICK start \in Nat : start = StartOf(g) + 192 /\ start \in Place /\ start >= 400
    <2>1. StartOf(g) + 192 \in Place
      BY <1>4, PlacesAdd
    <2>2. StartOf(g) + 192 \in Nat /\ StartOf(g) \in Nat
      BY <1>4, <2>1 DEF Place
    <2> QED
      BY <1>4, <2>1, <2>2
  <1>6. \A i \in 1..n + 1 : ChannelAt(g, i) = start + ChannelSums(g)[i - 1]
    BY <1>5, SizesAre DEF ChannelAt
  <1>7. ChannelAt(g, 1) = start
    <2>1. 1 \in 1..n + 1 /\ 1 - 1 = 0
      OBVIOUS
    <2>2. ChannelSums(g)[0] = 0
      BY ChannelSumsAre
    <2> QED
      BY <1>6, <2>1, <2>2
  <1>8. ASSUME NEW i \in 1..n
        PROVE  ChannelAt(g, i + 1) = ChannelAt(g, i) + 160 + TextSize(Signals(g)[i])
    <2>1. i \in 1..n + 1 /\ i + 1 \in 1..n + 1 /\ (i + 1) - 1 = i /\ i - 1 \in 0..n
      OBVIOUS
    <2>2. PICK x \in Nat, t \in Nat : x = ChannelSums(g)[i - 1] /\ t = TextSize(Signals(g)[i])
      BY <1>1, <2>1, ChannelSumsAre DEF Place
    <2>3. ChannelSums(g)[i] = x + 160 + t
      BY <1>1, <2>2, ChannelSumsAre
    <2>4. ChannelAt(g, i) = start + x
      BY <1>6, <2>1, <2>2
    <2>5. ChannelAt(g, i + 1) = start + (x + 160 + t)
      <3>1. ChannelAt(g, i + 1) = start + ChannelSums(g)[(i + 1) - 1]
        BY <1>6, <2>1, Zenon
      <3> QED
        BY <2>1, <2>3, <3>1, Zenon
    <2> QED
      BY <2>2, <2>4, <2>5
  <1>9. ASSUME NEW i \in 1..n + 1 PROVE ChannelAt(g, i) \in Place /\ ChannelAt(g, i) >= 400
    <2>1. i - 1 \in 0..n
      OBVIOUS
    <2>2. ChannelSums(g)[i - 1] \in Place
      BY <1>1, <2>1, ChannelSumsAre
    <2>3. ChannelAt(g, i) = start + ChannelSums(g)[i - 1]
      BY <1>6
    <2>4. start + ChannelSums(g)[i - 1] \in Place
      BY <1>5, <2>2, PlacesAdd, Zenon
    <2>5. start + ChannelSums(g)[i - 1] >= 400
      BY <1>5, <2>2 DEF Place
    <2> QED
      BY <2>3, <2>4, <2>5
  <1>10. PICK size : size = ChannelsSize(g)
    OBVIOUS
  <1>11. size = ChannelSums(g)[n] /\ size \in Place
    BY <1>1, <1>2, <1>10, ChannelSumsAre, GroupSumsAre
  <1>12. GroupPlace(g) = start + size
    BY <1>5, <1>10, SizesAre DEF GroupPlace
  <1>13. n + 1 \in 1..n + 1 /\ (n + 1) - 1 = n
    OBVIOUS
  <1>14. GroupPlace(g) = ChannelAt(g, n + 1)
    BY <1>6, <1>11, <1>12, <1>13
  <1>15. GroupPlace(g) \in Place /\ GroupPlace(g) >= 400
    BY <1>9, <1>13, <1>14
  <1>16. StartOf(g + 1) = GroupPlace(g) + GroupSize(g)
    BY GroupSumsAre DEF GroupPlace
  <1>17. ASSUME g < m PROVE GroupPlace(g + 1) = GroupPlace(g) + CgNext(g)
    <2>1. g + 1 \in 1..m
      BY <1>2, <1>17
    <2>2. ChannelsSize(g + 1) \in Nat /\ GroupSize(g) \in Nat /\ GroupPlace(g) \in Nat
      BY <1>2, <1>15, <2>1, GroupSumsAre DEF Place
    <2>3. GroupPlace(g + 1) = StartOf(g + 1) + 192 + ChannelsSize(g + 1)
      BY SizesAre DEF GroupPlace
    <2>4. CgNext(g) = GroupSize(g) + 192 + ChannelsSize(g + 1)
      BY SizesAre DEF CgNext
    <2> QED
      BY <1>16, <2>2, <2>3, <2>4
  <1> QED
    BY <1>1, <1>2, <1>4, <1>5, <1>7, <1>8, <1>9, <1>14, <1>15, <1>16, <1>17

(* The blocks a stream is to have.                                         *)
TextBlockAt(x) == [at |-> x, kind |-> "TX"]
IdBlock == [at |-> 0, kind |-> "ID"]
HdBlock == [at |-> 64, kind |-> "HD", dgFirst |-> DgFirst, fhFirst |-> 168]
FhBlock == [at |-> 168, kind |-> "FH", comment |-> 224]
MdBlock == [at |-> 224, kind |-> "MD"]
MasterBlock(g) ==
  [at |-> StartOf(g), kind |-> "CN", next |-> StartOf(g) + 192, name |-> StartOf(g) + 160,
   byteOffset |-> 0]
ChannelBlock(g, n) ==
  [at |-> ChannelAt(g, n), kind |-> "CN",
   next |-> IF n < Count(g) THEN ChannelAt(g, n + 1) ELSE 0,
   name |-> ChannelAt(g, n) + 160, byteOffset |-> 8 * n]
GroupBlock(g) ==
  [at |-> GroupPlace(g), kind |-> "CG", next |-> IF g < Len(list) THEN GroupPlace(g + 1) ELSE 0,
   cnFirst |-> StartOf(g), name |-> GroupPlace(g) + 104,
   id |-> recordId[list[g].name], dataBytes |-> DataBytes]
DgBlock ==
  [at |-> DgFirst, kind |-> "DG", cgFirst |-> IF Len(list) = 0 THEN 0 ELSE GroupPlace(1),
   data |-> DgFirst + 64]
DtBlock == [at |-> DgFirst + 64, kind |-> "DT"]

(* All of this depends on the groups alone.                                *)
LEMMA BlocksStay ==
  ASSUME UNCHANGED <<list, recordId>>
  PROVE  /\ DgFirst' = DgFirst /\ HdBlock' = HdBlock /\ DgBlock' = DgBlock /\ DtBlock' = DtBlock
         /\ \A g : /\ Count(g)' = Count(g) /\ StartOf(g)' = StartOf(g)
                   /\ GroupPlace(g)' = GroupPlace(g)
                   /\ MasterBlock(g)' = MasterBlock(g) /\ GroupBlock(g)' = GroupBlock(g)
                   /\ \A n : /\ ChannelAt(g, n)' = ChannelAt(g, n)
                             /\ ChannelBlock(g, n)' = ChannelBlock(g, n)
  <1>1. list' = list /\ recordId' = recordId
    OBVIOUS
  <1>2. \A g : Signals(g)' = Signals(g) /\ Count(g)' = Count(g)
    BY <1>1 DEF Signals, Count
  <1>3. ASSUME NEW g PROVE ChannelSums(g)' = ChannelSums(g)
                   /\ ChannelsSize(g)' = ChannelsSize(g)
    <2> DEFINE sizes == [n \in DOMAIN Signals(g) |-> SizeOf.CN + TextSize(Signals(g)[n])]
    <2>1. sizes' = sizes
      BY <1>2
    <2>2. ChannelSums(g) = SumsFrom(0, sizes) /\ ChannelSums(g)' = SumsFrom(0, sizes')
      BY DEF ChannelSums
    <2> HIDE DEF sizes
    <2>3. ChannelSums(g)' = ChannelSums(g)
      BY <2>1, <2>2
    <2> QED
      BY <1>2, <2>3 DEF ChannelsSize
  <1>4. \A g : GroupSize(g)' = GroupSize(g)
    BY <1>1 DEF GroupSize
  <1>5. GroupSums' = GroupSums
    <2> DEFINE head == SizeOf.ID + SizeOf.HD + SizeOf.FH + SizeOf.MD + Metadata
               sizes == [g \in DOMAIN list |-> MasterSize + ChannelsSize(g) + GroupSize(g)]
    <2>1. sizes' = sizes
      BY <1>1, <1>3, <1>4
    <2>2. GroupSums = SumsFrom(head, sizes) /\ GroupSums' = SumsFrom(head, sizes')
      BY DEF GroupSums
    <2> HIDE DEF sizes, head
    <2> QED
      BY <2>1, <2>2
  <1>6. DgFirst' = DgFirst /\ HdBlock' = HdBlock /\ DtBlock' = DtBlock
    BY <1>1, <1>5 DEF DgFirst, HdBlock, DtBlock
  <1>7. \A g : StartOf(g)' = StartOf(g) /\ GroupPlace(g)' = GroupPlace(g)
    BY <1>3, <1>5 DEF StartOf, GroupPlace
  <1>8. \A g, n : ChannelAt(g, n)' = ChannelAt(g, n)
    BY <1>3, <1>7 DEF ChannelAt
  <1>9. DgBlock' = DgBlock
    BY <1>1, <1>6, <1>7 DEF DgBlock
  <1>10. DataBytes' = DataBytes
    BY <1>2 DEF DataBytes
  <1>11. \A g : MasterBlock(g)' = MasterBlock(g) /\ GroupBlock(g)' = GroupBlock(g)
    BY <1>1, <1>7, <1>10 DEF MasterBlock, GroupBlock
  <1>12. \A g, n : ChannelBlock(g, n)' = ChannelBlock(g, n)
    BY <1>2, <1>8 DEF ChannelBlock
  <1> QED
    BY <1>2, <1>6, <1>7, <1>8, <1>9, <1>11, <1>12

(* The blocks lie behind each other.                                       *)
KnownBlock(b) == b.at \in Place /\ b.kind \in DOMAIN SizeOf
Placed ==
  /\ blocks \in Seq(Range(blocks))
  /\ offset \in Place
  /\ \A b \in Range(blocks) : KnownBlock(b) /\ b.at < offset
  /\ \A i, j \in 1..Len(blocks) : i < j => blocks[i].at < blocks[j].at

LEMMA BlockIs ==
  ASSUME Placed, NEW b \in Range(blocks)
  PROVE  /\ Block(b.at) = b
         /\ \A kind : IsBlock(b.at, kind) <=> b.kind = kind
  <1>1. DOMAIN blocks = 1..Len(blocks) /\ Len(blocks) \in Nat
    BY LenProperties DEF Placed
  <1>2. \A c \in Range(blocks) : \E i \in 1..Len(blocks) : c = blocks[i]
    BY <1>1 DEF Range
  <1>3. ASSUME NEW c \in Range(blocks), c.at = b.at PROVE c = b
    <2>1. PICK i \in 1..Len(blocks), j \in 1..Len(blocks) : b = blocks[i] /\ c = blocks[j]
      BY <1>2
    <2>2. b.at \in Nat
      BY DEF Placed, KnownBlock, Place
    <2>3. ~(i < j) /\ ~(j < i)
      <3>1. i < j => blocks[i].at < blocks[j].at
        BY DEF Placed
      <3>2. j < i => blocks[j].at < blocks[i].at
        BY DEF Placed
      <3> QED
        BY <1>3, <2>1, <2>2, <3>1, <3>2
    <2> QED
      BY <1>1, <2>1, <2>3
  <1>4. Block(b.at) \in Range(blocks) /\ Block(b.at).at = b.at
    BY DEF Block
  <1>5. Block(b.at) = b
    BY <1>3, <1>4
  <1>6. \A kind : IsBlock(b.at, kind) <=> b.kind = kind
    BY <1>3 DEF IsBlock
  <1> QED
    BY <1>5, <1>6

LEMMA BlockAt ==
  ASSUME Placed, NEW b \in Range(blocks), NEW x, NEW kind, b.at = x, b.kind = kind
  PROVE  IsBlock(x, kind) /\ Block(x) = b
  BY BlockIs, Zenon

(* Two blocks are written, one after the other.                            *)
LEMMA TwoMore ==
  ASSUME Placed, NEW b, NEW c, KnownBlock(b), KnownBlock(c),
         b.at = offset, c.at > offset, offset' \in Place, offset' > c.at,
         blocks' = blocks \o <<b, c>>
  PROVE  /\ Placed'
         /\ Range(blocks') = Range(blocks) \cup {b, c}
         /\ Len(blocks') = Len(blocks) + 2
  <1>1. PICK n \in Nat : n = Len(blocks)
    BY LenProperties DEF Placed
  <1> DEFINE S == Range(blocks) \cup {b, c}
  <1>2. blocks \in Seq(S)
    <2>1. blocks \in [1..n -> Range(blocks)]
      BY <1>1, LenProperties DEF Placed
    <2>2. blocks \in [1..n -> S]
      BY <2>1
    <2> QED
      BY <2>2
  <1>3. PICK d : d = <<b, c>>
    OBVIOUS
  <1>4. d \in Seq(S) /\ Len(d) = 2 /\ d[1] = b /\ d[2] = c
    BY <1>3
  <1>5. PICK e : e = blocks'
    OBVIOUS
  <1>6. e \in Seq(S) /\ Len(e) = n + 2
        /\ \A i \in 1..n + 2 : e[i] = IF i <= n THEN blocks[i] ELSE d[i - n]
    <2> HIDE DEF S
    <2> QED
      BY <1>1, <1>2, <1>3, <1>4, <1>5, ConcatProperties
  <1>7. e[n + 1] = b /\ e[n + 2] = c /\ \A i \in 1..n : e[i] = blocks[i]
    <2>1. n + 1 \in 1..n + 2 /\ ~(n + 1 <= n) /\ (n + 1) - n = 1
      OBVIOUS
    <2>2. n + 2 \in 1..n + 2 /\ ~(n + 2 <= n) /\ (n + 2) - n = 2
      OBVIOUS
    <2>3. \A i \in 1..n : i \in 1..n + 2 /\ i <= n
      OBVIOUS
    <2> QED
      BY <1>4, <1>6, <2>1, <2>2, <2>3
  <1>8. e \in [1..n + 2 -> S] /\ DOMAIN e = 1..n + 2
    <2> HIDE DEF S
    <2> QED
      BY <1>6, LenProperties
  <1>9. DOMAIN blocks = 1..n
    BY <1>1, LenProperties DEF Placed
  <1>10. Range(e) = S
    <2>1. ASSUME NEW x \in Range(blocks) PROVE x \in Range(e)
      <3>1. PICK i \in 1..n : x = blocks[i]
        BY <1>9 DEF Range
      <3>2. i \in 1..n + 2
        OBVIOUS
      <3> QED
        BY <1>7, <1>8, <3>1, <3>2 DEF Range
    <2>2. b \in Range(e) /\ c \in Range(e)
      <3>1. n + 1 \in 1..n + 2 /\ n + 2 \in 1..n + 2
        OBVIOUS
      <3> QED
        BY <1>7, <1>8, <3>1 DEF Range
    <2>3. Range(e) \subseteq S
      BY <1>8 DEF Range
    <2> QED
      BY <2>1, <2>2, <2>3
  <1>11. \A x \in S : KnownBlock(x) /\ x.at < offset'
    <2>1. offset \in Nat /\ offset' \in Nat /\ b.at \in Nat /\ c.at \in Nat
      BY DEF Placed, Place, KnownBlock
    <2>2. ASSUME NEW x \in Range(blocks) PROVE KnownBlock(x) /\ x.at < offset'
      <3>1. KnownBlock(x) /\ x.at < offset /\ x.at \in Nat
        BY DEF Placed, KnownBlock, Place
      <3> QED
        BY <2>1, <3>1
    <2> QED
      BY <2>1, <2>2
  <1>12. ASSUME NEW i \in 1..n + 2, NEW j \in 1..n + 2, i < j
         PROVE  e[i].at < e[j].at
    <2>1. offset \in Nat /\ b.at \in Nat /\ c.at \in Nat
      BY DEF Placed, Place, KnownBlock
    <2>2. \A k \in 1..n : blocks[k].at < offset /\ blocks[k].at \in Nat
      BY <1>9 DEF Placed, KnownBlock, Place, Range
    <2>3. CASE j \in 1..n
      <3>1. i \in 1..n
        BY <1>12, <2>3
      <3> QED
        BY <1>1, <1>7, <1>12, <2>3, <3>1 DEF Placed
    <2>4. CASE j = n + 1
      <3>1. i \in 1..n
        BY <1>12, <2>4
      <3> QED
        BY <1>7, <2>1, <2>2, <2>4, <3>1
    <2>5. CASE j = n + 2
      <3>1. i \in 1..n \/ i = n + 1
        BY <1>12, <2>5
      <3>2. CASE i \in 1..n
        <4>1. e[i].at < offset /\ e[i].at \in Nat /\ e[j].at = c.at
          BY <1>7, <2>2, <2>5, <3>2
        <4> QED
          BY <2>1, <4>1
      <3>3. CASE i = n + 1
        BY <1>7, <2>1, <2>5, <3>3
      <3> QED
        BY <3>1, <3>2, <3>3
    <2> QED
      BY <2>3, <2>4, <2>5
  <1>13. Placed'
    <2>1. e \in Seq(Range(e))
      BY <1>6, <1>10
    <2>2. \A x \in Range(e) : KnownBlock(x) /\ x.at < offset'
      BY <1>10, <1>11
    <2> HIDE DEF S
    <2>3. \A i, j \in 1..Len(e) : i < j => e[i].at < e[j].at
      BY <1>6, <1>12
    <2> QED
      BY <1>5, <2>1, <2>2, <2>3 DEF Placed, KnownBlock
  <1> QED
    BY <1>1, <1>5, <1>6, <1>10, <1>13

(* A block and the text behind it.                                         *)
LEMMA TextFollows ==
  ASSUME Placed, NEW b, NEW size \in Place,
         b.at = offset, b.kind \in {"CN", "CG"}, size > 0, FwriteBlockWithText(b, size)
  PROVE  /\ Placed'
         /\ Range(blocks') = Range(blocks) \cup {b, TextBlockAt(offset + SizeOf[b.kind])}
         /\ Len(blocks') = Len(blocks) + 2
         /\ offset' = offset + SizeOf[b.kind] + 24 + size
  <1>1. PICK k \in Nat : k = SizeOf[b.kind] /\ k \in Place /\ k > 0
    <2>1. SizeOf["CN"] = 160 /\ SizeOf["CG"] = 104
      BY SizesAre
    <2> QED
      BY <2>1, PlacesAdd DEF Place
  <1>2. PICK c : c = TextBlockAt(offset + k)
    OBVIOUS
  <1>3. c.at = offset + k /\ c.kind = "TX"
    BY <1>2 DEF TextBlockAt
  <1>4. blocks' = blocks \o <<b, c>> /\ offset' = offset + k + 24 + size
    <2>1. FwriteBlockWithText(b, size) <=>
            /\ blocks' = blocks \o <<b, [at |-> offset + k, kind |-> "TX"]>>
            /\ offset' = offset + k + SizeOf.TX + size
      BY <1>1, Zenon DEF FwriteBlockWithText
    <2>2. c = [at |-> offset + k, kind |-> "TX"]
      BY <1>2 DEF TextBlockAt
    <2> QED
      BY <2>1, <2>2, SizesAre, Zenon
  <1>5. DOMAIN SizeOf = {"ID", "HD", "FH", "MD", "TX", "CN", "CG", "DG", "DT"}
    BY DEF SizeOf
  <1>6. offset \in Place /\ offset + k \in Place /\ offset + k + 24 + size \in Place
    BY <1>1, PlacesAdd DEF Placed
  <1>7. offset \in Nat /\ size \in Nat
    BY <1>6 DEF Place
  <1>8. KnownBlock(b) /\ KnownBlock(c)
    <2>1. c.at \in Place /\ c.kind \in DOMAIN SizeOf
      BY <1>3, <1>5, <1>6
    <2>2. b.at \in Place /\ b.kind \in DOMAIN SizeOf
      BY <1>5, <1>6
    <2> QED
      BY <2>1, <2>2, Zenon DEF KnownBlock
  <1>9. c.at > offset /\ offset' > c.at
    BY <1>1, <1>3, <1>4, <1>7
  <1> QED
    BY <1>1, <1>2, <1>4, <1>6, <1>8, <1>9, TwoMore

HeadWritten == {IdBlock, HdBlock, FhBlock, MdBlock} \subseteq Range(blocks)
MasterWritten(g) ==
  MasterBlock(g) \in Range(blocks) /\ TextBlockAt(StartOf(g) + 160) \in Range(blocks)
ChannelWritten(g, n) ==
  ChannelBlock(g, n) \in Range(blocks) /\ TextBlockAt(ChannelAt(g, n) + 160) \in Range(blocks)
GroupWritten(g) ==
  /\ MasterWritten(g)
  /\ \A n \in 1..Count(g) : ChannelWritten(g, n)
  /\ GroupBlock(g) \in Range(blocks) /\ TextBlockAt(GroupPlace(g) + 104) \in Range(blocks)
  /\ Len(blocks) >= Count(g) + 1

(* The groups before cg are written, and of this what the loop has passed. *)
InGroups == phase \in {"master", "channel", "group"}
InChannels == phase \in {"channel", "group"}
AtGroup ==
  /\ InGroups => cg \in 1..Len(list)
  /\ phase \in {"data", "records"} => cg = Len(list) + 1
  /\ phase # "head" => Len(blocks) >= cg
  /\ dgFirst = IF cg = 1 THEN 0 ELSE GroupPlace(1)
  /\ \A g \in 1..cg - 1 : GroupWritten(g)
AtChannel ==
  InChannels =>
    /\ first = StartOf(cg)
    /\ cn \in 1..Count(cg) + 1 /\ (phase = "group" <=> cn = Count(cg) + 1)
    /\ offset = ChannelAt(cg, cn) /\ Len(blocks) >= cn + 1
    /\ MasterWritten(cg) /\ \A n \in 1..cn - 1 : ChannelWritten(cg, n)
AtEnds ==
  /\ phase = "head" => offset = 0 /\ blocks = <<>> /\ cg = 1
  /\ phase # "head" => HeadWritten
  /\ phase = "master" => offset = StartOf(cg)
  /\ phase = "data" => offset = DgFirst
  /\ phase = "records" => /\ offset = DgFirst + 88
                          /\ {DgBlock, DtBlock} \subseteq Range(blocks)
MdfTypes ==
  /\ list \in Groups /\ recordId \in [Names -> RecordIds]
  /\ phase \in {"head", "master", "channel", "group", "data", "records"}
  /\ Placed
BlocksInv == MdfTypes /\ AtGroup /\ AtChannel /\ AtEnds

(* An empty file.                                                          *)
LEMMA PlacedEmpty ==
  ASSUME blocks = <<>>, offset = 0
  PROVE  Placed
  <1>1. Range(blocks) = {} /\ Len(blocks) = 0
    BY DEF Range
  <1>2. blocks \in Seq(Range(blocks))
    OBVIOUS
  <1>3. offset \in Place
    BY PlacesAdd
  <1> QED
    BY <1>1, <1>2, <1>3 DEF Placed

(* A new stream, and the steps of mdf_start_blocks, one by one.            *)
LEMMA MdfInitHolds == MdfInit => BlocksInv
  <1> SUFFICES ASSUME MdfInit PROVE BlocksInv
    OBVIOUS
  <1>1. Placed
    BY PlacedEmpty DEF MdfInit
  <1>2. MdfTypes
    BY <1>1 DEF MdfInit, MdfTypes
  <1>3. AtGroup
    BY DEF MdfInit, AtGroup, InGroups
  <1>4. AtChannel /\ AtEnds
    BY DEF MdfInit, AtChannel, InChannels, AtEnds
  <1> QED
    BY <1>2, <1>3, <1>4 DEF BlocksInv

(* What is written stays written.                                          *)
LEMMA WrittenStays ==
  ASSUME MdfTypes, UNCHANGED <<list, recordId>>, Placed',
         Range(blocks) \subseteq Range(blocks'), Len(blocks') >= Len(blocks)
  PROVE  /\ HeadWritten => HeadWritten'
         /\ \A g \in 1..Len(list) :
              /\ MasterWritten(g) => MasterWritten(g)'
              /\ GroupWritten(g) => GroupWritten(g)'
              /\ \A n : ChannelWritten(g, n) => ChannelWritten(g, n)'
  <1>1. HeadWritten => HeadWritten'
    BY BlocksStay DEF HeadWritten, IdBlock, FhBlock, MdBlock
  <1>2. \A g : MasterWritten(g) => MasterWritten(g)'
    BY BlocksStay DEF MasterWritten, TextBlockAt
  <1>3. \A g, n : ChannelWritten(g, n) => ChannelWritten(g, n)'
    BY BlocksStay DEF ChannelWritten, TextBlockAt
  <1>4. ASSUME NEW g \in 1..Len(list), GroupWritten(g) PROVE GroupWritten(g)'
    <2>1. Count(g)' = Count(g) /\ Count(g) \in Nat
      BY BlocksStay, GroupTypes DEF MdfTypes
    <2>2. Len(blocks) \in Nat /\ Len(blocks') \in Nat
      BY LenProperties DEF MdfTypes, Placed
    <2>3. MasterWritten(g)' /\ \A n \in 1..Count(g)' : ChannelWritten(g, n)'
      BY <1>2, <1>3, <1>4, <2>1 DEF GroupWritten
    <2>4. GroupBlock(g)' \in Range(blocks')
      BY <1>4, BlocksStay DEF GroupWritten
    <2>5. TextBlockAt(GroupPlace(g) + 104)' \in Range(blocks')
      BY <1>4, BlocksStay DEF GroupWritten, TextBlockAt
    <2>6. (Len(blocks) >= Count(g) + 1)'
      BY <1>4, <2>1, <2>2 DEF GroupWritten
    <2> QED
      BY <2>3, <2>4, <2>5, <2>6 DEF GroupWritten
  <1> QED
    BY <1>1, <1>2, <1>3, <1>4

(* A block of a group is written.                                          *)
LEMMA GroupsStay ==
  ASSUME BlocksInv, InGroups, InChannels', UNCHANGED <<list, recordId, cg, dgFirst>>, Placed',
         Range(blocks) \subseteq Range(blocks'), Len(blocks') >= Len(blocks)
  PROVE  AtGroup' /\ HeadWritten'
  <1>1. phase # "head" /\ cg \in 1..Len(list) /\ MdfTypes /\ list \in Groups
    BY DEF BlocksInv, AtGroup, InGroups, MdfTypes
  <1>2. cg \in Nat /\ Len(list) \in Nat
    BY <1>1, GroupTypes
  <1>3. phase' \notin {"data", "records", "head"}
    BY DEF InChannels
  <1>4. (Len(blocks) >= cg)'
    <2>1. Len(blocks) \in Nat /\ Len(blocks') \in Nat
      BY <1>1, LenProperties DEF MdfTypes, Placed
    <2>2. Len(blocks) >= cg
      BY <1>1 DEF BlocksInv, AtGroup
    <2> QED
      BY <1>2, <2>1, <2>2
  <1>5. dgFirst' = IF cg' = 1 THEN 0 ELSE GroupPlace(1)'
    BY BlocksStay DEF BlocksInv, AtGroup
  <1>6. \A g \in 1..cg' - 1 : GroupWritten(g)'
    <2>1. \A g \in 1..cg - 1 : GroupWritten(g) /\ g \in 1..Len(list)
      BY <1>1, <1>2 DEF BlocksInv, AtGroup
    <2> QED
      BY <1>1, <2>1, WrittenStays
  <1>7. HeadWritten'
    BY <1>1, WrittenStays DEF BlocksInv, AtEnds
  <1> QED
    BY <1>1, <1>3, <1>4, <1>5, <1>6, <1>7 DEF AtGroup

LEMMA HeadStep ==
  ASSUME BlocksInv, WriteHead
  PROVE  BlocksInv'
  <1>1. /\ phase = "head" /\ cg = 1 /\ offset = 0 /\ list \in Groups
        /\ UNCHANGED <<list, recordId>> /\ cg' = 1 /\ dgFirst' = dgFirst /\ dgFirst = 0
    BY DEF BlocksInv, AtEnds, AtGroup, MdfTypes, WriteHead
  <1>2. blocks' = <<IdBlock, HdBlock, FhBlock, MdBlock>> /\ offset' = 400
    BY SizesAre DEF WriteHead, IdBlock, HdBlock, FhBlock, MdBlock
  <1>3. PICK b, c, d, e : b = IdBlock /\ c = HdBlock /\ d = FhBlock /\ e = MdBlock
    OBVIOUS
  <1>4. /\ b.at = 0 /\ c.at = 64 /\ d.at = 168 /\ e.at = 224
        /\ b.kind = "ID" /\ c.kind = "HD" /\ d.kind = "FH" /\ e.kind = "MD"
    BY <1>3 DEF IdBlock, HdBlock, FhBlock, MdBlock
  <1>5. PICK s : s = <<b, c, d, e>>
    OBVIOUS
  <1>6. Len(s) = 4 /\ DOMAIN s = 1..4 /\ s[1] = b /\ s[2] = c /\ s[3] = d /\ s[4] = e
    BY <1>5
  <1>7. Range(s) = {b, c, d, e}
    BY <1>6 DEF Range
  <1>8. s \in Seq({b, c, d, e})
    BY <1>5
  <1>9. DOMAIN SizeOf = {"ID", "HD", "FH", "MD", "TX", "CN", "CG", "DG", "DT"}
    BY DEF SizeOf
  <1>10. \A x \in {b, c, d, e} : KnownBlock(x) /\ x.at < 400
    BY <1>4, <1>9, PlacesAdd DEF KnownBlock
  <1>11. \A i, j \in 1..4 : i < j => s[i].at < s[j].at
    BY <1>4, <1>6
  <1>12. Placed'
    BY <1>2, <1>3, <1>5, <1>6, <1>7, <1>8, <1>10, <1>11, PlacesAdd DEF Placed, KnownBlock
  <1>13. phase' = IF list = <<>> THEN "data" ELSE "master"
    BY DEF WriteHead
  <1>14. MdfTypes'
    BY <1>1, <1>12, <1>13 DEF MdfTypes, BlocksInv
  <1>15. PICK m \in Nat : m = Len(list) /\ (m = 0 <=> list = <<>>)
    BY <1>1, GroupsAssumption, LenProperties, EmptySeq
  <1>16. AtGroup'
    <2>1. (InGroups => cg \in 1..Len(list))'
      BY <1>1, <1>13, <1>15 DEF InGroups
    <2>2. (phase \in {"data", "records"} => cg = Len(list) + 1)'
      BY <1>1, <1>13, <1>15
    <2>3. (Len(blocks) >= cg)'
      BY <1>1, <1>2, <1>3, <1>5, <1>6
    <2> QED
      BY <1>1, <2>1, <2>2, <2>3 DEF AtGroup
  <1>17. AtChannel'
    BY <1>13 DEF AtChannel, InChannels
  <1>18. AtEnds'
    <2>1. HeadWritten'
      BY <1>1, <1>2, <1>3, <1>5, <1>7, BlocksStay DEF HeadWritten, IdBlock, FhBlock, MdBlock
    <2>2. list # <<>> => offset' = StartOf(1)'
      BY <1>1, <1>2, <1>15, GroupSumsAre, BlocksStay
    <2>3. list = <<>> => offset' = DgFirst'
      <3>1. StartOf(1) = 400 /\ (m = 0 => DgFirst = StartOf(m + 1))
        BY <1>1, <1>15, GroupSumsAre
      <3> QED
        BY <1>1, <1>2, <1>15, <3>1, BlocksStay
    <2> QED
      BY <1>1, <1>13, <2>1, <2>2, <2>3 DEF AtEnds
  <1> QED
    BY <1>14, <1>16, <1>17, <1>18 DEF BlocksInv

LEMMA MasterStep ==
  ASSUME BlocksInv, WriteMaster
  PROVE  BlocksInv'
  <1>1. /\ phase = "master" /\ list \in Groups /\ Placed
        /\ UNCHANGED <<list, recordId, cg, dgFirst>>
        /\ first' = offset /\ cn' = 1
        /\ phase' = ToChannel(1)
    BY DEF BlocksInv, MdfTypes, WriteMaster
  <1>2. cg \in 1..Len(list) /\ offset = StartOf(cg) /\ HeadWritten
    BY <1>1 DEF BlocksInv, AtGroup, AtEnds, InGroups
  <1>3. PICK b : b = MasterBlock(cg)
    OBVIOUS
  <1>4. b.at = offset /\ b.kind = "CN"
    BY <1>2, <1>3 DEF MasterBlock
  <1>5. FwriteBlockWithText(b, 8)
    BY <1>2, <1>3, SizesAre DEF WriteMaster, MasterBlock
  <1>6. /\ Placed' /\ Len(blocks') = Len(blocks) + 2
        /\ Range(blocks') = Range(blocks) \cup {b, TextBlockAt(offset + 160)}
        /\ offset' = offset + 160 + 24 + 8
    <2>1. 8 \in Place /\ 8 > 0
      BY PlacesAdd
    <2>2. SizeOf[b.kind] = 160
      BY <1>4, SizesAre
    <2>3. b.kind \in {"CN", "CG"}
      BY <1>4
    <2> QED
      BY <1>1, <1>4, <1>5, <2>1, <2>2, <2>3, TextFollows
  <1>7. PICK n \in Nat : n = Count(cg)
    BY <1>1, <1>2, GroupTypes
  <1>8. phase' = IF 1 <= n THEN "channel" ELSE "group"
    BY <1>1, <1>7 DEF ToChannel, Count
  <1>9. MdfTypes'
    BY <1>1, <1>6, <1>8 DEF MdfTypes, BlocksInv
  <1>10. Len(blocks) \in Nat /\ Len(blocks) >= cg /\ cg \in Nat /\ Len(blocks') >= Len(blocks)
    <2>1. Len(blocks) \in Nat
      BY <1>1, LenProperties DEF Placed
    <2>2. Len(blocks) >= cg /\ cg \in Nat
      BY <1>1, <1>2, GroupTypes DEF BlocksInv, AtGroup
    <2> QED
      BY <1>6, <2>1, <2>2
  <1>11. Range(blocks) \subseteq Range(blocks')
    BY <1>6
  <1>12. AtGroup' /\ HeadWritten'
    BY <1>1, <1>6, <1>8, <1>10, <1>11, GroupsStay DEF InGroups, InChannels
  <1>13. AtChannel'
    <2>1. first' = StartOf(cg)' /\ Count(cg)' = n
      BY <1>1, <1>2, <1>7, BlocksStay
    <2>2. (phase = "group" <=> cn = Count(cg) + 1)' /\ cn' \in 1..n + 1
      BY <1>1, <1>7, <1>8, <2>1
    <2>3. offset' = ChannelAt(cg, cn)'
      <3>1. offset' = StartOf(cg) + 192
        <4>1. offset \in Nat
          BY <1>1 DEF Placed, Place
        <4> QED
          BY <1>2, <1>6, <4>1
      <3>2. ChannelAt(cg, 1) = StartOf(cg) + 192
        BY <1>1, <1>2, PlacesAre
      <3>3. ChannelAt(cg, cn)' = ChannelAt(cg, 1)
        BY <1>1, BlocksStay DEF ChannelAt
      <3> QED
        BY <3>1, <3>2, <3>3
    <2>4. MasterWritten(cg)'
      BY <1>1, <1>2, <1>3, <1>6, BlocksStay DEF MasterWritten, TextBlockAt
    <2>5. (Len(blocks) >= cn + 1)'
      BY <1>1, <1>6, <1>10
    <2>6. \A i \in 1..cn' - 1 : ChannelWritten(cg, i)'
      BY <1>1
    <2> QED
      BY <2>1, <2>2, <2>3, <2>4, <2>5, <2>6 DEF AtChannel
  <1>14. AtEnds'
    BY <1>8, <1>12 DEF AtEnds
  <1> QED
    BY <1>9, <1>12, <1>13, <1>14 DEF BlocksInv

LEMMA ChannelStep ==
  ASSUME BlocksInv, WriteChannel
  PROVE  BlocksInv'
  <1>1. /\ phase = "channel" /\ list \in Groups /\ Placed
        /\ UNCHANGED <<list, recordId, cg, dgFirst, first>>
        /\ cn' = cn + 1
        /\ phase' = ToChannel(cn + 1)
    BY DEF BlocksInv, MdfTypes, WriteChannel
  <1>2. cg \in 1..Len(list)
    BY <1>1 DEF BlocksInv, AtGroup, InGroups
  <1>3. PICK n \in Nat : n = Count(cg)
    BY <1>1, <1>2, GroupTypes
  <1>4. /\ cn \in 1..n /\ offset = ChannelAt(cg, cn) /\ Len(blocks) >= cn + 1
        /\ first = StartOf(cg) /\ MasterWritten(cg)
        /\ \A i \in 1..cn - 1 : ChannelWritten(cg, i)
    BY <1>1, <1>3 DEF BlocksInv, AtChannel, InChannels
  <1>5. PICK size \in Place :
          /\ size = GetOffset(Signals(cg)[cn]) /\ size > 0
          /\ TextSize(Signals(cg)[cn]) = 24 + size
    <2>1. Signals(cg)[cn] \in Nat
      BY <1>1, <1>2, <1>3, <1>4, GroupTypes
    <2> QED
      BY <2>1, TextsFill
  <1>6. offset \in Nat /\ size \in Nat
    BY <1>1 DEF Placed, Place
  <1>7. ChannelAt(cg, cn + 1) = offset + 160 + 24 + size
    <2>1. ChannelAt(cg, cn + 1) = offset + 160 + (24 + size)
      BY <1>1, <1>2, <1>3, <1>4, <1>5, PlacesAre
    <2> QED
      BY <1>6, <2>1
  <1>8. CnNext = offset + 160 + 24 + size
    <2>1. CnNext = offset + 160 + (24 + size)
      BY <1>5, SizesAre DEF CnNext
    <2> QED
      BY <1>6, <2>1
  <1>9. PICK b : b = ChannelBlock(cg, cn)
    OBVIOUS
  <1>10. b.at = offset /\ b.kind = "CN"
    BY <1>4, <1>9 DEF ChannelBlock
  <1>11. b = [at |-> offset, kind |-> "CN",
              next |-> IF cn < Len(Signals(cg)) THEN CnNext ELSE 0,
              name |-> offset + SizeOf.CN, byteOffset |-> 8 * cn]
    BY <1>4, <1>7, <1>8, <1>9, SizesAre DEF ChannelBlock, Count
  <1>12. FwriteBlockWithText(b, size)
    BY <1>5, <1>11 DEF WriteChannel
  <1>13. /\ Placed' /\ Len(blocks') = Len(blocks) + 2
         /\ Range(blocks') = Range(blocks) \cup {b, TextBlockAt(offset + 160)}
         /\ offset' = offset + 160 + 24 + size
    <2>1. SizeOf[b.kind] = 160
      BY <1>10, SizesAre
    <2>2. b.kind \in {"CN", "CG"}
      BY <1>10
    <2> QED
      BY <1>1, <1>5, <1>10, <1>12, <2>1, <2>2, TextFollows
  <1>14. phase' = IF cn + 1 <= n THEN "channel" ELSE "group"
    BY <1>1, <1>3 DEF ToChannel, Count
  <1>15. MdfTypes'
    BY <1>1, <1>13, <1>14 DEF MdfTypes, BlocksInv
  <1>16. Len(blocks) \in Nat /\ Len(blocks') >= Len(blocks)
    <2>1. Len(blocks) \in Nat
      BY <1>1, LenProperties DEF Placed
    <2> QED
      BY <1>13, <2>1
  <1>17. Range(blocks) \subseteq Range(blocks')
    BY <1>13
  <1>18. AtGroup' /\ HeadWritten'
    BY <1>1, <1>13, <1>14, <1>16, <1>17, GroupsStay DEF InGroups, InChannels
  <1>19. AtChannel'
    <2>1. first' = StartOf(cg)' /\ Count(cg)' = n
      BY <1>1, <1>3, <1>4, BlocksStay
    <2>2. (phase = "group" <=> cn = Count(cg) + 1)' /\ cn' \in 1..n + 1
      BY <1>1, <1>4, <1>14, <2>1
    <2>3. offset' = ChannelAt(cg, cn)'
      <3>1. ChannelAt(cg, cn)' = ChannelAt(cg, cn + 1)
        BY <1>1, BlocksStay DEF ChannelAt
      <3> QED
        BY <1>7, <1>13, <3>1
    <2>4. MdfTypes
      BY DEF BlocksInv
    <2>5. MasterWritten(cg)'
      <3>1. cg' = cg /\ MasterBlock(cg)' = MasterBlock(cg) /\ StartOf(cg)' = StartOf(cg)
            /\ MasterWritten(cg)
        BY <1>1, <1>4, BlocksStay
      <3>2. MasterBlock(cg) \in Range(blocks')
                /\ TextBlockAt(StartOf(cg) + 160) \in Range(blocks')
        BY <1>17, <3>1 DEF MasterWritten
      <3> QED
        <4>1. (MasterBlock(cg) \in Range(blocks))'
          BY <3>1, <3>2
        <4>2. [at |-> StartOf(cg) + 160, kind |-> "TX"] \in Range(blocks')
          BY <3>2 DEF TextBlockAt
        <4>3. ([at |-> StartOf(cg) + 160, kind |-> "TX"] \in Range(blocks))'
          BY <3>1, <4>2
        <4> QED
          BY <4>1, <4>3 DEF MasterWritten, TextBlockAt
    <2>6. (Len(blocks) >= cn + 1)'
      BY <1>1, <1>4, <1>13, <1>16
    <2>7. ASSUME NEW i \in 1..cn' - 1 PROVE ChannelWritten(cg, i)'
      <3>1. ChannelBlock(cg, i)' = ChannelBlock(cg, i) /\ ChannelAt(cg, i)' = ChannelAt(cg, i)
        <4>1. /\ UNCHANGED <<list, recordId>> /\ cg' = cg
          BY <1>1
        <4>2. \A g : Count(g)' = Count(g) /\ StartOf(g)' = StartOf(g)
                     /\ \A k : ChannelAt(g, k)' = ChannelAt(g, k)
                               /\ ChannelBlock(g, k)' = ChannelBlock(g, k)
          BY <4>1, BlocksStay, Zenon
        <4>3. ChannelAt(cg, i)' = ChannelAt(cg, i)
          BY <4>1, <4>2 DEF ChannelAt
        <4>4. ChannelBlock(cg, i)' = ChannelBlock(cg, i)
          BY <4>1, <4>2 DEF ChannelBlock, ChannelAt
        <4> QED
          BY <4>3, <4>4
      <3>2. ChannelBlock(cg, i) \in Range(blocks')
                /\ TextBlockAt(ChannelAt(cg, i) + 160) \in Range(blocks')
        <4>1. CASE i = cn
          BY <1>4, <1>9, <1>13, <4>1
        <4>2. CASE i # cn
          <5>1. i \in 1..cn - 1
            BY <1>1, <1>4, <4>2
          <5> QED
            BY <1>4, <1>17, <5>1 DEF ChannelWritten
        <4> QED
          BY <4>1, <4>2
      <3> QED
        BY <3>1, <3>2 DEF ChannelWritten, TextBlockAt
    <2> QED
      BY <2>1, <2>2, <2>3, <2>5, <2>6, <2>7 DEF AtChannel
  <1>20. AtEnds'
    BY <1>14, <1>18 DEF AtEnds
  <1> QED
    BY <1>15, <1>18, <1>19, <1>20 DEF BlocksInv

LEMMA GroupStep ==
  ASSUME BlocksInv, WriteGroup
  PROVE  BlocksInv'
  <1>1. /\ phase = "group" /\ list \in Groups /\ Placed /\ MdfTypes
        /\ UNCHANGED <<list, recordId>>
        /\ cg' = cg + 1
        /\ dgFirst' = IF cg = 1 THEN offset ELSE dgFirst
        /\ phase' = IF cg < Len(list) THEN "master" ELSE "data"
    BY DEF BlocksInv, MdfTypes, WriteGroup
  <1>2. PICK m \in Nat : m = Len(list)
    BY <1>1, GroupTypes
  <1>3. cg \in 1..m /\ dgFirst = (IF cg = 1 THEN 0 ELSE GroupPlace(1)) /\ Len(blocks) >= cg
        /\ \A g \in 1..cg - 1 : GroupWritten(g)
    BY <1>1, <1>2 DEF BlocksInv, AtGroup, InGroups
  <1>4. PICK n \in Nat : n = Count(cg)
    BY <1>1, <1>2, <1>3, GroupTypes
  <1>5. /\ cn = n + 1 /\ offset = ChannelAt(cg, cn) /\ Len(blocks) >= cn + 1
        /\ first = StartOf(cg) /\ MasterWritten(cg)
        /\ \A i \in 1..n : ChannelWritten(cg, i)
    <2>1. (n + 1) - 1 = n
      OBVIOUS
    <2> QED
      BY <1>1, <1>4, <2>1 DEF BlocksInv, AtChannel, InChannels
  <1>6. offset = GroupPlace(cg) /\ offset \in Nat
    BY <1>1, <1>2, <1>3, <1>4, <1>5, PlacesAre DEF Placed, Place
  <1>7. PICK size \in Place :
          /\ size = GetOffset(list[cg].name) /\ size > 0 /\ size \in Nat
          /\ TextSize(list[cg].name) = 24 + size
    <2>1. list[cg].name \in Nat
      BY <1>1, <1>2, <1>3, GroupTypes
    <2> QED
      BY <2>1, TextsFill DEF Place
  <1>8. PICK b : b = GroupBlock(cg)
    OBVIOUS
  <1>9. b.at = offset /\ b.kind = "CG"
    BY <1>6, <1>8 DEF GroupBlock
  <1>10. b = [at |-> offset, kind |-> "CG",
              next |-> IF cg < Len(list) THEN offset + CgNext(cg) ELSE 0,
              cnFirst |-> first, name |-> offset + SizeOf.CG,
              id |-> recordId[list[cg].name], dataBytes |-> DataBytes]
    <2>1. cg < m => GroupPlace(cg + 1) = GroupPlace(cg) + CgNext(cg)
      BY <1>1, <1>2, <1>3, PlacesAre
    <2> QED
      BY <1>2, <1>5, <1>6, <1>8, <2>1, SizesAre DEF GroupBlock
  <1>11. FwriteBlockWithText(b, size)
    BY <1>7, <1>10 DEF WriteGroup
  <1>12. /\ Placed' /\ Len(blocks') = Len(blocks) + 2
         /\ Range(blocks') = Range(blocks) \cup {b, TextBlockAt(offset + 104)}
         /\ offset' = offset + 104 + 24 + size
    <2>1. SizeOf[b.kind] = 104
      BY <1>9, SizesAre
    <2>2. b.kind \in {"CN", "CG"}
      BY <1>9
    <2> QED
      BY <1>1, <1>7, <1>9, <1>11, <2>1, <2>2, TextFollows
  <1>13. offset' = StartOf(cg + 1)
    <2>1. StartOf(cg + 1) = GroupPlace(cg) + GroupSize(cg)
      BY <1>1, <1>2, <1>3, PlacesAre
    <2>2. GroupSize(cg) = 104 + (24 + size)
      BY <1>7, SizesAre DEF GroupSize
    <2> QED
      BY <1>6, <1>7, <1>12, <2>1, <2>2
  <1>14. MdfTypes'
    BY <1>1, <1>12 DEF MdfTypes
  <1>15. Len(blocks) \in Nat /\ Len(blocks') \in Nat /\ Len(blocks') >= Len(blocks)
    <2>1. Len(blocks) \in Nat
      BY <1>1, LenProperties DEF Placed
    <2> QED
      BY <1>12, <2>1
  <1>16. Range(blocks) \subseteq Range(blocks')
    BY <1>12
  <1>18. \A g \in 1..cg' - 1 : GroupWritten(g)'
    <2>1. ASSUME NEW g \in 1..cg - 1 PROVE GroupWritten(g)'
      <3>1. g \in 1..Len(list) /\ GroupWritten(g)
        BY <1>2, <1>3
      <3> QED
        BY <1>1, <1>12, <1>15, <1>16, <3>1, WrittenStays
    <2>2. ASSUME NEW g, g = cg PROVE GroupWritten(g)'
      <3>1. MasterWritten(g) /\ \A i \in 1..Count(g) : ChannelWritten(g, i)
        BY <1>4, <1>5, <2>2
      <3>2. Count(g)' = n
        BY <1>1, <1>4, <2>2, BlocksStay
      <3>3. MasterWritten(g)' /\ \A i \in 1..n : ChannelWritten(g, i)'
        BY <1>1, <1>4, <1>12, <1>15, <1>16, <2>2, <3>1, BlocksStay
           DEF MasterWritten, ChannelWritten, TextBlockAt
      <3>4. GroupBlock(g)' \in Range(blocks')
        BY <1>1, <1>8, <1>12, <2>2, BlocksStay
      <3>5. TextBlockAt(GroupPlace(g) + 104)' \in Range(blocks')
        BY <1>1, <1>6, <1>12, <2>2, BlocksStay DEF TextBlockAt
      <3>6. Len(blocks') >= n + 1
        BY <1>5, <1>12, <1>15
      <3> QED
        BY <3>2, <3>3, <3>4, <3>5, <3>6 DEF GroupWritten
    <2>3. \A g \in 1..cg' - 1 : g \in 1..cg - 1 \/ g = cg
      BY <1>1, <1>3
    <2> QED
      BY <2>1, <2>2, <2>3
  <1>19. AtGroup'
    <2>1. (InGroups => cg \in 1..Len(list))'
      BY <1>1, <1>2, <1>3 DEF InGroups
    <2>2. (phase \in {"data", "records"} => cg = Len(list) + 1)'
      BY <1>1, <1>2, <1>3
    <2>3. (Len(blocks) >= cg)'
      BY <1>1, <1>3, <1>12, <1>15
    <2>4. dgFirst' = IF cg' = 1 THEN 0 ELSE GroupPlace(1)'
      <3>1. cg' # 1
        BY <1>1, <1>3
      <3>2. dgFirst' = GroupPlace(1)
        BY <1>1, <1>3, <1>6
      <3> QED
        BY <1>1, <3>1, <3>2, BlocksStay
    <2> QED
      BY <1>18, <2>1, <2>2, <2>3, <2>4 DEF AtGroup
  <1>20. AtChannel'
    BY <1>1 DEF AtChannel, InChannels
  <1>21. AtEnds'
    <2>1. HeadWritten'
      BY <1>1, <1>12, <1>15, <1>16, WrittenStays DEF BlocksInv, AtEnds
    <2>2. phase' = "master" => offset' = StartOf(cg)'
      BY <1>1, <1>13, BlocksStay DEF StartOf
    <2>3. phase' = "data" => offset' = DgFirst'
      <3>1. phase' = "data" => cg = m
        BY <1>1, <1>2, <1>3
      <3>2. DgFirst = StartOf(m + 1)
        BY <1>1, <1>2, GroupSumsAre
      <3> QED
        BY <1>1, <1>13, <3>1, <3>2, BlocksStay
    <2> QED
      BY <1>1, <2>1, <2>2, <2>3 DEF AtEnds
  <1> QED
    BY <1>14, <1>19, <1>20, <1>21 DEF BlocksInv

LEMMA DataStep ==
  ASSUME BlocksInv, WriteData
  PROVE  BlocksInv'
  <1>1. /\ phase = "data" /\ list \in Groups /\ Placed /\ MdfTypes
        /\ UNCHANGED <<list, recordId, cg, dgFirst>> /\ phase' = "records"
    BY DEF BlocksInv, MdfTypes, WriteData
  <1>2. PICK m \in Nat : m = Len(list)
    BY <1>1, GroupTypes
  <1>3. /\ cg = m + 1 /\ dgFirst = (IF cg = 1 THEN 0 ELSE GroupPlace(1)) /\ Len(blocks) >= cg
        /\ \A g \in 1..cg - 1 : GroupWritten(g)
        /\ offset = DgFirst /\ HeadWritten
    BY <1>1, <1>2 DEF BlocksInv, AtGroup, AtEnds
  <1>4. PICK b, c : b = DgBlock /\ c = DtBlock
    OBVIOUS
  <1>5. b.at = offset /\ b.kind = "DG" /\ c.at = offset + 64 /\ c.kind = "DT"
    BY <1>3, <1>4 DEF DgBlock, DtBlock
  <1>6. blocks' = blocks \o <<b, c>> /\ offset' = offset + 64 + 24
    <2>1. b = [at |-> offset, kind |-> "DG", cgFirst |-> dgFirst, data |-> offset + SizeOf.DG]
      BY <1>2, <1>3, <1>4, SizesAre DEF DgBlock
    <2>2. c = [at |-> offset + SizeOf.DG, kind |-> "DT"]
      BY <1>3, <1>4, SizesAre DEF DtBlock
    <2> QED
      BY <2>1, <2>2, SizesAre DEF WriteData
  <1>7. /\ Placed' /\ Len(blocks') = Len(blocks) + 2
        /\ Range(blocks') = Range(blocks) \cup {b, c}
    <2>1. DOMAIN SizeOf = {"ID", "HD", "FH", "MD", "TX", "CN", "CG", "DG", "DT"}
      BY DEF SizeOf
    <2>2. offset \in Place /\ offset + 64 \in Place /\ offset + 64 + 24 \in Place
      BY <1>1, PlacesAdd DEF Placed
    <2>3. offset \in Nat
      BY <2>2 DEF Place
    <2>4. KnownBlock(b) /\ KnownBlock(c)
      BY <1>5, <2>1, <2>2 DEF KnownBlock
    <2>5. c.at > offset /\ offset' > c.at /\ offset' \in Place
      BY <1>5, <1>6, <2>2, <2>3
    <2> QED
      BY <1>1, <1>5, <1>6, <2>4, <2>5, TwoMore
  <1>8. Len(blocks) \in Nat /\ Len(blocks') \in Nat /\ Len(blocks') >= Len(blocks)
    <2>1. Len(blocks) \in Nat
      BY <1>1, LenProperties DEF Placed
    <2> QED
      BY <1>7, <2>1
  <1>9. Range(blocks) \subseteq Range(blocks')
    BY <1>7
  <1>10. MdfTypes'
    BY <1>1, <1>7 DEF MdfTypes
  <1>11. AtGroup'
    <2>1. \A g \in 1..cg' - 1 : GroupWritten(g)'
      <3>1. \A g \in 1..cg - 1 : GroupWritten(g) /\ g \in 1..Len(list)
        BY <1>2, <1>3
      <3> QED
        BY <1>1, <1>7, <1>8, <1>9, <3>1, WrittenStays
    <2>2. (Len(blocks) >= cg)'
      BY <1>1, <1>2, <1>3, <1>7, <1>8
    <2>3. dgFirst' = IF cg' = 1 THEN 0 ELSE GroupPlace(1)'
      BY <1>1, <1>3, BlocksStay
    <2>4. cg' = Len(list)' + 1 /\ ~InGroups'
      BY <1>1, <1>2, <1>3 DEF InGroups
    <2> QED
      BY <2>1, <2>2, <2>3, <2>4 DEF AtGroup
  <1>12. AtChannel'
    BY <1>1 DEF AtChannel, InChannels
  <1>13. AtEnds'
    <2>1. HeadWritten'
      BY <1>1, <1>3, <1>7, <1>8, <1>9, WrittenStays
    <2>2. offset' = DgFirst' + 88
      <3>1. offset \in Nat
        BY <1>1 DEF Placed, Place
      <3> QED
        BY <1>1, <1>3, <1>6, <3>1, BlocksStay
    <2>3. {DgBlock', DtBlock'} \subseteq Range(blocks')
      BY <1>1, <1>4, <1>7, BlocksStay
    <2> QED
      BY <1>1, <2>1, <2>2, <2>3 DEF AtEnds
  <1> QED
    BY <1>10, <1>11, <1>12, <1>13 DEF BlocksInv

(* Records, another stream, and no step at all.                            *)
LEMMA CreateStep ==
  ASSUME BlocksInv, MdfCreate
  PROVE  BlocksInv'
  <1>1. /\ offset' = 0 /\ blocks' = <<>> /\ phase' = "head" /\ cg' = 1 /\ dgFirst' = 0
        /\ UNCHANGED <<list, recordId>>
    BY DEF MdfCreate
  <1>2. Placed'
    <2>1. Range(blocks') = {} /\ Len(blocks') = 0
      BY <1>1 DEF Range
    <2>2. blocks' \in Seq(Range(blocks')) /\ offset' \in Place
      BY <1>1, PlacesAdd
    <2> QED
      BY <2>1, <2>2 DEF Placed
  <1>3. MdfTypes'
    BY <1>1, <1>2 DEF MdfTypes, BlocksInv
  <1>4. AtGroup'
    BY <1>1 DEF AtGroup, InGroups
  <1>5. AtChannel' /\ AtEnds'
    BY <1>1 DEF AtChannel, InChannels, AtEnds
  <1> QED
    BY <1>3, <1>4, <1>5 DEF BlocksInv

LEMMA SameBlocks ==
  ASSUME BlocksInv, UNCHANGED <<list, recordId, offset, blocks, phase, cg, cn, first, dgFirst>>
  PROVE  BlocksInv'
  <1>1. \A g : /\ MasterBlock(g)' = MasterBlock(g) /\ StartOf(g)' = StartOf(g)
               /\ GroupBlock(g)' = GroupBlock(g) /\ GroupPlace(g)' = GroupPlace(g)
               /\ Count(g)' = Count(g)
               /\ \A n : /\ ChannelBlock(g, n)' = ChannelBlock(g, n)
                         /\ ChannelAt(g, n)' = ChannelAt(g, n)
    BY BlocksStay
  <1>2. \A g : MasterWritten(g)' = MasterWritten(g)
    BY <1>1 DEF MasterWritten, TextBlockAt
  <1>3. \A g, n : ChannelWritten(g, n)' = ChannelWritten(g, n)
    BY <1>1 DEF ChannelWritten, TextBlockAt
  <1>4. \A g : GroupWritten(g) => GroupWritten(g)'
    BY <1>1, <1>2, <1>3 DEF GroupWritten, TextBlockAt
  <1>5. Placed' /\ MdfTypes'
    BY DEF BlocksInv, MdfTypes, Placed, KnownBlock
  <1>6. AtGroup'
    BY <1>1, <1>4 DEF BlocksInv, AtGroup, InGroups
  <1>7. AtChannel'
    BY <1>1, <1>2, <1>3 DEF BlocksInv, AtChannel, InChannels
  <1>8. AtEnds'
    BY <1>1, BlocksStay
       DEF BlocksInv, AtEnds, HeadWritten, IdBlock, FhBlock, MdBlock
  <1> QED
    BY <1>5, <1>6, <1>7, <1>8 DEF BlocksInv

LEMMA BlocksStep == BlocksInv /\ [MdfNext]_mdfVars => BlocksInv'
  <1> SUFFICES ASSUME BlocksInv, [MdfNext]_mdfVars PROVE BlocksInv'
    OBVIOUS
  <1>1. CASE UNCHANGED mdfVars
    BY <1>1, SameBlocks DEF mdfVars
  <1>2. CASE WriteRecords
    BY <1>2, SameBlocks DEF WriteRecords
  <1> QED
    BY <1>1, <1>2, HeadStep, MasterStep, ChannelStep, GroupStep, DataStep, CreateStep
       DEF MdfNext

(* A chain of links is what it leads through.                              *)
LEMMA ChainIs ==
  ASSUME Len(blocks) \in Nat, NEW k \in Nat, k <= Len(blocks), NEW A \in [1..k -> Nat \ {0}],
         NEW from, from = IF k = 0 THEN 0 ELSE A[1],
         NextOf(0) = 0,
         \A i \in 1..k : NextOf(A[i]) = IF i < k THEN A[i + 1] ELSE 0
  PROVE  Chain(from) = A
  <1>1. PICK n \in Nat : n = Len(blocks) /\ k <= n
    OBVIOUS
  <1> DEFINE Loop(h) == h = [i \in 0..Len(blocks) |-> IF i = 0 THEN from ELSE NextOf(h[i - 1])]
             h == [i \in 0..n |-> IF i < k THEN A[i + 1] ELSE 0]
             g == CHOOSE f : Loop(f)
  <1>2. ASSUME NEW i \in 0..n
        PROVE  h[i] = IF i = 0 THEN from ELSE NextOf(h[i - 1])
    <2>1. CASE i = 0
      BY <2>1
    <2>2. CASE i # 0 /\ i - 1 < k
      <3>1. i \in 1..k /\ i - 1 \in 0..n /\ (i - 1) + 1 = i
        BY <2>2
      <3>2. h[i - 1] = A[i]
        BY <2>2, <3>1
      <3>3. h[i] = IF i < k THEN A[i + 1] ELSE 0
        OBVIOUS
      <3> HIDE DEF h
      <3> QED
        BY <2>2, <3>1, <3>2, <3>3
    <2>3. CASE i # 0 /\ ~(i - 1 < k)
      <3>1. i - 1 \in 0..n /\ ~(i < k)
        BY <2>3
      <3>2. h[i - 1] = 0 /\ h[i] = 0
        BY <2>3, <3>1
      <3> HIDE DEF h
      <3> QED
        BY <2>3, <3>2
    <2> QED
      BY <2>1, <2>2, <2>3
  <1>3. Loop(h)
    <2>1. h = [i \in 0..n |-> h[i]]
      OBVIOUS
    <2> HIDE DEF h
    <2> QED
      BY <1>1, <1>2, <2>1
  <1>4. Loop(g)
    <2> HIDE DEF h, Loop
    <2> QED
      BY <1>3
  <1>5. Chain(from) = [i \in {i \in 1..Len(blocks) : g[i - 1] # 0} |-> g[i - 1]]
    BY DEF Chain
  <1> HIDE DEF g
  <1>6. \A i \in 0..n : g[i] = IF i = 0 THEN from ELSE NextOf(g[i - 1])
    BY <1>1, <1>4
  <1> HIDE DEF h, Loop
  <1> DEFINE T == {i \in 0..n : \A j \in 0..i : g[j] = h[j]}
  <1>7. n \in T
    <2>1. 0 \in T
      BY <1>2, <1>6
    <2>2. ASSUME NEW i \in 0..n - 1, i \in T PROVE i + 1 \in T
      <3>1. i + 1 \in 0..n /\ i + 1 # 0 /\ (i + 1) - 1 = i /\ i \in 0..i
        OBVIOUS
      <3>2. g[i + 1] = NextOf(g[i]) /\ h[i + 1] = NextOf(h[i])
        BY <1>2, <1>6, <3>1
      <3>3. g[i + 1] = h[i + 1]
        BY <2>2, <3>1, <3>2
      <3>4. \A j \in 0..i + 1 : j = i + 1 \/ j \in 0..i
        OBVIOUS
      <3> QED
        BY <2>2, <3>1, <3>3, <3>4
    <2> HIDE DEF T
    <2> QED
      BY <2>1, <2>2, LoopInd
  <1>8. \A i \in 1..n : g[i - 1] = IF i <= k THEN A[i] ELSE 0
    <2>1. ASSUME NEW i \in 1..n PROVE g[i - 1] = IF i <= k THEN A[i] ELSE 0
      <3>1. i - 1 \in 0..n /\ (i - 1) + 1 = i /\ (i - 1 < k <=> i <= k)
        OBVIOUS
      <3>2. g[i - 1] = h[i - 1]
        BY <1>7, <3>1
      <3> QED
        BY <3>1, <3>2 DEF h
    <2> QED
      BY <2>1
  <1>9. {i \in 1..n : g[i - 1] # 0} = 1..k
    <2>1. \A i \in 1..k : i \in 1..n /\ A[i] # 0
      BY <1>1
    <2> QED
      BY <1>8, <2>1
  <1>10. \A i \in 1..k : g[i - 1] = A[i]
    BY <1>1, <1>8
  <1> QED
    BY <1>1, <1>5, <1>9, <1>10

(* The reader finds what was written.                                      *)
GroupList == [g \in 1..Len(list) |-> GroupPlace(g)]
ChannelList(g) == [i \in 1..Count(g) + 1 |-> IF i = 1 THEN StartOf(g) ELSE ChannelAt(g, i - 1)]

(* What is at the head of the file and at its end.                         *)
LEMMA HeadRead ==
  ASSUME BlocksInv, phase = "records"
  PROVE  /\ list \in Groups /\ Placed /\ Len(blocks) \in Nat /\ Len(blocks) >= Len(list)
         /\ NextOf(0) = 0
         /\ Block(SizeOf.ID) = HdBlock
         /\ IsBlock(DgFirst, "DG") /\ Block(DgFirst) = DgBlock
         /\ IsBlock(168, "FH") /\ Block(168) = FhBlock
         /\ IsBlock(224, "MD") /\ IsBlock(DgFirst + 64, "DT")
         /\ \A g \in 1..Len(list) : GroupWritten(g)
  <1>1. /\ list \in Groups /\ Placed /\ HeadWritten /\ cg = Len(list) + 1 /\ Len(blocks) >= cg
        /\ {DgBlock, DtBlock} \subseteq Range(blocks)
        /\ \A g \in 1..cg - 1 : GroupWritten(g)
    BY DEF BlocksInv, MdfTypes, AtGroup, AtEnds
  <1>2. Len(list) \in Nat /\ Len(blocks) \in Nat
    BY <1>1, GroupTypes, LenProperties DEF Placed
  <1>3. Block(64) = HdBlock
    <2>1. HdBlock \in Range(blocks) /\ HdBlock.at = 64
      BY <1>1 DEF HeadWritten, HdBlock
    <2> QED
      BY <1>1, <2>1, BlockIs
  <1>4. NextOf(0) = 0
    BY DEF NextOf
  <1>5. IsBlock(DgFirst, "DG") /\ Block(DgFirst) = DgBlock
    <2>1. DgBlock.at = DgFirst /\ DgBlock.kind = "DG"
      BY DEF DgBlock
    <2> QED
      BY <1>1, <2>1, BlockIs
  <1>6. IsBlock(168, "FH") /\ Block(168) = FhBlock
    <2>1. FhBlock \in Range(blocks) /\ FhBlock.at = 168 /\ FhBlock.kind = "FH"
      BY <1>1 DEF HeadWritten, FhBlock
    <2> QED
      BY <1>1, <2>1, BlockIs
  <1>7. IsBlock(224, "MD")
    <2>1. MdBlock \in Range(blocks) /\ MdBlock.at = 224 /\ MdBlock.kind = "MD"
      BY <1>1 DEF HeadWritten, MdBlock
    <2> QED
      BY <1>1, <2>1, BlockIs
  <1>8. IsBlock(DgFirst + 64, "DT")
    <2>1. DtBlock.at = DgFirst + 64 /\ DtBlock.kind = "DT"
      BY DEF DtBlock
    <2> QED
      BY <1>1, <2>1, BlockIs
  <1>9. cg - 1 = Len(list) /\ Len(blocks) >= Len(list)
    BY <1>1, <1>2
  <1> QED
    BY <1>1, <1>2, <1>3, <1>4, <1>5, <1>6, <1>7, <1>8, <1>9, SizesAre

(* The chain of the groups.                                                *)
LEMMA GroupsRead ==
  ASSUME BlocksInv, phase = "records"
  PROVE  /\ ReadGroups = GroupList
         /\ \A g \in 1..Len(list) :
              IsBlock(GroupPlace(g), "CG") /\ Block(GroupPlace(g)) = GroupBlock(g)
  <1>1. PICK m \in Nat : m = Len(list) /\ list \in Groups
    BY HeadRead, GroupTypes
  <1>2. ASSUME NEW g \in 1..m
        PROVE  /\ IsBlock(GroupPlace(g), "CG") /\ Block(GroupPlace(g)) = GroupBlock(g)
               /\ NextOf(GroupPlace(g)) = IF g < m THEN GroupPlace(g + 1) ELSE 0
    <2>1. GroupBlock(g) \in Range(blocks)
      BY <1>1, HeadRead DEF GroupWritten
    <2>2. GroupBlock(g).at = GroupPlace(g) /\ GroupBlock(g).kind = "CG"
          /\ GroupBlock(g).next = IF g < m THEN GroupPlace(g + 1) ELSE 0
      BY <1>1 DEF GroupBlock
    <2>3. IsBlock(GroupPlace(g), "CG") /\ Block(GroupPlace(g)) = GroupBlock(g)
      BY <2>1, <2>2, HeadRead, BlockIs
    <2>4. GroupPlace(g) # 0
      BY <1>1, PlacesAre DEF Place
    <2> QED
      BY <2>2, <2>3, <2>4 DEF NextOf
  <1>3. PICK A : A = GroupList
    OBVIOUS
  <1>4. A \in [1..m -> Nat \ {0}] /\ \A g \in 1..m : A[g] = GroupPlace(g)
    <2>1. ASSUME NEW g \in 1..m PROVE GroupPlace(g) \in Nat \ {0}
      BY <1>1, PlacesAre DEF Place
    <2> QED
      BY <1>1, <1>3, <2>1 DEF GroupList
  <1>5. PICK from : from = IF m = 0 THEN 0 ELSE A[1]
    OBVIOUS
  <1>6. \A g \in 1..m : NextOf(A[g]) = IF g < m THEN A[g + 1] ELSE 0
    <2>1. ASSUME NEW g \in 1..m PROVE NextOf(A[g]) = IF g < m THEN A[g + 1] ELSE 0
      <3>1. g < m => g + 1 \in 1..m
        OBVIOUS
      <3> QED
        BY <1>2, <1>4, <3>1
    <2> QED
      BY <2>1
  <1>7. Chain(from) = A
    <2>1. Len(blocks) \in Nat /\ m <= Len(blocks) /\ NextOf(0) = 0
      BY <1>1, HeadRead
    <2> QED
      BY <1>4, <1>5, <1>6, <2>1, ChainIs
  <1>8. ReadGroups = Chain(from)
    <2>1. Block(SizeOf.ID).dgFirst = DgFirst
      BY HeadRead DEF HdBlock
    <2>2. Block(DgFirst).cgFirst = IF m = 0 THEN 0 ELSE GroupPlace(1)
      BY <1>1, HeadRead DEF DgBlock
    <2>3. m # 0 => A[1] = GroupPlace(1)
      BY <1>4
    <2>4. Block(Block(SizeOf.ID).dgFirst).cgFirst = from
      BY <1>5, <2>1, <2>2, <2>3
    <2> QED
      BY <2>4 DEF ReadGroups
  <1> QED
    BY <1>1, <1>2, <1>3, <1>7, <1>8

(* The chain of the channels of a group.                                   *)
LEMMA ChannelsRead ==
  ASSUME BlocksInv, phase = "records", NEW g \in 1..Len(list), Count(g) # 0
  PROVE  /\ Chain(StartOf(g)) = ChannelList(g)
         /\ IsBlock(StartOf(g), "CN") /\ Block(StartOf(g)) = MasterBlock(g)
         /\ IsBlock(StartOf(g) + 160, "TX")
         /\ \A n \in 1..Count(g) :
              /\ IsBlock(ChannelAt(g, n), "CN") /\ Block(ChannelAt(g, n)) = ChannelBlock(g, n)
              /\ IsBlock(ChannelAt(g, n) + 160, "TX")
  <1>1. list \in Groups /\ GroupWritten(g) /\ Placed
    BY HeadRead
  <1>2. PICK n \in Nat : n = Count(g) /\ n # 0
    BY <1>1, GroupTypes
  <1>3. /\ IsBlock(StartOf(g), "CN") /\ Block(StartOf(g)) = MasterBlock(g)
        /\ IsBlock(StartOf(g) + 160, "TX") /\ NextOf(StartOf(g)) = StartOf(g) + 192
    <2>1. MasterBlock(g) \in Range(blocks) /\ TextBlockAt(StartOf(g) + 160) \in Range(blocks)
      BY <1>1 DEF GroupWritten, MasterWritten
    <2>2. MasterBlock(g).at = StartOf(g) /\ MasterBlock(g).kind = "CN"
          /\ MasterBlock(g).next = StartOf(g) + 192
      BY DEF MasterBlock
    <2>3. TextBlockAt(StartOf(g) + 160).at = StartOf(g) + 160
              /\ TextBlockAt(StartOf(g) + 160).kind = "TX"
      BY DEF TextBlockAt
    <2>4. IsBlock(StartOf(g), "CN") /\ Block(StartOf(g)) = MasterBlock(g)
      BY <1>1, <2>1, <2>2, BlockAt, Zenon
    <2>5. IsBlock(StartOf(g) + 160, "TX")
      <3>1. PICK b \in Range(blocks) : b.at = StartOf(g) + 160 /\ b.kind = "TX"
        BY <2>1, <2>3, Zenon
      <3> QED
        BY <1>1, <3>1, BlockAt
    <2>6. StartOf(g) # 0
      BY <1>1, PlacesAre DEF Place
    <2> QED
      BY <2>2, <2>4, <2>5, <2>6 DEF NextOf
  <1>4. ASSUME NEW i \in 1..n
        PROVE  /\ IsBlock(ChannelAt(g, i), "CN") /\ Block(ChannelAt(g, i)) = ChannelBlock(g, i)
               /\ IsBlock(ChannelAt(g, i) + 160, "TX")
               /\ NextOf(ChannelAt(g, i)) = IF i < n THEN ChannelAt(g, i + 1) ELSE 0
    <2>1. ChannelBlock(g, i) \in Range(blocks)
              /\ TextBlockAt(ChannelAt(g, i) + 160) \in Range(blocks)
      BY <1>1, <1>2 DEF GroupWritten, ChannelWritten
    <2>2. ChannelBlock(g, i).at = ChannelAt(g, i) /\ ChannelBlock(g, i).kind = "CN"
          /\ ChannelBlock(g, i).next = IF i < n THEN ChannelAt(g, i + 1) ELSE 0
      BY <1>2 DEF ChannelBlock
    <2>3. TextBlockAt(ChannelAt(g, i) + 160).at = ChannelAt(g, i) + 160
          /\ TextBlockAt(ChannelAt(g, i) + 160).kind = "TX"
      BY DEF TextBlockAt
    <2>4. IsBlock(ChannelAt(g, i), "CN") /\ Block(ChannelAt(g, i)) = ChannelBlock(g, i)
      BY <1>1, <2>1, <2>2, BlockAt, Zenon
    <2>5. IsBlock(ChannelAt(g, i) + 160, "TX")
      <3>1. PICK b \in Range(blocks) : b.at = ChannelAt(g, i) + 160 /\ b.kind = "TX"
        BY <2>1, <2>3, Zenon
      <3> QED
        BY <1>1, <3>1, BlockAt
    <2>6. ChannelAt(g, i) # 0
      <3>1. i \in 1..n + 1
        OBVIOUS
      <3>2. ChannelAt(g, i) \in Place /\ ChannelAt(g, i) >= 400
        BY <1>1, <1>2, <3>1, PlacesAre
      <3> QED
        BY <3>2 DEF Place
    <2> QED
      BY <2>2, <2>4, <2>5, <2>6 DEF NextOf
  <1>5. PICK A : A = ChannelList(g)
    OBVIOUS
  <1>6. A \in [1..n + 1 -> Nat \ {0}] /\ A[1] = StartOf(g)
        /\ \A i \in 1..n : A[i + 1] = ChannelAt(g, i)
    <2>1. StartOf(g) \in Nat \ {0}
      BY <1>1, PlacesAre DEF Place
    <2>2. ASSUME NEW i \in 1..n + 1, i # 1
          PROVE  ChannelAt(g, i - 1) \in Nat \ {0}
      <3>1. i - 1 \in 1..n + 1
        BY <2>2
      <3>2. ChannelAt(g, i - 1) \in Place /\ ChannelAt(g, i - 1) >= 400
        BY <1>1, <1>2, <3>1, PlacesAre
      <3> QED
        BY <3>2 DEF Place
    <2>3. A = [i \in 1..n + 1 |-> IF i = 1 THEN StartOf(g) ELSE ChannelAt(g, i - 1)]
      BY <1>2, <1>5 DEF ChannelList
    <2>4. 1 \in 1..n + 1 /\ \A i \in 1..n : i + 1 \in 1..n + 1 /\ i + 1 # 1 /\ (i + 1) - 1 = i
      OBVIOUS
    <2> QED
      BY <2>1, <2>2, <2>3, <2>4
  <1>7. ASSUME NEW i \in 1..n + 1
        PROVE  NextOf(A[i]) = IF i < n + 1 THEN A[i + 1] ELSE 0
    <2>1. CASE i = 1
      <3>1. ChannelAt(g, 1) = StartOf(g) + 192
        BY <1>1, PlacesAre
      <3>2. 1 \in 1..n /\ 1 < n + 1 /\ A[1 + 1] = ChannelAt(g, 1)
        <4>1. 1 \in 1..n /\ 1 < n + 1
          BY <1>2
        <4> QED
          BY <1>6, <4>1
      <3> QED
        BY <1>3, <1>6, <2>1, <3>1, <3>2
    <2>2. CASE i # 1
      <3>1. PICK j \in 1..n : j = i - 1 /\ i = j + 1
        BY <2>2
      <3>2. A[i] = ChannelAt(g, j)
        BY <1>6, <3>1
      <3>3. i < n + 1 => i \in 1..n /\ A[i + 1] = ChannelAt(g, j + 1)
        BY <1>6, <3>1
      <3>4. j < n <=> i < n + 1
        BY <3>1
      <3> QED
        BY <1>4, <3>2, <3>3, <3>4
    <2> QED
      BY <2>1, <2>2
  <1>8. Chain(StartOf(g)) = A
    <2>1. Len(blocks) \in Nat /\ NextOf(0) = 0 /\ n + 1 <= Len(blocks)
      BY <1>1, <1>2, HeadRead DEF GroupWritten
    <2>2. PICK k \in Nat : k = n + 1 /\ k # 0
      OBVIOUS
    <2>3. A \in [1..k -> Nat \ {0}] /\ \A i \in 1..k : NextOf(A[i]) = IF i < k
              THEN A[i + 1] ELSE 0
      BY <1>6, <1>7, <2>2
    <2>4. StartOf(g) = IF k = 0 THEN 0 ELSE A[1]
      BY <1>6, <2>2
    <2> QED
      BY <2>1, <2>2, <2>3, <2>4, ChainIs
  <1> QED
    BY <1>2, <1>3, <1>4, <1>5, <1>8

(* The links lead where they mean.                                         *)
LEMMA LinksHold == BlocksInv => LinksLead
  <1> SUFFICES ASSUME BlocksInv PROVE LinksLead
    OBVIOUS
  <1>1. /\ list \in Groups /\ Placed /\ recordId \in [Names -> RecordIds]
        /\ phase \in {"head", "master", "channel", "group", "data", "records"}
    BY DEF BlocksInv, MdfTypes
  <1>2. Len(list) \in Nat
    BY <1>1, GroupTypes
  <1>3. cg \in 1..Len(list) + 1
    <2>1. phase = "head" => cg = 1
      BY DEF BlocksInv, AtEnds
    <2>2. phase \in {"data", "records"} => cg = Len(list) + 1
      BY DEF BlocksInv, AtGroup
    <2>3. InGroups => cg \in 1..Len(list)
      BY DEF BlocksInv, AtGroup
    <2> QED
      BY <1>1, <1>2, <2>1, <2>2, <2>3 DEF InGroups
  <1>4. MdfTypeOK
    <2>1. \A b \in Range(blocks) : b.kind \in DOMAIN SizeOf /\ b.at % 8 = 0 /\ b.at < offset
      BY <1>1 DEF Placed, KnownBlock, Place
    <2> QED
      BY <1>1, <1>3, <2>1 DEF MdfTypeOK
  <1> SUFFICES ASSUME phase = "records", \A g \in DOMAIN list : Signals(g) # <<>>
               PROVE  LinksLead
    BY <1>4 DEF LinksLead
  <1>5. DOMAIN list = 1..Len(list)
    BY <1>1, GroupTypes
  <1>6. \A g \in 1..Len(list) : Count(g) # 0 /\ Count(g) \in Nat
    <2>1. ASSUME NEW g \in 1..Len(list) PROVE Count(g) # 0 /\ Count(g) \in Nat
      <3>1. list[g] \in [name : Names, signal : Seq(Nat)]
        BY <1>1, GroupsAssumption, ElementOfSeq
      <3>2. Signals(g) \in Seq(Nat) /\ Signals(g) # <<>>
        BY <1>5, <3>1 DEF Signals
      <3> QED
        BY <1>1, <3>2, EmptySeq, GroupTypes DEF Count
    <2> QED
      BY <2>1
  <1>7. PICK hd : hd = Block(SizeOf.ID)
    OBVIOUS
  <1>8. hd.dgFirst = DgFirst /\ hd.fhFirst = 168
    BY <1>7, HeadRead DEF HdBlock
  <1>9. /\ IsBlock(hd.dgFirst, "DG") /\ IsBlock(hd.fhFirst, "FH")
        /\ IsBlock(Block(hd.fhFirst).comment, "MD")
        /\ IsBlock(Block(hd.dgFirst).data, "DT")
        /\ Block(hd.dgFirst).data + SizeOf.DT = offset
    <2>1. Block(hd.fhFirst).comment = 224
      BY <1>8, HeadRead DEF FhBlock
    <2>2. Block(hd.dgFirst).data = DgFirst + 64
      BY <1>8, HeadRead DEF DgBlock
    <2>3. offset = DgFirst + 88 /\ DgFirst \in Nat
      BY <1>1, GroupSumsAre, <1>2 DEF BlocksInv, AtEnds, Place
    <2>4. DgFirst + 64 + 24 = offset
      BY <2>3
    <2> QED
      BY <1>8, <2>1, <2>2, <2>4, HeadRead, SizesAre
  <1>10. PICK G : G = ReadGroups
    OBVIOUS
  <1>11. Len(G) = Len(list) /\ \A g \in 1..Len(list) : G[g] = GroupPlace(g)
    <2>1. G = [g \in 1..Len(list) |-> GroupPlace(g)]
      BY <1>10, GroupsRead DEF GroupList
    <2>2. \A g \in 1..Len(list) : GroupPlace(g) \in Nat
      BY <1>1, PlacesAre DEF Place
    <2>3. G \in [1..Len(list) -> Nat]
      BY <2>1, <2>2
    <2>4. G \in Seq(Nat)
      BY <1>2, <2>3
    <2>5. Len(G) = Len(list)
      <3>1. Len(G) \in Nat /\ DOMAIN G = 1..Len(G)
        BY <2>4, LenProperties
      <3>2. 1..Len(G) = 1..Len(list)
        BY <2>3, <3>1
      <3> QED
        BY <1>2, <3>1, <3>2
    <2> QED
      BY <2>1, <2>5
  <1>12. ASSUME NEW g \in 1..Len(list)
         PROVE  /\ IsBlock(G[g], "CG") /\ IsBlock(Block(G[g]).name, "TX")
                /\ Block(G[g]).id = recordId[list[g].name]
                /\ LET channels == Chain(Block(G[g]).cnFirst) IN
                   /\ Len(channels) = Len(Signals(g)) + 1
                   /\ \A n \in DOMAIN channels :
                        /\ IsBlock(channels[n], "CN") /\ IsBlock(Block(channels[n]).name, "TX")
                        /\ Block(channels[n]).byteOffset = 8 * (n - 1)
    <2>1. IsBlock(G[g], "CG") /\ Block(G[g]) = GroupBlock(g)
      BY <1>11, GroupsRead
    <2>2. /\ GroupBlock(g).name = GroupPlace(g) + 104
          /\ GroupBlock(g).id = recordId[list[g].name]
          /\ GroupBlock(g).cnFirst = StartOf(g)
      BY DEF GroupBlock
    <2>3. IsBlock(GroupPlace(g) + 104, "TX")
      <3>1. TextBlockAt(GroupPlace(g) + 104) \in Range(blocks)
        BY HeadRead DEF GroupWritten
      <3>2. TextBlockAt(GroupPlace(g) + 104).at = GroupPlace(g) + 104
                /\ TextBlockAt(GroupPlace(g) + 104).kind = "TX"
        BY DEF TextBlockAt
      <3> QED
        BY <1>1, <3>1, <3>2, BlockIs
    <2>4. PICK k \in Nat : k = Count(g) /\ k # 0
      BY <1>6
    <2>5. PICK C : C = ChannelList(g)
      OBVIOUS
    <2>6. C = [i \in 1..k + 1 |-> IF i = 1 THEN StartOf(g) ELSE ChannelAt(g, i - 1)]
      BY <2>4, <2>5 DEF ChannelList
    <2>7. Len(C) = k + 1 /\ DOMAIN C = 1..k + 1
      BY <2>6
    <2>8. ASSUME NEW n \in 1..k + 1
          PROVE  /\ IsBlock(C[n], "CN") /\ IsBlock(Block(C[n]).name, "TX")
                 /\ Block(C[n]).byteOffset = 8 * (n - 1)
      <3>1. CASE n = 1
        <4>1. C[n] = StartOf(g)
          BY <2>6, <3>1
        <4>2. MasterBlock(g).name = StartOf(g) + 160 /\ MasterBlock(g).byteOffset = 0
          BY DEF MasterBlock
        <4>3. IsBlock(StartOf(g), "CN") /\ Block(StartOf(g)) = MasterBlock(g)
              /\ IsBlock(StartOf(g) + 160, "TX")
          BY <2>4, ChannelsRead
        <4>4. 8 * (n - 1) = 0
          BY <3>1
        <4> QED
          BY <4>1, <4>2, <4>3, <4>4
      <3>2. CASE n # 1
        <4>1. PICK i \in 1..k : i = n - 1
          BY <3>2
        <4>2. C[n] = ChannelAt(g, i)
          BY <2>6, <3>2, <4>1
        <4>3. ChannelBlock(g, i).name = ChannelAt(g, i) + 160
                  /\ ChannelBlock(g, i).byteOffset = 8 * i
          BY DEF ChannelBlock
        <4>4. IsBlock(ChannelAt(g, i), "CN") /\ Block(ChannelAt(g, i)) = ChannelBlock(g, i)
              /\ IsBlock(ChannelAt(g, i) + 160, "TX")
          BY <2>4, ChannelsRead
        <4> QED
          BY <4>1, <4>2, <4>3, <4>4
      <3> QED
        BY <3>1, <3>2
    <2>9. Chain(Block(G[g]).cnFirst) = C
      BY <2>1, <2>2, <2>4, <2>5, ChannelsRead
    <2>10. Len(Signals(g)) = k
      BY <2>4 DEF Count
    <2> QED
      BY <1>11, <2>1, <2>2, <2>3, <2>7, <2>8, <2>9, <2>10
  <1> QED
    BY <1>4, <1>5, <1>7, <1>9, <1>10, <1>11, <1>12 DEF LinksLead

(* Pieces joined to pieces of the same length.                             *)
LEMMA JoinedPieces ==
  ASSUME NEW S, NEW c \in Nat, NEW k \in Nat, NEW m \in Nat, NEW r, NEW q, NEW p,
         NEW f, NEW e, InPieces(S, c, k, r, f), InPieces(S, c, m, q, e),
         \A i \in 1..k : p[i] = r[i], \A i \in 1..m : p[k + i] = q[i]
  PROVE  InPieces(S, c, k + m, p, f \o e)
  <1>1. /\ f \in Seq(S) /\ Len(f) = c * k
        /\ \A i \in 1..k : \A j \in 1..c : f[c * i - c + j] = r[i][j]
        /\ e \in Seq(S) /\ Len(e) = c * m
        /\ \A i \in 1..m : \A j \in 1..c : e[c * i - c + j] = q[i][j]
    BY DEF InPieces
  <1>2. PICK lf \in Nat, le \in Nat : lf = c * k /\ le = c * m /\ c * (k + m) = lf + le
    BY SMT
  <1>3. PICK d : d = f \o e
    OBVIOUS
  <1>4. /\ d \in Seq(S) /\ Len(d) = lf + le
        /\ \A t \in 1..lf + le : d[t] = IF t <= lf THEN f[t] ELSE e[t - lf]
    <2>1. f \in Seq(S) /\ Len(f) = lf /\ e \in Seq(S) /\ Len(e) = le
      BY <1>1, <1>2, Zenon
    <2>2. /\ d \in Seq(S) /\ Len(d) = Len(f) + Len(e)
          /\ \A t \in 1..Len(f) + Len(e) : d[t] = IF t <= Len(f) THEN f[t] ELSE e[t - Len(f)]
      BY <1>3, <2>1, ConcatProperties
    <2> QED
      BY <2>1, <2>2, Zenon
  <1>5. ASSUME NEW i \in 1..k + m, NEW j \in 1..c PROVE d[c * i - c + j] = p[i][j]
    <2>1. CASE i \in 1..k
      <3>1. PICK a \in Nat : a = c * (i - 1)
        BY <2>1, SMT
      <3>2. PICK b \in Nat : b = c * (k - i)
        BY <2>1, SMT
      <3>3. c * i - c = a /\ lf = a + c + b
        BY <1>2, <2>1, <3>1, <3>2, SMT
      <3>4. c * i - c + j \in 1..lf + le /\ c * i - c + j <= lf
        BY <3>3
      <3>5. d[c * i - c + j] = f[c * i - c + j]
        BY <1>4, <3>4
      <3> QED
        BY <1>1, <2>1, <3>5
    <2>2. CASE i \notin 1..k
      <3>1. PICK h \in 1..m : i = k + h
        <4>1. i - k \in 1..m /\ i = k + (i - k)
          BY <2>2
        <4> QED
          BY <4>1
      <3>2. PICK a \in Nat : a = c * (h - 1)
        BY <3>1, SMT
      <3>3. PICK b \in Nat : b = c * (m - h)
        BY <3>1, SMT
      <3>4. c * i - c = lf + a /\ c * h - c = a /\ le = a + c + b
        BY <1>2, <3>1, <3>2, <3>3, SMT
      <3>5. c * i - c + j \in 1..lf + le /\ ~(c * i - c + j <= lf)
            /\ c * i - c + j - lf = c * h - c + j
        BY <3>4
      <3>6. d[c * i - c + j] = e[c * h - c + j]
        BY <1>4, <3>5
      <3> QED
        BY <1>1, <3>1, <3>6
    <2> QED
      BY <2>1, <2>2
  <1> QED
    BY <1>2, <1>3, <1>4, <1>5 DEF InPieces

(* The words of the records, if all groups have n signals.                 *)
Word == [id : RecordIds] \cup [time : Nat] \cup [sample : Nat, of : Nat \X Nat]
SameSize(n) == \A g \in 1..Len(list) : Count(g) = n
Entry(n) == {r \in [group : 1..Len(list), words : Seq(Word)] : Len(r.words) = n + 1}
AllWords == [i \in 1..Len(records) |-> WordsOf(records[i])]
RecordsInv ==
  /\ list \in Groups /\ recordId \in [Names -> RecordIds]
  /\ \A n \in Nat : SameSize(n) =>
       /\ records \in Seq(Entry(n))
       /\ InPieces(Word, n + 2, Len(records), AllWords, data)

(* The words of a record are its length and begin with its group's id.     *)
LEMMA EntryWords ==
  ASSUME list \in Groups, recordId \in [Names -> RecordIds], NEW n \in Nat, NEW r \in Entry(n)
  PROVE  /\ WordsOf(r) \in Seq(Word) /\ Len(WordsOf(r)) = n + 2
         /\ WordsOf(r)[1] = [id |-> recordId[list[r.group].name]]
  <1>1. r.group \in 1..Len(list) /\ r.words \in Seq(Word) /\ Len(r.words) = n + 1
    BY DEF Entry
  <1>2. recordId[list[r.group].name] \in RecordIds
    BY <1>1, GroupTypes
  <1>3. PICK w \in Word : w = [id |-> recordId[list[r.group].name]]
    BY <1>2 DEF Word
  <1>4. PICK h : h = <<w>>
    OBVIOUS
  <1>5. h \in Seq(Word) /\ Len(h) = 1 /\ h[1] = w
    BY <1>4
  <1>6. WordsOf(r) = h \o r.words
    BY <1>3, <1>4 DEF WordsOf
  <1>7. PICK s : s = r.words /\ s \in Seq(Word) /\ Len(s) = n + 1
    BY <1>1
  <1>8. PICK d : d = h \o s
    OBVIOUS
  <1>9. PICK k \in Nat : k = n + 1
    OBVIOUS
  <1>10. Len(s) = k
    BY <1>7, <1>9
  <1>11. /\ d \in Seq(Word) /\ Len(d) = Len(h) + Len(s)
         /\ \A i \in 1..Len(h) + Len(s) : d[i] = IF i <= Len(h) THEN h[i] ELSE s[i - Len(h)]
    <2>1. h \in Seq(Word) /\ s \in Seq(Word)
      BY <1>5, <1>7
    <2> QED
      BY <1>8, <2>1, ConcatProperties
  <1>12. 1 \in 1..Len(h) + Len(s) /\ 1 <= Len(h) /\ Len(h) + Len(s) = n + 2
    BY <1>5, <1>9, <1>10
  <1>13. d[1] = w
    BY <1>5, <1>11, <1>12
  <1>14. WordsOf(r) = d
    BY <1>6, <1>7, <1>8
  <1> QED
    BY <1>3, <1>13, <1>11, <1>12, <1>14

(* What write_data_record makes is such a record.                          *)
LEMMA NewEntries ==
  ASSUME list \in Groups, recordId \in [Names -> RecordIds], NEW n \in Nat, SameSize(n),
         NEW time \in Nat, NEW g \in 1..Len(list)
  PROVE  RecordOf(g, time) \in Entry(n)
  <1>1. Len(Signals(g)) = n /\ g \in Nat
    BY GroupTypes DEF SameSize, Count
  <1>2. PICK words : words = RecordOf(g, time).words
    OBVIOUS
  <1>3. words = [i \in 1..n + 1 |->
                   IF i = 1 THEN [time |-> time] ELSE [sample |-> time, of |-> <<g, i - 1>>]]
    BY <1>1, <1>2 DEF RecordOf
  <1>4. words \in [1..n + 1 -> Word]
    <2>1. ASSUME NEW i \in 1..n + 1
          PROVE  (IF i = 1 THEN [time |-> time] ELSE [sample |-> time, of |-> <<g, i - 1>>])
                   \in Word
      <3>1. i - 1 \in Nat /\ <<g, i - 1>> \in Nat \X Nat
        BY <1>1
      <3> QED
        BY <3>1 DEF Word
    <2> QED
      BY <1>3, <2>1
  <1>5. PICK k \in Nat : k = n + 1
    OBVIOUS
  <1>6. words \in Seq(Word) /\ Len(words) = k
    <2>1. words \in [1..k -> Word]
      BY <1>4, <1>5
    <2>2. words \in Seq(Word)
      BY <2>1
    <2> QED
      BY <2>1, <2>2, LenProperties
  <1>7. RecordOf(g, time) = [group |-> g, words |-> words]
    BY <1>2 DEF RecordOf
  <1> QED
    BY <1>5, <1>6, <1>7 DEF Entry

(* The records of a new stream, of one that is written, and of all others. *)
LEMMA RecordsInitHold == MdfInit => RecordsInv
  <1> SUFFICES ASSUME MdfInit, NEW n \in Nat
               PROVE  /\ list \in Groups /\ recordId \in [Names -> RecordIds]
                      /\ records \in Seq(Entry(n))
                      /\ InPieces(Word, n + 2, Len(records), AllWords, data)
    BY DEF RecordsInv
  <1>1. records = <<>> /\ data = <<>> /\ Len(records) = 0 /\ data \in Seq(Word) /\ Len(data) = 0
    BY DEF MdfInit
  <1>2. (n + 2) * 0 = 0
    BY SMT
  <1>3. InPieces(Word, n + 2, Len(records), AllWords, data)
    BY <1>1, <1>2 DEF InPieces
  <1>4. records \in Seq(Entry(n))
    BY <1>1
  <1> QED
    BY <1>3, <1>4 DEF MdfInit

LEMMA WriteStep ==
  ASSUME RecordsInv, WriteRecords, NEW n \in Nat, SameSize(n)
  PROVE  /\ records' \in Seq(Entry(n))
         /\ InPieces(Word, n + 2, Len(records'),
                     [i \in 1..Len(records') |-> WordsOf(records'[i])], data')
  <1>1. list \in Groups /\ recordId \in [Names -> RecordIds]
        /\ records \in Seq(Entry(n))
        /\ InPieces(Word, n + 2, Len(records), AllWords, data)
    BY DEF RecordsInv
  <1>2. PICK k \in Nat : k = Len(records)
    BY <1>1, LenProperties
  <1>3. PICK m \in Nat : m = Len(list) /\ DOMAIN list = 1..m
    BY <1>1, GroupTypes
  <1>4. PICK new : new = [g \in 1..m |-> RecordOf(g, k + 1)]
    OBVIOUS
  <1>5. PICK q : q = [g \in 1..m |-> WordsOf(new[g])]
    OBVIOUS
  <1>6. DOMAIN new = 1..m
    BY <1>4
  <1>7. records' = records \o new /\ data' = data \o FlattenSeq(q)
    <2>1. new = [g \in DOMAIN list |-> RecordOf(g, Len(records) + 1)]
      BY <1>2, <1>3, <1>4
    <2>2. q = [g \in DOMAIN new |-> WordsOf(new[g])]
      BY <1>5, <1>6
    <2> QED
      BY <2>1, <2>2 DEF WriteRecords
  <1>8. new \in [1..m -> Entry(n)]
    <2>1. k + 1 \in Nat
      OBVIOUS
    <2>2. ASSUME NEW g \in 1..m PROVE RecordOf(g, k + 1) \in Entry(n)
      BY <1>1, <1>3, <2>1, NewEntries
    <2> QED
      BY <1>4, <2>2
  <1>9. new \in Seq(Entry(n)) /\ Len(new) = m
    <2>1. new \in Seq(Entry(n))
      BY <1>8
    <2> QED
      BY <1>8, <2>1, LenProperties
  <1>10. PICK all : all = records \o new
    OBVIOUS
  <1>11. /\ all \in Seq(Entry(n)) /\ Len(all) = k + m
         /\ \A i \in 1..k + m : all[i] = IF i <= k THEN records[i] ELSE new[i - k]
    BY <1>1, <1>2, <1>9, <1>10, ConcatProperties
  <1>12. \A g \in 1..m : q[g] = WordsOf(new[g]) /\ new[g] \in Entry(n)
    BY <1>5, <1>8
  <1>13. OfLength(Word, m, q, n + 2)
    <2>1. ASSUME NEW g \in 1..m PROVE q[g] \in Seq(Word) /\ Len(q[g]) = n + 2
      <3>1. PICK x \in Entry(n) : x = new[g]
        BY <1>12
      <3>2. WordsOf(x) \in Seq(Word) /\ Len(WordsOf(x)) = n + 2
        BY <1>1, EntryWords
      <3>3. q[g] = WordsOf(x)
        BY <1>12, <3>1
      <3> QED
        BY <3>2, <3>3
    <2>2. q \in [1..m -> Seq(Word)]
      BY <1>5, <2>1
    <2> QED
      BY <2>1, <2>2 DEF OfLength
  <1>14. PICK flat : FlattenedBy(Word, m, q, flat)
    <2>1. q \in [1..m -> Seq(Word)]
      BY <1>13 DEF OfLength
    <2> QED
      BY <2>1, FlattenLoop
  <1>15. InPieces(Word, n + 2, m, q, FlattenSeq(q))
    <2>1. FlattenSeq(q) = flat[m]
      BY <1>14 DEF FlattenedBy
    <2>2. m \in 0..m /\ n + 2 \in Nat
      OBVIOUS
    <2>3. \A h \in 0..m : InPieces(Word, n + 2, h, q, flat[h])
      BY <1>13, <1>14, <2>2, FlattenedPieces
    <2> QED
      BY <2>1, <2>2, <2>3
  <1>16. PICK p : p = [i \in 1..k + m |-> WordsOf(all[i])]
    OBVIOUS
  <1>17. \A i \in 1..k : p[i] = AllWords[i]
    <2>1. ASSUME NEW i \in 1..k PROVE p[i] = AllWords[i]
      <3>1. i \in 1..k + m /\ all[i] = records[i]
        BY <1>11
      <3> QED
        BY <1>2, <1>16, <3>1 DEF AllWords
    <2> QED
      BY <2>1
  <1>18. \A i \in 1..m : p[k + i] = q[i]
    <2>1. ASSUME NEW i \in 1..m PROVE p[k + i] = q[i]
      <3>1. k + i \in 1..k + m /\ ~(k + i <= k) /\ (k + i) - k = i
        OBVIOUS
      <3>2. all[k + i] = new[i]
        BY <1>11, <3>1
      <3> QED
        BY <1>12, <1>16, <3>1, <3>2
    <2> QED
      BY <2>1
  <1>19. InPieces(Word, n + 2, k + m, p, data \o FlattenSeq(q))
    <2>1. n + 2 \in Nat
      OBVIOUS
    <2>2. InPieces(Word, n + 2, k, AllWords, data)
      BY <1>1, <1>2
    <2> QED
      BY <1>15, <1>17, <1>18, <2>1, <2>2, JoinedPieces
  <1> QED
    BY <1>7, <1>10, <1>11, <1>16, <1>19

LEMMA RecordsStep == RecordsInv /\ [MdfNext]_mdfVars => RecordsInv'
  <1> SUFFICES ASSUME RecordsInv, [MdfNext]_mdfVars PROVE RecordsInv'
    OBVIOUS
  <1>1. UNCHANGED <<list, recordId>>
    BY DEF MdfNext, mdfVars, WriteHead, WriteMaster, WriteChannel, WriteGroup, WriteData,
           WriteRecords, MdfCreate
  <1>2. \A n : SameSize(n)' = SameSize(n) /\ Entry(n)' = Entry(n)
    <2>1. \A g : Count(g)' = Count(g)
      BY <1>1, BlocksStay
    <2> QED
      BY <1>1, <2>1 DEF SameSize, Entry
  <1>3. \A r : WordsOf(r)' = WordsOf(r)
    BY <1>1 DEF WordsOf
  <1> SUFFICES ASSUME NEW n \in Nat, SameSize(n)
               PROVE  /\ records' \in Seq(Entry(n))
                      /\ InPieces(Word, n + 2, Len(records'),
                           [i \in 1..Len(records') |-> WordsOf(records'[i])], data')
    BY <1>1, <1>2, <1>3 DEF RecordsInv, AllWords
  <1>4. CASE WriteRecords
    BY <1>4, WriteStep
  <1>5. CASE MdfCreate
    <2>1. records' = <<>> /\ data' = <<>>
      BY <1>5 DEF MdfCreate
    <2>2. (n + 2) * 0 = 0
      BY SMT
    <2>3. Len(records') = 0 /\ data' \in Seq(Word) /\ Len(data') = 0
              /\ records' \in Seq(Entry(n))
      BY <2>1
    <2> QED
      BY <2>2, <2>3 DEF InPieces
  <1>6. CASE UNCHANGED <<data, records>>
    <2>1. records \in Seq(Entry(n)) /\ InPieces(Word, n + 2, Len(records), AllWords, data)
      BY DEF RecordsInv
    <2> QED
      BY <1>6, <2>1 DEF AllWords
  <1> QED
    BY <1>4, <1>5, <1>6 DEF MdfNext, mdfVars, WriteHead, WriteMaster, WriteChannel, WriteGroup,
                            WriteData

(* The data section is cut where each record ends.                         *)
LEMMA CutIs ==
  ASSUME NEW len \in Nat, len = Len(data), NEW m \in 0..len, NEW P \in [0..m -> 0..len],
         P[0] = 0, P[m] = len, \A k \in 0..m : k < m => P[k] < len,
         \A k \in 1..m : RecordEnd(P[k - 1] + 1) = P[k] + 1
  PROVE  ReadRecords = [k \in 1..m |-> SubSeq(data, P[k - 1] + 1, P[k])]
  <1> DEFINE Loop(h) == h = [k \in 0..Len(data) |-> IF k = 0 THEN 1 ELSE RecordEnd(h[k - 1])]
             h == [k \in 0..len |-> IF k <= m THEN P[k] + 1 ELSE len + 1]
             g == CHOOSE f : Loop(f)
  <1>1. RecordEnd(len + 1) = len + 1
    BY DEF RecordEnd
  <1>2. ASSUME NEW k \in 0..len
        PROVE  h[k] = IF k = 0 THEN 1 ELSE RecordEnd(h[k - 1])
    <2>1. CASE k = 0
      BY <2>1
    <2>2. CASE k # 0 /\ k <= m
      <3>1. k \in 1..m /\ k - 1 \in 0..len /\ k - 1 <= m
        BY <2>2
      <3>2. h[k - 1] = P[k - 1] + 1 /\ h[k] = P[k] + 1
        BY <2>2, <3>1
      <3> HIDE DEF h
      <3> QED
        BY <2>2, <3>1, <3>2
    <2>3. CASE k # 0 /\ ~(k <= m)
      <3>1. k - 1 \in 0..len /\ (k - 1 <= m => k - 1 = m)
        BY <2>3
      <3>2. h[k] = len + 1
        BY <2>3
      <3>3. h[k - 1] = len + 1
        BY <3>1
      <3> HIDE DEF h
      <3> QED
        BY <1>1, <2>3, <3>2, <3>3
    <2> QED
      BY <2>1, <2>2, <2>3
  <1>3. Loop(h)
    <2>1. h = [k \in 0..len |-> h[k]]
      OBVIOUS
    <2> HIDE DEF h
    <2> QED
      BY <1>2, <2>1
  <1>4. Loop(g)
    <2> HIDE DEF h, Loop
    <2> QED
      BY <1>3
  <1>5. ReadRecords = [k \in {k \in 1..Len(data) : g[k - 1] <= Len(data)} |->
                         IF g[k] > Len(data) + 1 THEN <<>>
                         ELSE SubSeq(data, g[k - 1], g[k] - 1)]
    BY DEF ReadRecords
  <1> HIDE DEF g
  <1>6. \A k \in 0..len : g[k] = IF k = 0 THEN 1 ELSE RecordEnd(g[k - 1])
    BY <1>4
  <1> HIDE DEF h, Loop
  <1> DEFINE T == {k \in 0..len : \A j \in 0..k : g[j] = h[j]}
  <1>7. len \in T
    <2>1. 0 \in T
      BY <1>2, <1>6
    <2>2. ASSUME NEW k \in 0..len - 1, k \in T PROVE k + 1 \in T
      <3>1. k + 1 \in 0..len /\ k + 1 # 0 /\ (k + 1) - 1 = k /\ k \in 0..k
        OBVIOUS
      <3>2. g[k + 1] = RecordEnd(g[k]) /\ h[k + 1] = RecordEnd(h[k])
        BY <1>2, <1>6, <3>1
      <3>3. g[k + 1] = h[k + 1]
        BY <2>2, <3>1, <3>2
      <3>4. \A j \in 0..k + 1 : j = k + 1 \/ j \in 0..k
        OBVIOUS
      <3> QED
        BY <2>2, <3>1, <3>3, <3>4
    <2> HIDE DEF T
    <2> QED
      BY <2>1, <2>2, LoopInd
  <1>8. ASSUME NEW k \in 0..len PROVE g[k] = IF k <= m THEN P[k] + 1 ELSE len + 1
    <2>1. g[k] = h[k]
      BY <1>7
    <2> QED
      BY <2>1 DEF h
  <1>9. ASSUME NEW k \in 1..len
        PROVE  g[k - 1] <= len <=> k <= m
    <2>1. k - 1 \in 0..len
      OBVIOUS
    <2>2. CASE k <= m
      <3>1. k - 1 \in 0..m /\ k - 1 < m
        BY <2>2
      <3>2. PICK j \in 0..m : j = k - 1 /\ j < m
        BY <3>1
      <3>3. j \in 0..len /\ j <= m
        OBVIOUS
      <3>4. g[j] = P[j] + 1 /\ P[j] < len /\ P[j] \in 0..len
        BY <1>8, <3>2, <3>3
      <3> QED
        BY <2>2, <3>2, <3>4
    <2>3. CASE ~(k <= m)
      <3>1. k - 1 <= m => k - 1 = m
        BY <2>3
      <3>2. g[k - 1] = len + 1
        BY <1>8, <2>1, <3>1
      <3> QED
        BY <2>3, <3>2
    <2> QED
      BY <2>2, <2>3
  <1>10. {k \in 1..len : g[k - 1] <= len} = 1..m
    <2>1. \A k : k \in 1..m <=> k \in 1..len /\ k <= m
      OBVIOUS
    <2>2. \A k \in 1..len : g[k - 1] <= len <=> k <= m
      BY <1>9
    <2> QED
      BY <2>1, <2>2, Zenon
  <1>11. ASSUME NEW k \in 1..m
         PROVE  /\ ~(g[k] > len + 1)
                /\ SubSeq(data, g[k - 1], g[k] - 1) = SubSeq(data, P[k - 1] + 1, P[k])
    <2>1. k \in 0..len /\ k \in 0..m /\ k - 1 \in 0..len /\ k - 1 \in 0..m /\ k <= m
              /\ k - 1 <= m
      OBVIOUS
    <2>2. g[k] = P[k] + 1 /\ g[k - 1] = P[k - 1] + 1 /\ P[k] \in 0..len
      BY <1>8, <2>1
    <2>3. g[k] - 1 = P[k] /\ ~(g[k] > len + 1)
      BY <2>2
    <2> QED
      BY <2>2, <2>3
  <1>12. ReadRecords = [k \in 1..m |-> IF g[k] > len + 1 THEN <<>>
                                      ELSE SubSeq(data, g[k - 1], g[k] - 1)]
    BY <1>5, <1>10, Zenon
  <1> QED
    BY <1>11, <1>12

(* What is declared for a record, if all groups have n signals.            *)
LEMMA DeclaredIs ==
  ASSUME BlocksInv, phase = "records", NEW n \in Nat, SameSize(n), NEW g \in 1..Len(list)
  PROVE  Declared(recordId[list[g].name]) = n + 1
  <1>1. PICK m \in Nat : m = Len(list) /\ list \in Groups
    BY HeadRead, GroupTypes
  <1>2. DataBytes = 8 * (n + 1)
    <2>1. 1 \in 1..m
      BY <1>1
    <2> QED
      BY <1>1, <2>1 DEF SameSize, Count, DataBytes
  <1>3. PICK G : G = ReadGroups /\ G = [h \in 1..m |-> GroupPlace(h)]
    BY <1>1, GroupsRead DEF GroupList
  <1>4. Range(G) = {GroupPlace(h) : h \in 1..m}
    BY <1>3 DEF Range
  <1>5. \A h \in 1..m : Block(GroupPlace(h)).dataBytes = 8 * (n + 1)
                        /\ Block(GroupPlace(h)).id = recordId[list[h].name]
    BY <1>1, <1>2, GroupsRead DEF GroupBlock
  <1>6. PICK groups : groups = {x \in Range(G) : Block(x).id = recordId[list[g].name]}
    OBVIOUS
  <1>7. GroupPlace(g) \in groups
    BY <1>1, <1>4, <1>5, <1>6
  <1>8. PICK x : x = CHOOSE y \in groups : TRUE
    OBVIOUS
  <1>9. x \in groups
    BY <1>7, <1>8
  <1>10. Block(x).dataBytes = 8 * (n + 1)
    BY <1>4, <1>5, <1>6, <1>9
  <1>11. Declared(recordId[list[g].name]) = Block(x).dataBytes \div 8
    BY <1>3, <1>6, <1>8, Zenon DEF Declared
  <1>12. (8 * (n + 1)) \div 8 = n + 1
    BY SMT
  <1> QED
    BY <1>10, <1>11, <1>12

(* Multiples, in order.                                                    *)
LEMMA MultiplesAre ==
  ASSUME NEW w \in Nat \ {0}, NEW m \in Nat
  PROVE  /\ w * 0 = 0 /\ w * m \in Nat /\ m <= w * m
         /\ \A k \in 0..m : w * k \in 0..w * m /\ (k < m => w * k < w * m)
         /\ \A k \in 1..m : w * k - w \in Nat /\ w * (k - 1) = w * k - w
  <1>1. \A k \in Nat : w * k \in Nat /\ k <= w * k
    <2>1. ASSUME NEW k \in Nat PROVE w * k \in Nat /\ k <= w * k
      <3>1. (w - 1) * k >= 0 /\ w * k = (w - 1) * k + k
        BY SMT
      <3> QED
        BY <3>1, SMT
    <2> QED
      BY <2>1
  <1>2. ASSUME NEW k \in 0..m PROVE w * k \in 0..w * m /\ (k < m => w * k < w * m)
    <2>1. m - k \in Nat /\ w * m = w * k + w * (m - k)
      BY SMT
    <2>2. w * (m - k) \in Nat /\ m - k <= w * (m - k) /\ w * k \in Nat /\ w * m \in Nat
      BY <1>1, <2>1
    <2> QED
      BY <2>1, <2>2, SMT
  <1>3. ASSUME NEW k \in 1..m PROVE w * k - w \in Nat /\ w * (k - 1) = w * k - w
    <2>1. w * (k - 1) = w * k - w /\ k - 1 \in Nat
      BY SMT
    <2> QED
      BY <1>1, <2>1
  <1>4. w * 0 = 0
    BY SMT
  <1> QED
    BY <1>1, <1>2, <1>3, <1>4

(* Records that are all as long as declared are read as written.           *)
LEMMA ReadAgain ==
  ASSUME BlocksInv, RecordsInv, phase = "records", NEW n \in Nat, SameSize(n)
  PROVE  ReadRecords = AllWords
  <1>1. /\ list \in Groups /\ recordId \in [Names -> RecordIds]
        /\ records \in Seq(Entry(n))
        /\ InPieces(Word, n + 2, Len(records), AllWords, data)
    BY DEF RecordsInv
  <1>2. PICK m \in Nat : m = Len(records) /\ DOMAIN records = 1..m
                         /\ \A i \in 1..m : records[i] \in Entry(n)
    BY <1>1, LenProperties
  <1>3. PICK w \in Nat \ {0} : w = n + 2
    OBVIOUS
  <1>4. PICK r : r = AllWords
    OBVIOUS
  <1>5. r = [i \in 1..m |-> WordsOf(records[i])]
    BY <1>2, <1>4 DEF AllWords
  <1>6. ASSUME NEW i \in 1..m
        PROVE  /\ r[i] \in Seq(Word) /\ Len(r[i]) = w
               /\ \E g \in 1..Len(list) : r[i][1] = [id |-> recordId[list[g].name]]
    <2>1. PICK x \in Entry(n) : x = records[i]
      BY <1>2
    <2>2. r[i] = WordsOf(x)
      BY <1>5, <2>1
    <2>3. x.group \in 1..Len(list)
      BY DEF Entry
    <2> QED
      BY <1>1, <1>3, <2>2, <2>3, EntryWords
  <1>7. PICK len : len = w * m
    OBVIOUS
  <1>8. PICK P : P = [k \in 0..m |-> w * k]
    OBVIOUS
  <1>9. /\ data \in Seq(Word) /\ Len(data) = len
        /\ \A i \in 1..m : \A j \in 1..w : data[w * i - w + j] = r[i][j]
    BY <1>1, <1>2, <1>3, <1>4, <1>7 DEF InPieces
  <1>10. /\ len \in Nat /\ m \in 0..len /\ P \in [0..m -> 0..len] /\ P[0] = 0 /\ P[m] = len
         /\ \A k \in 0..m : k < m => P[k] < len
         /\ \A k \in 1..m : P[k - 1] = P[k] - w /\ P[k] - w \in Nat
                            /\ P[k] = w * k /\ P[k] \in 0..len
    <2>1. /\ w * 0 = 0 /\ w * m \in Nat /\ m <= w * m
          /\ \A k \in 0..m : w * k \in 0..w * m /\ (k < m => w * k < w * m)
          /\ \A k \in 1..m : w * k - w \in Nat /\ w * (k - 1) = w * k - w
      BY MultiplesAre
    <2>2. len \in Nat /\ m \in 0..len
      BY <1>7, <2>1
    <2>3. \A k \in 0..m : P[k] = w * k /\ P[k] \in 0..len
      BY <1>7, <1>8, <2>1
    <2>4. P \in [0..m -> 0..len]
      BY <1>8, <2>3
    <2>5. 0 \in 0..m /\ m \in 0..m /\ \A k \in 1..m : k \in 0..m /\ k - 1 \in 0..m
      OBVIOUS
    <2>6. P[0] = 0 /\ P[m] = len
      BY <1>7, <2>1, <2>3, <2>5
    <2>7. \A k \in 0..m : k < m => P[k] < len
      BY <1>7, <2>1, <2>3
    <2>8. \A k \in 1..m : P[k - 1] = P[k] - w /\ P[k] - w \in Nat
                          /\ P[k] = w * k /\ P[k] \in 0..len
      <3>1. ASSUME NEW k \in 1..m
            PROVE  P[k - 1] = P[k] - w /\ P[k] - w \in Nat /\ P[k] = w * k /\ P[k] \in 0..len
        <4>1. P[k] = w * k /\ P[k - 1] = w * (k - 1) /\ P[k] \in 0..len
          BY <2>3, <2>5
        <4>2. w * (k - 1) = w * k - w /\ w * k - w \in Nat
          BY <2>1
        <4> QED
          BY <4>1, <4>2, Zenon
      <3> QED
        BY <3>1
    <2> QED
      BY <2>2, <2>4, <2>6, <2>7, <2>8
  <1>11. ASSUME NEW k \in 1..m
         PROVE  /\ RecordEnd(P[k - 1] + 1) = P[k] + 1
                /\ SubSeq(data, P[k - 1] + 1, P[k]) = r[k]
    <2>1. PICK to : to = P[k]
      OBVIOUS
    <2>2. to \in Nat /\ to <= len /\ to - w \in Nat /\ to = w * k /\ P[k - 1] = to - w
      <3>1. P[k - 1] = P[k] - w /\ P[k] - w \in Nat /\ P[k] = w * k /\ P[k] \in 0..len
        BY <1>10, Zenon
      <3>2. to - w \in Nat /\ to = w * k /\ to \in 0..len /\ P[k - 1] = to - w
        BY <2>1, <3>1, Zenon
      <3>3. to \in Nat /\ to <= len
        BY <1>10, <3>2
      <3> QED
        BY <3>2, <3>3
    <2>3. PICK before \in Nat : before = to - w
      BY <2>2
    <2>4. PICK from \in Nat \ {0} : from = before + 1
      OBVIOUS
    <2>5. from = P[k - 1] + 1
      BY <2>2, <2>3, <2>4, Zenon
    <2>6. from = to - w + 1 /\ to = from + w - 1 /\ from <= to
      BY <2>2, <2>3, <2>4
    <2>7. \A j \in 1..w : data[from + j - 1] = r[k][j]
      <3>1. ASSUME NEW j \in 1..w PROVE data[from + j - 1] = r[k][j]
        <4>1. w * k = to
          BY <2>2
        <4>2. data[to - w + j] = r[k][j]
          BY <1>9, <4>1, Zenon
        <4>3. from + j - 1 = to - w + j
          BY <2>2, <2>6
        <4> QED
          BY <4>2, <4>3
      <3> QED
        BY <3>1
    <2>8. RecordEnd(from) = to + 1
      <3>1. PICK g \in 1..Len(list) : r[k][1] = [id |-> recordId[list[g].name]]
        BY <1>6
      <3>2. PICK id : id = recordId[list[g].name]
        OBVIOUS
      <3>3. data[from] = [id |-> id]
        <4>1. 1 \in 1..w /\ from + 1 - 1 = from
          OBVIOUS
        <4> QED
          BY <2>7, <3>1, <3>2, <4>1
      <3>4. Declared(id) = n + 1
        BY <3>2, DeclaredIs
      <3>5. from <= Len(data) /\ ~(from > Len(data))
        <4>1. from <= to /\ to <= len
          BY <2>2, <2>6
        <4> QED
          BY <1>9, <1>10, <2>2, <4>1
      <3>6. DOMAIN data[from] = {"id"} /\ data[from].id = id
        BY <3>3
      <3>7. RecordEnd(from) = from + 1 + Declared(data[from].id)
        BY <3>5, <3>6, Zenon DEF RecordEnd
      <3>8. from + 1 + (n + 1) = to + 1
        <4>1. to = from + w - 1 /\ w = n + 2
          BY <1>3, <2>6
        <4> QED
          BY <2>2, <4>1
      <3> QED
        BY <3>4, <3>6, <3>7, <3>8
    <2>9. SubSeq(data, from, to) = r[k]
      <3>1. PICK t : t = SubSeq(data, from, to)
        OBVIOUS
      <3>2. IsPiece(Word, data, from, w, t)
        <4>1. to \in Int /\ to = from + w - 1 /\ to <= Len(data) /\ w \in Nat
          BY <1>9, <2>2, <2>6
        <4> QED
          BY <1>9, <3>1, <4>1, PieceIs
      <3>3. t \in [1..w -> Word] /\ \A j \in 1..w : t[j] = r[k][j]
        BY <2>7, <3>2 DEF IsPiece
      <3>4. r[k] \in [1..w -> Word]
        BY <1>6, LenProperties
      <3>5. t = r[k]
        BY <3>3, <3>4
      <3> QED
        BY <3>1, <3>5
    <2> QED
      BY <2>1, <2>8, <2>9, <2>5, Zenon
  <1>12. ReadRecords = [k \in 1..m |-> SubSeq(data, P[k - 1] + 1, P[k])]
    <2>1. \A k \in 1..m : RecordEnd(P[k - 1] + 1) = P[k] + 1
      BY <1>11
    <2> QED
      BY <1>9, <1>10, <2>1, CutIs
  <1>13. \A k \in 1..m : r[k] = SubSeq(data, P[k - 1] + 1, P[k])
    BY <1>11
  <1>14. r = [k \in 1..m |-> r[k]]
    BY <1>5
  <1> QED
    BY <1>4, <1>12, <1>13, <1>14

(* Groups of one size are read as they were written, and so is no group at all. *)
LEMMA RecordsHold == BlocksInv /\ RecordsInv => RecordsReadBack
  <1> SUFFICES ASSUME BlocksInv, RecordsInv, phase = "records",
                      \A g, h \in DOMAIN list : Len(Signals(g)) = Len(Signals(h))
               PROVE  ReadRecords = [i \in DOMAIN records |-> WordsOf(records[i])]
    BY DEF RecordsReadBack
  <1>1. list \in Groups /\ DOMAIN list = 1..Len(list) /\ Len(list) \in Nat
    BY GroupTypes DEF RecordsInv
  <1>2. PICK n \in Nat : SameSize(n)
    <2>1. CASE Len(list) = 0
      <3>1. SameSize(0)
        BY <2>1 DEF SameSize
      <3> QED
        BY <3>1
    <2>2. CASE Len(list) # 0
      <3>1. 1 \in 1..Len(list)
        BY <1>1, <2>2
      <3>2. Count(1) \in Nat
        BY <1>1, <3>1, GroupTypes
      <3>3. SameSize(Count(1))
        BY <1>1, <3>1 DEF SameSize, Count
      <3> QED
        BY <3>2, <3>3
    <2> QED
      BY <2>1, <2>2
  <1>3. ReadRecords = AllWords
    BY <1>2, ReadAgain
  <1>4. DOMAIN records = 1..Len(records)
    <2>1. records \in Seq(Entry(n))
      BY <1>2 DEF RecordsInv
    <2> QED
      BY <2>1, LenProperties
  <1> QED
    BY <1>3, <1>4 DEF AllWords

(* What dse/clib/mdf/mdf.c writes is a file that can be read, for every    *)
(* list of groups, signals and names: what mdf_start_blocks links to is    *)
(* where it said that it would be, and records that are cut by the length  *)
(* that is declared for them are those that mdf_write_records wrote.       *)
THEOREM FilesReadBack == MdfInit /\ [][MdfNext]_mdfVars => []FileReadsBack
  <1>1. MdfInit => BlocksInv /\ RecordsInv
    BY MdfInitHolds, RecordsInitHold
  <1>2. BlocksInv /\ RecordsInv /\ [MdfNext]_mdfVars => (BlocksInv /\ RecordsInv)'
    BY BlocksStep, RecordsStep
  <1>3. BlocksInv /\ RecordsInv => FileReadsBack
    BY LinksHold, RecordsHold DEF FileReadsBack
  <1> QED
    BY <1>1, <1>2, <1>3, PTL

=============================================================================
