------------------------------ MODULE Scalars ------------------------------
(***************************************************************************)
(* Scalar signals, from dse/clib/data/marshal.c: signals are doubles, as   *)
(* are the sources, and targets have the type of their group, of which the *)
(* code distinguishes sizes only.  A call on the groups is one step, since *)
(* a group has its sources for itself; one on the signal maps makes a step *)
(* per link.                                                               *)
(*                                                                         *)
(* A double is a number of halves.  A target of 4 bytes is an int32, also  *)
(* for the types of that size that are none; one of 8 bytes is a double.   *)
(***************************************************************************)
EXTENDS Integers, Sequences

CONSTANTS
  Interfaces,  (* [group, link]: groups [dir, type, offset, count], and the *)
               (* links of the signal maps, [signal, source], in order     *)
  Doubles,     (* values of signals and of 8 byte targets                  *)
  IntMax       (* INT32_MAX                                                *)

Int32 == -IntMax - 1..IntMax
SourcesOf(g) == g.offset + 1..g.offset + g.count

ASSUME IntMaxAssumption == IntMax \in Nat /\ Doubles \subseteq Int
(* A group has its sources for itself.                                     *)
ASSUME InterfacesAssumption ==
  \A t \in Interfaces :
    /\ t.link \in Seq([signal : STRING, source : Nat])
    /\ \A i, j \in DOMAIN t.group :
         i # j => SourcesOf(t.group[i]) \cap SourcesOf(t.group[j]) = {}

VARIABLES
  interface,
  sigScalar,   (* msm->signal.scalar                                       *)
  srcScalar,   (* the source array                                         *)
  tgtScalar,   (* the target that belongs to a source                      *)
  mapCall,     (* the call on the signal maps that runs, and its next link *)
  stage,       (* history: how far a cycle of the four calls has come; in  *)
  sent,        (* one, the signals when its first call was made, and the   *)
  found        (* targets when its third was                               *)

scalarVars ==
  <<interface, sigScalar, srcScalar, tgtScalar, mapCall, stage, sent, found>>

(* marshal_type_size, for the types that are no binaries.                  *)
TypeSize(type) ==
  CASE type \in {"UINT8", "INT8", "BYTE1"} -> 1
    [] type \in {"UINT16", "INT16", "BYTE2"} -> 2
    [] type \in {"UINT32", "INT32", "FLOAT", "BYTE4", "BOOL"} -> 4
    [] type \in {"UINT64", "INT64", "DOUBLE", "BYTE8"} -> 8

Groups == {interface.group[i] : i \in DOMAIN interface.group}
Links == DOMAIN interface.link
SourceOf(i) == interface.link[i].source
SignalOf(i) == interface.link[i].signal
Linked == {SourceOf(i) : i \in Links}
LinkedSignals == {SignalOf(i) : i \in Links}
Sources == Linked \cup UNION {SourcesOf(g) : g \in Groups}
InGroup(s) == \E g \in Groups : s \in SourcesOf(g)
GroupOf(s) == CHOOSE g \in Groups : s \in SourcesOf(g)
Moves(s, dirs, size) ==
  InGroup(s) /\ GroupOf(s).dir \in dirs /\ TypeSize(GroupOf(s).type) = size
OutDirs == {"TXRX", "TXONLY", "PARAMETER"}
InDirs == {"TXRX", "RXONLY", "PARAMETER", "LOCAL"}

(* The conversion to int32 drops the fraction; beyond the range of int32   *)
(* it is undefined.                                                        *)
Truncated(double) == IF double >= 0 THEN double \div 2 ELSE -(-double \div 2)
ToInt32(double, undefined) ==
  IF Truncated(double) \in Int32 THEN Truncated(double) ELSE undefined
ToDouble(int) == 2 * int

(* The cycle goes on, or is none.                                          *)
NoSignals == [g \in LinkedSignals |-> 0]
NoTargets == [s \in Sources |-> 0]
Stage(before, now) ==
  IF stage = before THEN stage' = now /\ UNCHANGED <<sent, found>>
  ELSE stage' = "none" /\ sent' = NoSignals /\ found' = NoTargets

-----------------------------------------------------------------------------
(* marshal_signalmap_out and marshal_signalmap_in, link by link.           *)
NoCall == [name |-> "none", at |-> 1]
NoneRuns == mapCall = NoCall
MapOut ==
  /\ NoneRuns
  /\ mapCall' = [name |-> "mapOut", at |-> 1]
  /\ stage' = "mapOut" /\ sent' = sigScalar /\ found' = NoTargets
  /\ UNCHANGED <<interface, sigScalar, srcScalar, tgtScalar>>
MapIn ==
  /\ NoneRuns
  /\ mapCall' = [name |-> "mapIn", at |-> 1]
  /\ Stage("groupIn", "mapIn")
  /\ UNCHANGED <<interface, sigScalar, srcScalar, tgtScalar>>
MapLink ==
  LET i == mapCall.at IN
  /\ ~NoneRuns /\ i \in Links
  /\ IF mapCall.name = "mapOut"
     THEN /\ srcScalar' = [srcScalar EXCEPT ![SourceOf(i)] = sigScalar[SignalOf(i)]]
          /\ UNCHANGED sigScalar
     ELSE /\ sigScalar' = [sigScalar EXCEPT ![SignalOf(i)] = srcScalar[SourceOf(i)]]
          /\ UNCHANGED srcScalar
  /\ mapCall' = [mapCall EXCEPT !.at = i + 1]
  /\ UNCHANGED <<interface, tgtScalar, stage, sent, found>>
MapReturns ==
  /\ ~NoneRuns /\ mapCall.at \notin Links
  /\ mapCall' = NoCall
  /\ UNCHANGED <<interface, sigScalar, srcScalar, tgtScalar, stage, sent, found>>

(* marshal_group_out with _marshal_scalar_out; types of 1 and 2 bytes are  *)
(* passed over.                                                            *)
ScalarOut ==
  /\ NoneRuns
  /\ \E undefined \in [Sources -> Int32] :
       tgtScalar' = [s \in Sources |->
         CASE Moves(s, OutDirs, 4) -> ToInt32(srcScalar[s], undefined[s])
           [] Moves(s, OutDirs, 8) -> srcScalar[s]
           [] OTHER -> tgtScalar[s]]
  /\ Stage("mapOut", "groupOut")
  /\ UNCHANGED <<interface, sigScalar, srcScalar, mapCall>>

(* marshal_group_in with _marshal_scalar_in.                               *)
Received(dirs) ==
  [s \in Sources |-> CASE Moves(s, dirs, 4) -> ToDouble(tgtScalar[s])
                       [] Moves(s, dirs, 8) -> tgtScalar[s]
                       [] OTHER -> srcScalar[s]]
ScalarInAll ==
  /\ NoneRuns
  /\ srcScalar' = Received(OutDirs \cup InDirs)
  /\ IF stage = "groupOut"
     THEN stage' = "groupIn" /\ found' = tgtScalar /\ UNCHANGED sent
     ELSE Stage("no cycle", "none")
  /\ UNCHANGED <<interface, sigScalar, tgtScalar, mapCall>>
ScalarIn ==
  /\ NoneRuns
  /\ srcScalar' = Received(InDirs)
  /\ IF stage = "groupOut"
     THEN stage' = "groupIn" /\ found' = tgtScalar /\ UNCHANGED sent
     ELSE Stage("no cycle", "none")
  /\ UNCHANGED <<interface, sigScalar, tgtScalar, mapCall>>

(* The target's code writes what it has to, the owner of a signal sets it. *)
TargetSets(s, value) ==
  /\ NoneRuns
  /\ \/ Moves(s, InDirs, 4) /\ value \in Int32
     \/ Moves(s, InDirs, 8) /\ value \in Doubles
  /\ tgtScalar' = [tgtScalar EXCEPT ![s] = value]
  /\ UNCHANGED <<interface, sigScalar, srcScalar, mapCall, stage, sent, found>>
SignalSet(g, value) ==
  /\ NoneRuns
  /\ sigScalar' = [sigScalar EXCEPT ![g] = value]
  /\ Stage(IF stage = "mapIn" THEN "no cycle" ELSE stage, stage)
  /\ UNCHANGED <<interface, srcScalar, tgtScalar, mapCall>>

ScalarInit ==
  /\ interface \in Interfaces
  /\ sigScalar = NoSignals /\ srcScalar = NoTargets /\ tgtScalar = NoTargets
  /\ mapCall = NoCall /\ stage = "none"
  /\ sent = NoSignals /\ found = NoTargets

ScalarNext ==
  \/ MapOut \/ MapIn \/ MapLink \/ MapReturns
  \/ ScalarOut \/ ScalarIn
  \/ \E s \in Sources, value \in Int32 \cup Doubles : TargetSets(s, value)
  \/ \E g \in LinkedSignals, value \in Doubles : SignalSet(g, value)

ScalarSpec == ScalarInit /\ [][ScalarNext]_scalarVars

-----------------------------------------------------------------------------
(* Properties.                                                             *)

(* A cycle of the four calls, whatever the target's code and the owners of *)
(* the signals write between them.  Behind its second call a target that   *)
(* is sent to has what its signal had, without the fraction if it is of 4  *)
(* bytes, as long as an int32 can hold that.  At its end a signal has what *)
(* the target had that its last link leads to.  If that one is only sent   *)
(* to, or is of 1 or 2 bytes, the signal has again what was sent, and a    *)
(* value its owner set in between is lost.                                 *)
LastFrom(i) == \A j \in Links : j > i => SourceOf(j) # SourceOf(i)
LastTo(i) == \A j \in Links : j > i => SignalOf(j) # SignalOf(i)
Sent(i) == sent[SignalOf(i)]
CycleDelivers ==
  /\ stage = "groupOut" =>
       \A i \in Links : LastFrom(i) =>
         LET s == SourceOf(i) IN
         /\ Moves(s, OutDirs \ InDirs, 4) /\ Truncated(Sent(i)) \in Int32 =>
              tgtScalar[s] = Truncated(Sent(i))
         /\ Moves(s, OutDirs \ InDirs, 8) => tgtScalar[s] = Sent(i)
  /\ stage = "mapIn" /\ NoneRuns =>
       \A i \in Links : LastTo(i) =>
         LET s == SourceOf(i)  now == sigScalar[SignalOf(i)] IN
         /\ Moves(s, InDirs, 4) => now = ToDouble(found[s])
         /\ Moves(s, InDirs, 8) => now = found[s]
         /\ ~Moves(s, InDirs, 4) /\ ~Moves(s, InDirs, 8) =>
              \A j \in Links : LastFrom(j) /\ SourceOf(j) = s => now = Sent(j)

=============================================================================
