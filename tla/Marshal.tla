------------------------------ MODULE Marshal ------------------------------
(***************************************************************************)
(* Binary signals, from dse/clib/data/marshal.c: a signal buffer is copied *)
(* to a source (marshal_signalmap_out), the source to a target             *)
(* (marshal_group_out), and back (marshal_group_in, then                   *)
(* marshal_signalmap_in, which appends).  Every copy is deep; the model is *)
(* about who owns which block of memory, and what it holds.                *)
(*                                                                         *)
(* An entry is a marshal group of one element.  The content of a block is  *)
(* a sequence of pieces, each a string with its terminating null.  A call  *)
(* is a step for every turn of its loop.                                   *)
(***************************************************************************)
EXTENDS Integers, FiniteSets, SequencesExt

CONSTANTS
  Tables,    (* the interfaces that are marshalled, see Table              *)
  Pieces,    (* the strings of which contents consist                      *)
  Empty,     (* the empty one                                              *)
  Blocks,    (* addresses that malloc returns                              *)
  Null,
  Freed,     (* what a block holds that is not allocated                   *)
  MaxLen     (* bound: pieces of a signal, when marshal_signalmap_out      *)
             (* begins; one less when marshal_signalmap_in does            *)

Directions == {"TXRX", "TXONLY", "RXONLY", "PARAMETER", "LOCAL"}

(* A table has the direction, the type, the name and the container of each *)
(* entry, and the names of the signals.                                    *)
IsTable(t) ==
  LET Entries == 1..Len(t.dir) IN
  /\ t.dir \in Seq(Directions)
  /\ t.type \in [Entries -> {"string", "binary"}]
  /\ t.name \in [Entries -> STRING]
  /\ t.container \in [Entries -> {1, 2}]
  /\ \A e, f \in Entries : e < f => t.container[e] <= t.container[f]
  /\ t.signal \in Seq(STRING)

ASSUME TablesAssumption == \A t \in Tables : IsTable(t)
ASSUME EmptyAssumption == Empty \in Pieces
ASSUME NullAssumption == Null \notin Blocks
ASSUME FreedAssumption == Freed \notin Seq(Pieces)
ASSUME BlocksAssumption ==   \* malloc succeeds
  IsFiniteSet(Blocks) /\ \A t \in Tables : Cardinality(Blocks) >= 2 * Len(t.dir) + Len(t.signal)

VARIABLES
  table,     (* the table of this run                                      *)
  heap,      (* the content of each block                                  *)
  source,    (* mg->source.binary, for each entry                          *)
  target,    (* mg->target._binary or ._string, for each entry             *)
  signal,    (* for each signal, its buffer and binary_buffer_size         *)
  links,     (* the items of the signal maps, in order, and (history)       *)
             (* whether they were made with ex_signals                     *)
  exSignals, (* ex_signals                                                 *)
  call,      (* the call that runs, and the index of its loop              *)
  trail,     (* history: the calls since anybody else has written          *)
  was        (* history: the signals when the last signalmap_in began      *)

memory == <<heap, source, target, signal>>
maps == <<table, links, exSignals>>
vars == <<memory, maps, call, trail, was>>

Entries == DOMAIN table.dir
Signals == DOMAIN table.signal
Idle == call.name = "none"

(* The directions in which the library writes the target, and the source.  *)
ToTarget(e) == table.dir[e] \in {"TXRX", "TXONLY", "PARAMETER"}
ToSource(e) == table.dir[e] \in {"TXRX", "RXONLY", "PARAMETER", "LOCAL"}

Content(p) == IF p = Null THEN <<>> ELSE heap[p]
SignalContents == [g \in Signals |-> Content(signal[g].ptr)]

(* The default string functions stop at the first null and make no string  *)
(* of nothing; binary contents are copied whole.                           *)
Convert(e, c) ==
  IF table.type[e] = "binary" THEN c
  ELSE IF c = <<>> \/ Head(c) = Empty THEN <<>> ELSE <<Head(c)>>

-----------------------------------------------------------------------------
(* Memory.                                                                 *)

(* malloc: which free block it returns nobody can tell, one near the       *)
(* holder's place keeps the states few.                                    *)
Malloc(h, home) ==
  IF home \in Blocks /\ h[home] = Freed THEN home
  ELSE CHOOSE b \in Blocks : h[b] = Freed

Release(h, p) == IF p = Null THEN h ELSE [h EXCEPT ![p] = Freed]

SourceHome(e) == e
TargetHome(e) == Len(table.dir) + e
SignalHome(g) == 2 * Len(table.dir) + g

(* Free the block of a pointer, and point to a copy of c.                  *)
ReplaceUnfreed(p, home, c) ==
  LET b == IF c = <<>> THEN Null ELSE Malloc(heap, home)
  IN [ptr |-> b, heap |-> IF b = Null THEN heap ELSE [heap EXCEPT ![b] = c]]
Replace(p, home, c) ==
  LET h == Release(heap, p)
      b == IF c = <<>> THEN Null ELSE Malloc(h, home)
  IN [ptr |-> b, heap |-> IF b = Null THEN h ELSE [h EXCEPT ![b] = c]]

(* dse_buffer_append                                                       *)
AppendToBuffer(g, c) ==
  LET b == IF signal[g].ptr # Null THEN signal[g].ptr
           ELSE Malloc(heap, SignalHome(g))
      required == Len(Content(signal[g].ptr)) + Len(c)
  IN /\ signal' = [signal EXCEPT ![g] =
           [ptr |-> b, size |-> IF required > @.size THEN required ELSE @.size]]
     /\ heap' = [heap EXCEPT ![b] = Content(signal[g].ptr) \o c]

-----------------------------------------------------------------------------
(* marshal_generate_signalmap, of the entries of a container.              *)

Matched(c) ==
  {e \in Entries : /\ table.container[e] = c
                   /\ \E g \in Signals : table.signal[g] = table.name[e]}
(* The list of a set of entries, in their order.                           *)
Listed(entries) ==
  {list \in [1..Cardinality(entries) -> entries] :
     \A i, j \in DOMAIN list : i < j => list[i] < list[j]}
Link(e, unique) ==
  [source |-> e, signal |-> Min({g \in Signals : table.signal[g] = table.name[e]}),
   unique |-> unique]
LinksOf(list, unique) == [i \in DOMAIN list |-> Link(list[i], unique)]
Names(entries) == {table.name[e] : e \in entries}

(* The places in a list of entries of those whose signal is marked.        *)
TakenBefore(list, marked) ==
  {i \in DOMAIN list : table.name[list[i]] \in marked}
Taken(list, marked) ==
  {i \in DOMAIN list :
     table.name[list[i]] \in marked \cup {table.name[list[j]] : j \in 1..i - 1}}

(* The caller has at most one map of a container.                          *)
Unmapped(c) == \A l \in ToSet(links) : table.container[l.source] # c

(* Without a set every match is mapped.                                    *)
Generate(c) ==
  /\ Idle
  /\ Unmapped(c)
  /\ \E list \in Listed(Matched(c)) : links' = links \o LinksOf(list, FALSE)
  /\ trail' = <<>>
  /\ UNCHANGED <<table, exSignals, memory, call, was>>

(* With a set a signal that is mapped already makes the call fail; those   *)
(* met before it stay marked.                                              *)
GenerateUnique(c) ==
  /\ Idle /\ Unmapped(c)
  /\ \E list \in Listed(Matched(c)) :
       LET taken == Taken(list, exSignals)
           marks == IF taken = {} THEN DOMAIN list ELSE 1..Min(taken) - 1
       IN /\ exSignals' = exSignals \cup Names({list[i] : i \in marks})
          /\ links' = IF taken = {} THEN links \o LinksOf(list, TRUE) ELSE links
  /\ trail' = <<>>
  /\ UNCHANGED <<table, memory, call, was>>

-----------------------------------------------------------------------------
(* The calls.  trail keeps the last two, where they are both outwards or   *)
(* both inwards.                                                           *)

CallNames == {"mapOut", "groupOut", "release", "groupIn", "mapIn"}
Count(name) ==
  IF name \in {"mapOut", "mapIn"} THEN Len(links) ELSE Cardinality(Entries)

Begin(name) ==
  /\ Idle
  /\ \A g \in Signals : /\ name = "mapOut" => Len(SignalContents[g]) <= MaxLen
                        /\ name = "mapIn" => Len(SignalContents[g]) < MaxLen
  /\ call' = [name |-> name, at |-> 1]
  /\ was' = IF name = "mapIn" THEN SignalContents ELSE [g \in Signals |-> <<>>]
  /\ UNCHANGED <<memory, maps, trail>>

(* Turn: the body of a loop.                                               *)
Turn(name) ==
  /\ call.name = name /\ call.at <= Count(name)
  /\ call' = [call EXCEPT !.at = @ + 1]
  /\ UNCHANGED <<maps, trail, was>>

(* marshal_group_in goes on from its first loop to its second.             *)
Return ==
  /\ ~Idle /\ call.name # "destroyed" /\ call.at > Count(call.name)
  /\ IF call.name = "release"
     THEN call' = [name |-> "groupIn", at |-> 1] /\ UNCHANGED trail
     ELSE /\ call' = [name |-> "none", at |-> 1]
          /\ trail' = IF call.name \in {"mapOut", "groupIn"} THEN <<call.name>>
                      ELSE IF trail \in {<<"mapOut">>, <<"groupIn">>} THEN Append(trail, call.name) ELSE <<>>
  /\ UNCHANGED <<memory, maps, was>>

(* marshal_signalmap_out                                                   *)
SignalMapOutKeeps ==
  /\ Turn("mapOut")
  /\ LET l == links[call.at]
         r == Replace(source[l.source], SourceHome(l.source), Content(signal[l.signal].ptr))
     IN IF Content(signal[l.signal].ptr) = <<>> THEN UNCHANGED memory
        ELSE /\ heap' = r.heap
             /\ source' = [source EXCEPT ![l.source] = r.ptr]
             /\ UNCHANGED <<target, signal>>
SignalMapOut ==
  /\ Turn("mapOut")
  /\ LET l == links[call.at]
         r == Replace(source[l.source], SourceHome(l.source), Content(signal[l.signal].ptr))
     IN /\ heap' = r.heap
        /\ source' = [source EXCEPT ![l.source] = r.ptr]
        /\ UNCHANGED <<target, signal>>

(* _marshal_binary_out                                                     *)
GroupOut ==
  /\ Turn("groupOut")
  /\ LET e == call.at
         r == Replace(target[e], TargetHome(e), Convert(e, Content(source[e])))
     IN IF ToTarget(e)
        THEN /\ heap' = r.heap
             /\ target' = [target EXCEPT ![e] = r.ptr]
             /\ UNCHANGED <<source, signal>>
        ELSE UNCHANGED memory

(* marshal_group_in: the sources, of every direction, are released, ...    *)
ReleaseReceived ==
  /\ Turn("release")
  /\ IF ToSource(call.at)
     THEN /\ heap' = Release(heap, source[call.at])
          /\ source' = [source EXCEPT ![call.at] = Null]
          /\ UNCHANGED <<target, signal>>
     ELSE UNCHANGED memory
ReleaseSources ==
  /\ Turn("release")
  /\ heap' = Release(heap, source[call.at])
  /\ source' = [source EXCEPT ![call.at] = Null]
  /\ UNCHANGED <<target, signal>>

(* ... and set, _marshal_binary_in                                         *)
GroupIn ==
  /\ Turn("groupIn")
  /\ LET e == call.at
         r == Replace(source[e], SourceHome(e), Convert(e, Content(target[e])))
     IN IF ToSource(e)
        THEN /\ heap' = r.heap
             /\ source' = [source EXCEPT ![e] = r.ptr]
             /\ UNCHANGED <<target, signal>>
        ELSE UNCHANGED memory

(* marshal_signalmap_in                                                    *)
SignalMapIn ==
  /\ Turn("mapIn")
  /\ LET l == links[call.at] IN
     IF source[l.source] = Null THEN UNCHANGED memory
     ELSE /\ AppendToBuffer(l.signal, Content(source[l.source]))
          /\ UNCHANGED <<source, target>>

(* marshal_group_destroy and marshal_signalmap_destroy.  The pointers of   *)
(* the sources are left as they are.                                       *)
Destroy ==
  /\ Idle
  /\ LET own == {source[e] : e \in Entries}
                \cup {target[e] : e \in {d \in Entries : ToTarget(d)}}
     IN heap' = [b \in Blocks |-> IF b \in own THEN Freed ELSE heap[b]]
  /\ call' = [name |-> "destroyed", at |-> 1]
  /\ UNCHANGED <<source, target, signal, maps, trail, was>>

-----------------------------------------------------------------------------
(* The others: the target's code replaces what it may write, the owner of  *)
(* a signal appends to it or sets its length to zero.                      *)

Others ==
  /\ call.name \in {"none", "destroyed"}
  /\ trail' = <<>>
  /\ was' = [g \in Signals |-> <<>>]
  /\ UNCHANGED <<maps, call>>

TargetWrites(e, c) ==
  /\ Others /\ Idle
  /\ ToSource(e)
  /\ LET r == Replace(target[e], TargetHome(e), c)
     IN heap' = r.heap /\ target' = [target EXCEPT ![e] = r.ptr]
  /\ UNCHANGED <<source, signal>>

SignalWritten(g, piece) ==
  /\ Others
  /\ Len(SignalContents[g]) < MaxLen
  /\ AppendToBuffer(g, <<piece>>)
  /\ UNCHANGED <<source, target>>

SignalReset(g) ==
  /\ Others
  /\ signal[g].ptr # Null
  /\ heap' = [heap EXCEPT ![signal[g].ptr] = <<>>]
  /\ UNCHANGED <<source, target, signal>>

-----------------------------------------------------------------------------
Init ==
  /\ table \in Tables
  /\ heap = [b \in Blocks |-> Freed]
  /\ source = [e \in Entries |-> Null]
  /\ target = [e \in Entries |-> Null]
  /\ signal = [g \in Signals |-> [ptr |-> Null, size |-> 0]]
  /\ links = <<>> /\ exSignals = {}
  /\ call = [name |-> "none", at |-> 1]
  /\ trail = <<>>
  /\ was = [g \in Signals |-> <<>>]

Next ==
  \/ \E c \in {1, 2} : Generate(c) \/ GenerateUnique(c)
  \/ \E name \in CallNames \ {"groupIn"} : Begin(name)
  \/ SignalMapOut \/ GroupOut \/ ReleaseSources \/ GroupIn \/ SignalMapIn
  \/ Return \/ Destroy
  \/ \E e \in Entries : \E c \in {<<>>} \cup {<<p>> : p \in Pieces} : TargetWrites(e, c)
  \/ \E g \in Signals : SignalReset(g) \/ \E p \in Pieces : SignalWritten(g, p)

Spec == Init /\ [][Next]_vars

-----------------------------------------------------------------------------
(* Properties.                                                             *)

Pointers == Blocks \cup {Null}

(* The variables have their types.                                         *)
TypeOK ==
  /\ table \in Tables
  /\ heap \in [Blocks -> {Freed} \cup Seq(Pieces)]
  /\ source \in [Entries -> Pointers] /\ target \in [Entries -> Pointers]
  /\ signal \in [Signals -> [ptr : Pointers, size : Nat]]
  /\ links \in Seq([source : Entries, signal : Signals, unique : BOOLEAN])
  /\ exSignals \subseteq ToSet(table.signal)
  /\ call \in [name : CallNames \cup {"none", "destroyed"}, at : Nat \ {0}]
  /\ trail \in Seq(CallNames)
  /\ was \in [Signals -> Seq(Pieces)]

(* The pointers of the library, of the target and of the signals, by name. *)
Holders ==
  [kind : {"source", "target"}, of : Entries] \cup [kind : {"signal"}, of : Signals]
Held(h) ==
  CASE h.kind = "source" -> source[h.of]
    [] h.kind = "target" -> target[h.of]
    [] OTHER -> signal[h.of].ptr
Holding == {h \in Holders : Held(h) # Null}

(* In whatever order the calls are made, before, during and after each:    *)
(* every allocated block is held by exactly one pointer, and every pointer *)
(* holds an allocated block.  So nothing leaks, nothing is freed twice or  *)
(* used after, no two parties write one buffer.                            *)
OwnedOnce ==
  call.name # "destroyed" =>
    /\ \A h \in Holding : heap[Held(h)] # Freed
    /\ \A h, i \in Holding : Held(h) = Held(i) => h = i
    /\ \A b \in Blocks : heap[b] # Freed => \E h \in Holding : Held(h) = b

(* The end of a table frees what the library has allocated, and nothing of *)
(* the signals or of a target that only the target's code writes.          *)
Remaining ==
  {h \in Holding : h.kind = "signal" \/ (h.kind = "target" /\ ~ToTarget(h.of))}
DestroyReleasesOwn ==
  call.name = "destroyed" => {b \in Blocks : heap[b] # Freed} = {Held(h) : h \in Remaining}

(* A buffer is as large as its content.                                    *)
BufferHoldsContent ==
  \A g \in Signals : Len(SignalContents[g]) <= signal[g].size

(* Memory is sound under the library, the target's code and the owner of   *)
(* the signals together.                                                   *)
MemoryHolds == TypeOK /\ OwnedOnce /\ DestroyReleasesOwn /\ BufferHoldsContent

(* marshal_signalmap_out, then marshal_group_out: a target that is written *)
(* has what its signal holds.                                              *)
OutDelivers ==
  (Idle /\ trail = <<"mapOut", "groupOut">>) =>
    \A l \in ToSet(links) : ToTarget(l.source) =>
      Content(target[l.source]) = Convert(l.source, SignalContents[l.signal])

(* marshal_group_in, then marshal_signalmap_in: a signal gets appended     *)
(* what the targets mapped to it hold, in their order, and no echo of what *)
(* was sent to a target that is only written.                              *)
InDelivers ==
  (Idle /\ trail = <<"groupIn", "mapIn">>) =>
    LET Received(g, l) ==
          IF l.signal = g /\ ToSource(l.source)
          THEN Convert(l.source, Content(target[l.source])) ELSE <<>>
    IN \A g \in Signals :
         SignalContents[g] =
           was[g] \o FlattenSeq([i \in DOMAIN links |-> Received(g, links[i])])

(* No signal is mapped twice by the maps that were made with the set.      *)
MappedOnce ==
  \A i, j \in DOMAIN links :
    links[i].unique /\ links[j].unique /\ links[i].signal = links[j].signal => i = j

=============================================================================
