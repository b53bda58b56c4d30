--------------------------- MODULE MarshalProofs ---------------------------
(***************************************************************************)
(* Memory holds under marshalling, for every table, every number of        *)
(* signals and every order of the calls.  The argument: at each step one   *)
(* pointer gives up its block or gets a block that was free, and while it  *)
(* has none there is one block more than there are pointers that hold one. *)
(* The last part is about scalars, which are copied in place.              *)
(***************************************************************************)
EXTENDS Marshal, Scalars, Induction, SequenceTheorems

(* What destroy frees; what a pointer holds, that of a freed block nothing. *)
IsReleased(h) == h.kind = "source" \/ (h.kind = "target" /\ ToTarget(h.of))
Kept(h) == IF call.name = "destroyed" /\ IsReleased(h) THEN Null ELSE Held(h)
Ownership == [h \in Holders |-> Kept(h)]

(* Every allocated block has one owner, every owned block is allocated.    *)
Owned(own, mem) ==
  /\ \A h \in Holders : own[h] # Null => mem[own[h]] # Freed
  /\ \A h, i \in Holders : own[h] # Null /\ own[h] = own[i] => h = i
  /\ \A b \in Blocks : mem[b] # Freed => \E h \in Holders : own[h] = b

(* The same pointers, but p at x; the same memory, but c at b.             *)
Repointed(own, x, p, new) == new[x] = p /\ \A h \in Holders \ {x} : new[h] = own[h]
Rewritten(mem, b, c, full) == full[b] = c /\ \A d \in Blocks \ {b} : full[d] = mem[d]
OwnedWith(own, x, p, mem) == \A new : Repointed(own, x, p, new) => Owned(new, mem)
(* The blocks of all but x have what they had.                             *)
OthersKeep(own, x, mem, was0) ==
  \A h \in Holders \ {x} : own[h] # Null => mem[own[h]] = was0[own[h]]
(* A copy of c is at p.                                                    *)
HasCopy(p, mem, c) == IF c = <<>> THEN p = Null ELSE p # Null /\ mem[p] = c

Contents == Seq(Pieces)
Heaps == [Blocks -> {Freed} \cup Contents]

MemoryInv ==
  /\ heap \in Heaps
  /\ source \in [Entries -> Pointers] /\ target \in [Entries -> Pointers]
  /\ signal \in [Signals -> [ptr : Pointers, size : Nat]]
  /\ Owned(Ownership, heap)
  /\ BufferHoldsContent

-----------------------------------------------------------------------------
(* Pointers and blocks.                                                    *)

LEMMA TableParts ==
  ASSUME table \in Tables
  PROVE  /\ Len(table.dir) \in Nat /\ Len(table.signal) \in Nat
         /\ Entries = 1..Len(table.dir) /\ Signals = 1..Len(table.signal)
         /\ table.signal \in Seq(STRING)
         /\ Cardinality(Blocks) >= 2 * Len(table.dir) + Len(table.signal)
  <1>1. IsTable(table)
    BY TablesAssumption
  <1>2. table.dir \in Seq(Directions) /\ table.signal \in Seq(STRING)
    BY <1>1 DEF IsTable
  <1>3. Cardinality(Blocks) >= 2 * Len(table.dir) + Len(table.signal)
    BY BlocksAssumption
  <1>4. /\ Len(table.dir) \in Nat /\ Entries = 1..Len(table.dir)
        /\ Len(table.signal) \in Nat /\ Signals = 1..Len(table.signal)
    BY <1>2, LenProperties DEF Entries, Signals
  <1> QED
    BY <1>2, <1>3, <1>4

(* Each pointer has a place of its own among the first numbers.            *)
Place(h) ==
  CASE h.kind = "source" -> SourceHome(h.of)
    [] h.kind = "target" -> TargetHome(h.of)
    [] OTHER -> SignalHome(h.of)

LEMMA PlacesDiffer ==
  ASSUME table \in Tables
  PROVE  /\ \A h \in Holders : Place(h) \in 1..2 * Len(table.dir) + Len(table.signal)
         /\ \A h, i \in Holders : Place(h) = Place(i) => h = i
  <1> DEFINE n == Len(table.dir)
             m == Len(table.signal)
  <1>1. n \in Nat /\ m \in Nat /\ Entries = 1..n /\ Signals = 1..m
    BY TableParts
  <1> HIDE DEF n, m
  <1>2. \A h \in Holders : \/ h.kind = "source" /\ h.of \in 1..n /\ Place(h) = h.of
                           \/ h.kind = "target" /\ h.of \in 1..n /\ Place(h) = n + h.of
                           \/ h.kind = "signal" /\ h.of \in 1..m /\ Place(h) = 2 * n + h.of
    BY <1>1 DEF Holders, Place, SourceHome, TargetHome, SignalHome, n
  <1>3. ASSUME NEW h \in Holders
        PROVE  Place(h) \in 1..2 * n + m
    BY <1>1, <1>2
  <1>4. ASSUME NEW h \in Holders, NEW i \in Holders, Place(h) = Place(i)
        PROVE  h.kind = i.kind /\ h.of = i.of
    BY <1>1, <1>2, <1>4
  <1>5. \A h, i \in Holders : h.kind = i.kind /\ h.of = i.of => h = i
    BY DEF Holders
  <1> QED
    BY <1>3, <1>4, <1>5 DEF n, m

(* While a pointer has no block there is a free one.                       *)
LEMMA FreeBlock ==
  ASSUME table \in Tables, NEW own, NEW mem, Owned(own, mem),
         NEW x \in Holders, own[x] = Null
  PROVE  \E b \in Blocks : mem[b] = Freed
  <1> SUFFICES ASSUME \A b \in Blocks : mem[b] # Freed
               PROVE  FALSE
    OBVIOUS
  <1> DEFINE n == 2 * Len(table.dir) + Len(table.signal)
             holder(b) == CHOOSE h \in Holders : own[h] = b
             rest == (1..n) \ {Place(x)}
             f == [b \in Blocks |-> Place(holder(b))]
  <1>1. n \in Nat /\ Cardinality(Blocks) >= n
    <2>1. Len(table.dir) \in Nat /\ Len(table.signal) \in Nat /\ Cardinality(Blocks) >= n
      BY TableParts
    <2>2. \A a, b \in Nat : 2 * a + b \in Nat
      OBVIOUS
    <2> QED
      BY <2>1, <2>2
  <1>2. \A b \in Blocks : holder(b) \in Holders /\ own[holder(b)] = b
    BY DEF Owned
  <1>3. \A b \in Blocks : holder(b) # x
    BY <1>2, NullAssumption
  <1> HIDE DEF holder, n
  <1>4. f \in [Blocks -> rest]
    BY <1>2, <1>3, PlacesDiffer DEF n
  <1>5. Place(x) \in 1..n
    BY PlacesDiffer DEF n
  <1>6. IsFiniteSet(1..n) /\ Cardinality(1..n) = n
    BY <1>1, FS_Interval
  <1>7. IsFiniteSet(rest) /\ Cardinality(rest) = n - 1
    BY <1>5, <1>6, FS_RemoveElement
  <1>8. IsFiniteSet(Blocks)
    BY BlocksAssumption
  <1>9. Cardinality(Blocks) \in Nat
    BY <1>8, FS_CardinalityType
  <1>10. Cardinality(rest) < Cardinality(Blocks)
    BY <1>1, <1>7, <1>9
  <1> HIDE DEF f, rest
  <1>11. PICK b \in Blocks, d \in Blocks : b # d /\ f[b] = f[d]
    BY <1>4, <1>7, <1>8, <1>10, FS_PigeonHole
  <1>12. Place(holder(b)) = Place(holder(d))
    BY <1>11 DEF f
  <1>13. holder(b) = holder(d)
    BY <1>2, <1>12, PlacesDiffer
  <1> QED
    BY <1>2, <1>11, <1>13

LEMMA MallocFinds ==
  ASSUME table \in Tables, NEW own, NEW mem, Owned(own, mem),
         NEW x \in Holders, own[x] = Null, NEW home
  PROVE  Malloc(mem, home) \in Blocks /\ mem[Malloc(mem, home)] = Freed
  BY FreeBlock DEF Malloc

(* A pointer that gives up its block.                                      *)
LEMMA ReleaseOwns ==
  ASSUME NEW own \in [Holders -> Pointers], NEW mem \in Heaps, Owned(own, mem),
         NEW x \in Holders
  PROVE  LET freed == Release(mem, own[x]) IN
         /\ freed \in Heaps
         /\ Owned([own EXCEPT ![x] = Null], freed)
         /\ \A h \in Holders \ {x} : own[h] # Null => freed[own[h]] = mem[own[h]]
  BY NullAssumption DEF Release, Owned, Heaps, Pointers

(* A pointer that gets a free block, or another content in its own.        *)
LEMMA CopyOwns ==
  ASSUME NEW own \in [Holders -> Pointers], NEW mem \in Heaps, Owned(own, mem),
         NEW x \in Holders, NEW b \in Blocks, NEW c \in Contents,
         own[x] = b \/ (own[x] = Null /\ mem[b] = Freed),
         NEW new, Repointed(own, x, b, new),
         NEW full, Rewritten(mem, b, c, full)
  PROVE  Owned(new, full) /\ OthersKeep(own, x, full, mem)
  <1>1. c # Freed /\ b # Null
    BY FreedAssumption, NullAssumption DEF Contents
  <1>2. \A h \in Holders : own[h] # Null => own[h] \in Blocks
    BY DEF Pointers
  <1>3. OthersKeep(own, x, full, mem)
    BY <1>1, <1>2 DEF Owned, OthersKeep, Rewritten
  <1>4. \A h \in Holders : new[h] # Null => full[new[h]] # Freed
    BY <1>1, <1>2, <1>3 DEF Owned, OthersKeep, Rewritten, Repointed
  <1>5. \A h, i \in Holders : new[h] # Null /\ new[h] = new[i] => h = i
    BY <1>1, <1>2 DEF Owned, Repointed
  <1>6. ASSUME NEW d \in Blocks, full[d] # Freed
        PROVE  \E h \in Holders : new[h] = d
    <2>1. CASE d = b
      BY <2>1 DEF Repointed
    <2>2. CASE d # b
      <3>1. mem[d] # Freed
        BY <1>6, <2>2 DEF Rewritten
      <3>2. PICK h \in Holders : own[h] = d
        BY <3>1 DEF Owned
      <3>3. h # x
        BY <2>2, <3>1, <3>2, NullAssumption
      <3> QED
        BY <3>2, <3>3 DEF Repointed
    <2> QED
      BY <2>1, <2>2
  <1> QED
    BY <1>3, <1>4, <1>5, <1>6 DEF Owned

LEMMA ReplaceOwns ==
  ASSUME table \in Tables, heap \in Heaps,
         NEW own \in [Holders -> Pointers], Owned(own, heap),
         NEW x \in Holders, NEW home, NEW c \in Contents
  PROVE  LET r == Replace(own[x], home, c) IN
         /\ r.ptr \in Pointers /\ r.heap \in Heaps
         /\ OwnedWith(own, x, r.ptr, r.heap)
         /\ OthersKeep(own, x, r.heap, heap)
         /\ HasCopy(r.ptr, r.heap, c)
  <1> DEFINE freed == Release(heap, own[x])
             none == [own EXCEPT ![x] = Null]
             b == Malloc(freed, home)
             r == Replace(own[x], home, c)
  <1>2. /\ freed \in Heaps /\ Owned(none, freed)
        /\ \A h \in Holders \ {x} : own[h] # Null => freed[own[h]] = heap[own[h]]
    BY ReleaseOwns
  <1>3. none \in [Holders -> Pointers] /\ none[x] = Null
    BY DEF Pointers
  <1> HIDE DEF freed, none
  <1>4. b \in Blocks /\ freed[b] = Freed
    BY <1>2, <1>3, MallocFinds
  <1>5. r = [ptr |-> IF c = <<>> THEN Null ELSE b,
             heap |-> IF c = <<>> THEN freed ELSE [freed EXCEPT ![b] = c]]
    BY <1>4, NullAssumption DEF Replace, freed
  <1> HIDE DEF b, r, freed
  <1> SUFFICES /\ r.ptr \in Pointers /\ r.heap \in Heaps
               /\ OwnedWith(own, x, r.ptr, r.heap)
               /\ OthersKeep(own, x, r.heap, heap)
               /\ HasCopy(r.ptr, r.heap, c)
    BY DEF r
  <1>6. CASE c = <<>>
    <2>1. r.ptr = Null /\ r.heap = freed
      BY <1>5, <1>6
    <2>2. ASSUME NEW new, Repointed(own, x, Null, new)
          PROVE  Owned(new, freed)
      <3>1. \A h \in Holders : new[h] = none[h]
        BY <2>2 DEF none, Repointed
      <3> QED
        BY <1>2, <3>1 DEF Owned
    <2> QED
      BY <1>2, <1>6, <2>1, <2>2 DEF Pointers, OwnedWith, OthersKeep, HasCopy
  <1>7. CASE c # <<>>
    <2> DEFINE full == [freed EXCEPT ![b] = c]
    <2>1. Rewritten(freed, b, c, full)
      BY <1>2, <1>4 DEF Heaps, Rewritten
    <2>2. full \in Heaps
      BY <1>2, <1>4 DEF Heaps, Contents
    <2>3. r.ptr = b /\ r.heap = full
      BY <1>5, <1>7
    <2>4. b # Null
      BY <1>4, NullAssumption
    <2>5. \A h \in Holders \ {x} : none[h] = own[h]
      BY DEF none
    <2> HIDE DEF full
    <2>6. ASSUME NEW new, Repointed(own, x, b, new)
          PROVE  Owned(new, full) /\ OthersKeep(none, x, full, freed)
      <3>1. Repointed(none, x, b, new)
        BY <2>5, <2>6 DEF Repointed
      <3> QED
        BY <1>2, <1>3, <1>4, <2>1, <3>1, CopyOwns
    <2>7. \E new : Repointed(own, x, b, new)
      <3> WITNESS [own EXCEPT ![x] = b]
      <3> QED
        BY DEF Repointed
    <2>8. OthersKeep(own, x, full, heap)
      BY <1>2, <2>5, <2>6, <2>7 DEF OthersKeep
    <2> QED
      BY <1>4, <1>7, <2>1, <2>2, <2>3, <2>4, <2>6, <2>8 DEF Pointers, OwnedWith, HasCopy, Rewritten
  <1> QED
    BY <1>6, <1>7

-----------------------------------------------------------------------------
(* The pointers of a state.                                                *)

LEMMA OwnershipType ==
  ASSUME MemoryInv
  PROVE  Ownership \in [Holders -> Pointers]
  BY DEF MemoryInv, Ownership, Kept, Held, Holders, Pointers

LEMMA HoldersStay ==
  ASSUME table' = table
  PROVE  /\ Entries' = Entries /\ Signals' = Signals /\ Holders' = Holders
         /\ \A h : IsReleased(h)' <=> IsReleased(h)
         /\ Heaps' = Heaps /\ Pointers' = Pointers
         /\ \A own, mem : Owned(own, mem)' <=> Owned(own, mem)
  BY DEF Entries, Signals, Holders, IsReleased, ToTarget, Heaps, Contents, Pointers, Owned

(* A buffer keeps its room when its block is left alone.                   *)
LEMMA RoomStays ==
  ASSUME MemoryInv, UNCHANGED <<table, signal>>,
         \A g \in Signals : signal[g].ptr # Null => heap'[signal[g].ptr] = heap[signal[g].ptr]
  PROVE  BufferHoldsContent'
  <1>1. Signals' = Signals
    BY HoldersStay
  <1>2. \A g \in Signals : /\ Content(signal[g].ptr)' = Content(signal[g].ptr)
                           /\ Len(Content(signal[g].ptr)) <= signal[g].size
    BY DEF Content, MemoryInv, BufferHoldsContent, SignalContents
  <1> QED
    BY <1>1, <1>2 DEF BufferHoldsContent, SignalContents

(* What a pointer leads to.                                                *)
Has(h) == Content(Ownership[h])

(* A pointer of an entry gets a copy of c for what it held: memory holds,  *)
(* it leads to c, and the others lead to what they did.                    *)
LEMMA PointerReplaced ==
  ASSUME MemoryInv, table \in Tables, UNCHANGED <<table, signal>>,
         NEW x \in Holders, x.kind # "signal", NEW home, NEW c \in Contents,
         heap' = Replace(Ownership[x], home, c).heap,
         Ownership'[x] = Replace(Ownership[x], home, c).ptr,
         \A h \in Holders \ {x} : Ownership'[h] = Ownership[h]
  PROVE  /\ Ownership'[x] \in Pointers /\ heap' \in Heaps
         /\ Owned(Ownership, heap)' /\ BufferHoldsContent'
         /\ Has(x)' = c
         /\ \A h \in Holders \ {x} : Has(h)' = Has(h)
  <1> DEFINE own == Ownership
             r == Replace(own[x], home, c)
  <1>1. own \in [Holders -> Pointers] /\ Owned(own, heap) /\ heap \in Heaps
    BY OwnershipType DEF MemoryInv
  <1>2. /\ r.ptr \in Pointers /\ r.heap \in Heaps
        /\ OwnedWith(own, x, r.ptr, r.heap)
        /\ OthersKeep(own, x, r.heap, heap)
        /\ HasCopy(r.ptr, r.heap, c)
    <2>1. r = Replace(own[x], home, c)
      OBVIOUS
    <2> HIDE DEF own, r
    <2> QED
      BY <1>1, <2>1, ReplaceOwns
  <1> HIDE DEF r
  <1>3. heap' = r.heap /\ Ownership'[x] = r.ptr
    BY DEF r
  <1>4. /\ Signals' = Signals
        /\ \A new, mem : Owned(new, mem)' <=> Owned(new, mem)
    BY HoldersStay
  <1>5. Owned(Ownership, heap)'
    BY <1>2, <1>3, <1>4 DEF OwnedWith, Repointed
  <1>6. ASSUME NEW g \in Signals, signal[g].ptr # Null
        PROVE  heap'[signal[g].ptr] = heap[signal[g].ptr]
    <2>1. [kind |-> "signal", of |-> g] \in Holders \ {x}
      BY DEF Holders
    <2>2. own[[kind |-> "signal", of |-> g]] = signal[g].ptr
      BY <2>1 DEF Ownership, Kept, Held, IsReleased
    <2> QED
      BY <1>2, <1>3, <1>6, <2>1, <2>2 DEF OthersKeep
  <1>7. BufferHoldsContent'
    BY <1>6, RoomStays
  <1>8. Has(x)' = c
    BY <1>2, <1>3 DEF Has, Content, HasCopy
  <1>9. \A h \in Holders \ {x} : Has(h)' = Has(h)
    BY <1>2, <1>3 DEF Has, Content, OthersKeep
  <1> QED
    BY <1>2, <1>3, <1>5, <1>7, <1>8, <1>9

AtSource(e) == [kind |-> "source", of |-> e]
AtTarget(e) == [kind |-> "target", of |-> e]
AtSignal(g) == [kind |-> "signal", of |-> g]

LEMMA PointersOf ==
  ASSUME call.name # "destroyed"
  PROVE  /\ \A e \in Entries : /\ AtSource(e) \in Holders /\ Ownership[AtSource(e)] = source[e]
                              /\ AtTarget(e) \in Holders /\ Ownership[AtTarget(e)] = target[e]
         /\ \A g \in Signals : AtSignal(g) \in Holders /\ Ownership[AtSignal(g)] = signal[g].ptr
  BY DEF AtSource, AtTarget, AtSignal, Holders, Ownership, Kept, Held

LEMMA SourceReplaced ==
  ASSUME MemoryInv, table \in Tables, NEW e \in Entries, NEW home, NEW c \in Contents,
         heap' = Replace(source[e], home, c).heap,
         source' = [source EXCEPT ![e] = Replace(source[e], home, c).ptr],
         UNCHANGED <<table, target, signal>>,
         call.name # "destroyed", call'.name # "destroyed"
  PROVE  /\ MemoryInv' /\ Has(AtSource(e))' = c
         /\ \A h \in Holders \ {AtSource(e)} : Has(h)' = Has(h)
  <1> DEFINE x == AtSource(e)
             p == Replace(source[e], home, c).ptr
  <1>1. x \in Holders /\ x.kind # "signal" /\ Ownership[x] = source[e]
    BY PointersOf DEF AtSource
  <1>2. Entries' = Entries /\ Signals' = Signals /\ Holders' = Holders
        /\ Heaps' = Heaps /\ Pointers' = Pointers
    BY HoldersStay
  <1> HIDE DEF p
  <1>3. source' = [source EXCEPT ![e] = p]
    BY DEF p
  <1>4. Ownership'[x] = p
    BY <1>1, <1>2, <1>3 DEF Ownership, Kept, Held, AtSource, MemoryInv
  <1>5. \A h \in Holders \ {x} : Ownership'[h] = Ownership[h]
    BY <1>2, <1>3 DEF Ownership, Kept, Held, Holders, MemoryInv, AtSource
  <1>6. /\ Ownership'[x] \in Pointers /\ heap' \in Heaps
        /\ Owned(Ownership, heap)' /\ BufferHoldsContent'
        /\ Has(x)' = c
        /\ \A h \in Holders \ {x} : Has(h)' = Has(h)
    <2>1. /\ heap' = Replace(Ownership[x], home, c).heap
          /\ Ownership'[x] = Replace(Ownership[x], home, c).ptr
      BY <1>1, <1>4 DEF p
    <2> HIDE DEF x
    <2> QED
      BY <1>1, <1>5, <2>1, PointerReplaced
  <1>7. source' \in [Entries -> Pointers]
    BY <1>3, <1>4, <1>6 DEF MemoryInv
  <1> QED
    BY <1>2, <1>6, <1>7 DEF MemoryInv

LEMMA TargetReplaced ==
  ASSUME MemoryInv, table \in Tables, NEW e \in Entries, NEW home, NEW c \in Contents,
         heap' = Replace(target[e], home, c).heap,
         target' = [target EXCEPT ![e] = Replace(target[e], home, c).ptr],
         UNCHANGED <<table, source, signal>>,
         call.name # "destroyed", call'.name # "destroyed"
  PROVE  /\ MemoryInv' /\ Has(AtTarget(e))' = c
         /\ \A h \in Holders \ {AtTarget(e)} : Has(h)' = Has(h)
  <1> DEFINE x == AtTarget(e)
             p == Replace(target[e], home, c).ptr
  <1>1. x \in Holders /\ x.kind # "signal" /\ Ownership[x] = target[e]
    BY PointersOf DEF AtTarget
  <1>2. Entries' = Entries /\ Signals' = Signals /\ Holders' = Holders
        /\ Heaps' = Heaps /\ Pointers' = Pointers
    BY HoldersStay
  <1> HIDE DEF p
  <1>3. target' = [target EXCEPT ![e] = p]
    BY DEF p
  <1>4. Ownership'[x] = p
    BY <1>1, <1>2, <1>3 DEF Ownership, Kept, Held, AtTarget, MemoryInv
  <1>5. \A h \in Holders \ {x} : Ownership'[h] = Ownership[h]
    BY <1>2, <1>3 DEF Ownership, Kept, Held, Holders, MemoryInv, AtTarget
  <1>6. /\ Ownership'[x] \in Pointers /\ heap' \in Heaps
        /\ Owned(Ownership, heap)' /\ BufferHoldsContent'
        /\ Has(x)' = c
        /\ \A h \in Holders \ {x} : Has(h)' = Has(h)
    <2>1. /\ heap' = Replace(Ownership[x], home, c).heap
          /\ Ownership'[x] = Replace(Ownership[x], home, c).ptr
      BY <1>1, <1>4 DEF p
    <2> HIDE DEF x
    <2> QED
      BY <1>1, <1>5, <2>1, PointerReplaced
  <1>7. target' \in [Entries -> Pointers]
    BY <1>3, <1>4, <1>6 DEF MemoryInv
  <1> QED
    BY <1>2, <1>6, <1>7 DEF MemoryInv

(* A signal's buffer, its own block or a free one, gets the content c.     *)
Written(g, b, c) ==
  /\ signal[g].ptr = b \/ (signal[g].ptr = Null /\ heap[b] = Freed)
  /\ heap' = [heap EXCEPT ![b] = c]
  /\ signal' \in [Signals -> [ptr : Pointers, size : Nat]]
  /\ signal'[g].ptr = b /\ Len(c) <= signal'[g].size
  /\ \A f \in Signals \ {g} : signal'[f] = signal[f]

LEMMA BufferWritten ==
  ASSUME MemoryInv, UNCHANGED <<table, source, target>>,
         call'.name = "destroyed" <=> call.name = "destroyed",
         NEW g \in Signals, NEW b \in Blocks, NEW c \in Contents,
         Written(g, b, c)
  PROVE  /\ MemoryInv' /\ Has(AtSignal(g))' = c
         /\ \A h \in Holders \ {AtSignal(g)} : Has(h)' = Has(h)
  <1> USE DEF Written
  <1> DEFINE x == AtSignal(g)
             own == Ownership
  <1>1. own \in [Holders -> Pointers] /\ Owned(own, heap) /\ heap \in Heaps
    BY OwnershipType DEF MemoryInv
  <1>2. x \in Holders /\ own[x] = signal[g].ptr
    BY DEF AtSignal, Holders, Ownership, Kept, Held, IsReleased
  <1>3. b # Null /\ heap' \in Heaps /\ heap'[b] = c /\ \A d \in Blocks \ {b} : heap'[d] = heap[d]
    BY <1>1, NullAssumption DEF Heaps, Contents
  <1>4. /\ Entries' = Entries /\ Signals' = Signals /\ Holders' = Holders
        /\ Heaps' = Heaps /\ Pointers' = Pointers
        /\ \A h : IsReleased(h)' <=> IsReleased(h)
        /\ \A new, mem : Owned(new, mem)' <=> Owned(new, mem)
    BY HoldersStay
  <1>5. Ownership'[x] = b
    BY <1>2, <1>4 DEF Ownership, Kept, Held, AtSignal, IsReleased
  <1>6. \A h \in Holders \ {x} : Ownership'[h] = own[h]
    BY <1>4 DEF Ownership, Kept, Held, Holders, AtSignal
  <1> HIDE DEF own
  <1>7. Owned(Ownership', heap') /\ OthersKeep(own, x, heap', heap)
    <2>1. Repointed(own, x, b, Ownership') /\ Rewritten(heap, b, c, heap')
      BY <1>3, <1>5, <1>6 DEF Repointed, Rewritten
    <2>2. own[x] = b \/ (own[x] = Null /\ heap[b] = Freed)
      BY <1>2
    <2> HIDE DEF x
    <2> QED
      BY <1>1, <1>2, <2>1, <2>2, CopyOwns
  <1>8. Has(x)' = c
    BY <1>3, <1>5 DEF Has, Content
  <1>9. \A h \in Holders \ {x} : Has(h)' = Has(h)
    BY <1>6, <1>7 DEF Has, Content, OthersKeep, own
  <1>10. BufferHoldsContent'
    <2>1. ASSUME NEW f \in Signals
          PROVE  Len(Content(signal[f].ptr))' <= signal'[f].size
      <3>1. CASE f = g
        BY <1>3, <3>1 DEF Content
      <3>2. CASE f # g
        <4>1. AtSignal(f) \in Holders \ {x} /\ own[AtSignal(f)] = signal[f].ptr
          BY <3>2 DEF AtSignal, Holders, Ownership, Kept, Held, IsReleased, own
        <4>2. Content(signal[f].ptr)' = Content(signal[f].ptr)
          BY <1>7, <3>2, <4>1 DEF Content, OthersKeep
        <4>3. Len(Content(signal[f].ptr)) <= signal[f].size
          BY DEF MemoryInv, BufferHoldsContent, SignalContents
        <4> QED
          BY <3>2, <4>2, <4>3
      <3> QED
        BY <3>1, <3>2
    <2> QED
      BY <1>4, <2>1 DEF BufferHoldsContent, SignalContents
  <1>11. Owned(Ownership, heap)'
    BY <1>4, <1>7
  <1> QED
    BY <1>3, <1>4, <1>8, <1>9, <1>10, <1>11 DEF MemoryInv

LEMMA MemoryUntouched ==
  ASSUME MemoryInv, UNCHANGED <<memory, table>>,
         call'.name = "destroyed" <=> call.name = "destroyed"
  PROVE  MemoryInv' /\ \A h \in Holders : Has(h)' = Has(h)
  <1>1. /\ Entries' = Entries /\ Signals' = Signals /\ Holders' = Holders
        /\ Heaps' = Heaps /\ Pointers' = Pointers
        /\ \A h : IsReleased(h)' <=> IsReleased(h)
        /\ \A new, mem : Owned(new, mem)' <=> Owned(new, mem)
    BY HoldersStay
  <1>2. UNCHANGED <<heap, source, target, signal>>
    BY DEF memory
  <1>3. \A h \in Holders : Ownership'[h] = Ownership[h]
    BY <1>1, <1>2 DEF Ownership, Kept, Held
  <1>4. Owned(Ownership', heap')
    BY <1>2, <1>3 DEF MemoryInv, Owned
  <1>5. Owned(Ownership, heap)'
    BY <1>1, <1>4
  <1>6. BufferHoldsContent'
    BY <1>1, <1>2 DEF MemoryInv, BufferHoldsContent, SignalContents, Content
  <1> QED
    BY <1>1, <1>2, <1>3, <1>5, <1>6 DEF MemoryInv, Has, Content

LEMMA ContentsTypes ==
  ASSUME MemoryInv
  PROVE  /\ \A h \in Holders : Has(h) \in Contents
         /\ \A g \in Signals : /\ AtSignal(g) \in Holders
                              /\ Content(signal[g].ptr) = Has(AtSignal(g))
                              /\ SignalContents[g] = Has(AtSignal(g))
         /\ call.name # "destroyed" =>
              \A e \in Entries : /\ Content(source[e]) = Has(AtSource(e))
                               /\ Content(target[e]) = Has(AtTarget(e))
                               /\ AtSource(e) \in Holders /\ AtTarget(e) \in Holders
  <1>1. \A h \in Holders : Has(h) \in Contents
    <2>1. Ownership \in [Holders -> Pointers]
      BY OwnershipType
    <2>2. <<>> \in Contents
      BY DEF Contents
    <2> QED
      BY <2>1, <2>2 DEF Has, Content, MemoryInv, Owned, Heaps, Pointers
  <1>2. \A g \in Signals : AtSignal(g) \in Holders /\ Ownership[AtSignal(g)] = signal[g].ptr
    BY DEF AtSignal, Holders, Ownership, Kept, Held, IsReleased
  <1>3. call.name # "destroyed" =>
          \A e \in Entries : /\ AtSource(e) \in Holders /\ Ownership[AtSource(e)] = source[e]
                           /\ AtTarget(e) \in Holders /\ Ownership[AtTarget(e)] = target[e]
    BY PointersOf
  <1> QED
    BY <1>1, <1>2, <1>3 DEF Has, SignalContents

LEMMA ConvertType ==
  ASSUME NEW e, NEW c \in Contents
  PROVE  Convert(e, c) \in Contents
  BY DEF Convert, Contents

-----------------------------------------------------------------------------
(* What each turn of a loop does to memory.  Has says of what the other    *)
(* pointers lead to that it stays.                                         *)

LinksType == [source : Entries, signal : Signals, unique : BOOLEAN]

LEMMA LinkAt ==
  ASSUME TypeOK, NEW name, name = "mapOut" \/ name = "mapIn", Turn(name)
  PROVE  /\ call.at \in DOMAIN links
         /\ links[call.at].source \in Entries /\ links[call.at].signal \in Signals
  <1>1. links \in Seq(LinksType) /\ call.at \in Nat \ {0}
    BY DEF TypeOK, LinksType
  <1>2. call.at <= Len(links)
    BY DEF Turn, Count
  <1>3. call.at \in DOMAIN links /\ links[call.at] \in LinksType
    BY <1>1, <1>2
  <1> QED
    BY <1>3 DEF LinksType

LEMMA EntryAt ==
  ASSUME TypeOK, NEW name, name \in {"groupOut", "release", "groupIn"}, Turn(name)
  PROVE  call.at \in Entries
  <1>1. table \in Tables /\ call.at \in Nat \ {0}
    BY DEF TypeOK
  <1>2. Len(table.dir) \in Nat /\ Entries = 1..Len(table.dir)
    BY <1>1, TableParts
  <1>3. Cardinality(Entries) = Len(table.dir)
    BY <1>2, FS_Interval
  <1>4. call.at <= Cardinality(Entries)
    BY DEF Turn, Count
  <1> QED
    BY <1>1, <1>2, <1>3, <1>4

LEMMA TurnParts ==
  ASSUME NEW name \in CallNames, Turn(name), TypeOK
  PROVE  /\ call.name # "destroyed" /\ call'.name # "destroyed"
         /\ call'.name = call.name /\ UNCHANGED table
  BY DEF Turn, CallNames, maps, TypeOK

LEMMA SignalMapOutCopies ==
  ASSUME TypeOK, MemoryInv, SignalMapOut,
         NEW e, NEW g, links[call.at].source = e, links[call.at].signal = g
  PROVE  /\ MemoryInv' /\ Has(AtSource(e))' = Has(AtSignal(g))
         /\ \A h \in Holders \ {AtSource(e)} : Has(h)' = Has(h)
  <1>1. e \in Entries /\ g \in Signals
    BY LinkAt DEF SignalMapOut
  <1>2. /\ call.name # "destroyed" /\ call'.name # "destroyed"
        /\ UNCHANGED table /\ table \in Tables
    BY TurnParts DEF SignalMapOut, CallNames, TypeOK
  <1>3. PICK c \in Contents : c = Content(signal[g].ptr) /\ c = Has(AtSignal(g))
    BY <1>1, ContentsTypes
  <1>4. /\ heap' = Replace(source[e], SourceHome(e), c).heap
        /\ source' = [source EXCEPT ![e] = Replace(source[e], SourceHome(e), c).ptr]
        /\ UNCHANGED <<target, signal>>
    BY <1>3 DEF SignalMapOut
  <1>5. /\ MemoryInv' /\ Has(AtSource(e))' = c
        /\ \A h \in Holders \ {AtSource(e)} : Has(h)' = Has(h)
    BY <1>1, <1>2, <1>4, SourceReplaced
  <1> QED
    BY <1>3, <1>5

LEMMA GroupOutCopies ==
  ASSUME TypeOK, MemoryInv, GroupOut, NEW e, call.at = e
  PROVE  /\ MemoryInv'
         /\ Has(AtTarget(e))' = IF ToTarget(e) THEN Convert(e, Has(AtSource(e))) ELSE Has(AtTarget(e))
         /\ \A h \in Holders \ {AtTarget(e)} : Has(h)' = Has(h)
  <1>1. e \in Entries
    BY EntryAt DEF GroupOut
  <1>2. /\ call.name # "destroyed" /\ call'.name # "destroyed" /\ call'.name = call.name
        /\ UNCHANGED table /\ table \in Tables
    BY TurnParts DEF GroupOut, CallNames, TypeOK
  <1>3. PICK c \in Contents : c = Convert(e, Content(source[e])) /\ c = Convert(e, Has(AtSource(e)))
    BY <1>1, <1>2, ContentsTypes, ConvertType
  <1>4. CASE ToTarget(e)
    <2>1. /\ heap' = Replace(target[e], TargetHome(e), c).heap
          /\ target' = [target EXCEPT ![e] = Replace(target[e], TargetHome(e), c).ptr]
          /\ UNCHANGED <<source, signal>>
      BY <1>3, <1>4 DEF GroupOut
    <2>2. /\ MemoryInv' /\ Has(AtTarget(e))' = c
          /\ \A h \in Holders \ {AtTarget(e)} : Has(h)' = Has(h)
      BY <1>1, <1>2, <2>1, TargetReplaced
    <2> QED
      BY <1>3, <1>4, <2>2
  <1>5. CASE ~ToTarget(e)
    <2>1. UNCHANGED memory
      BY <1>5 DEF GroupOut
    <2>2. MemoryInv' /\ \A h \in Holders : Has(h)' = Has(h)
      BY <1>2, <2>1, MemoryUntouched
    <2>3. AtTarget(e) \in Holders
      BY <1>1 DEF AtTarget, Holders
    <2> QED
      BY <1>5, <2>2, <2>3
  <1> QED
    BY <1>4, <1>5

LEMMA ReleaseSourcesFrees ==
  ASSUME TypeOK, MemoryInv, ReleaseSources, NEW e, call.at = e
  PROVE  /\ MemoryInv' /\ Has(AtSource(e))' = <<>>
         /\ \A h \in Holders \ {AtSource(e)} : Has(h)' = Has(h)
  <1>1. e \in Entries
    BY EntryAt DEF ReleaseSources
  <1>2. /\ call.name # "destroyed" /\ call'.name # "destroyed"
        /\ UNCHANGED table /\ table \in Tables
    BY TurnParts DEF ReleaseSources, CallNames, TypeOK
  <1>3. /\ Replace(source[e], SourceHome(e), <<>>).heap = Release(heap, source[e])
        /\ Replace(source[e], SourceHome(e), <<>>).ptr = Null
    BY DEF Replace
  <1>4. /\ heap' = Replace(source[e], SourceHome(e), <<>>).heap
        /\ source' = [source EXCEPT ![e] = Replace(source[e], SourceHome(e), <<>>).ptr]
        /\ UNCHANGED <<target, signal>>
    BY <1>3 DEF ReleaseSources
  <1>5. <<>> \in Contents
    BY DEF Contents
  <1> QED
    BY <1>1, <1>2, <1>4, <1>5, SourceReplaced

LEMMA GroupInCopies ==
  ASSUME TypeOK, MemoryInv, GroupIn, NEW e, call.at = e
  PROVE  /\ MemoryInv'
         /\ Has(AtSource(e))' = IF ToSource(e) THEN Convert(e, Has(AtTarget(e))) ELSE Has(AtSource(e))
         /\ \A h \in Holders \ {AtSource(e)} : Has(h)' = Has(h)
  <1>1. e \in Entries
    BY EntryAt DEF GroupIn
  <1>2. /\ call.name # "destroyed" /\ call'.name # "destroyed" /\ call'.name = call.name
        /\ UNCHANGED table /\ table \in Tables
    BY TurnParts DEF GroupIn, CallNames, TypeOK
  <1>3. PICK c \in Contents : c = Convert(e, Content(target[e])) /\ c = Convert(e, Has(AtTarget(e)))
    BY <1>1, <1>2, ContentsTypes, ConvertType
  <1>4. CASE ToSource(e)
    <2>1. /\ heap' = Replace(source[e], SourceHome(e), c).heap
          /\ source' = [source EXCEPT ![e] = Replace(source[e], SourceHome(e), c).ptr]
          /\ UNCHANGED <<target, signal>>
      BY <1>3, <1>4 DEF GroupIn
    <2>2. /\ MemoryInv' /\ Has(AtSource(e))' = c
          /\ \A h \in Holders \ {AtSource(e)} : Has(h)' = Has(h)
      BY <1>1, <1>2, <2>1, SourceReplaced
    <2> QED
      BY <1>3, <1>4, <2>2
  <1>5. CASE ~ToSource(e)
    <2>1. UNCHANGED memory
      BY <1>5 DEF GroupIn
    <2>2. MemoryInv' /\ \A h \in Holders : Has(h)' = Has(h)
      BY <1>2, <2>1, MemoryUntouched
    <2>3. AtSource(e) \in Holders
      BY <1>1 DEF AtSource, Holders
    <2> QED
      BY <1>5, <2>2, <2>3
  <1> QED
    BY <1>4, <1>5

(* dse_buffer_append: the signal's content grows, nothing else changes.    *)
LEMMA AppendCopies ==
  ASSUME MemoryInv, table \in Tables, NEW g \in Signals, NEW c \in Contents,
         AppendToBuffer(g, c), UNCHANGED <<table, source, target>>,
         call'.name = "destroyed" <=> call.name = "destroyed"
  PROVE  /\ MemoryInv' /\ Has(AtSignal(g))' = Has(AtSignal(g)) \o c
         /\ \A h \in Holders \ {AtSignal(g)} : Has(h)' = Has(h)
  <1> DEFINE old == Content(signal[g].ptr)
             b == IF signal[g].ptr # Null THEN signal[g].ptr ELSE Malloc(heap, SignalHome(g))
             size == IF Len(old) + Len(c) > signal[g].size THEN Len(old) + Len(c)
                     ELSE signal[g].size
  <1>1. signal[g] \in [ptr : Pointers, size : Nat] /\ Ownership \in [Holders -> Pointers]
    BY OwnershipType DEF MemoryInv
  <1>2. AtSignal(g) \in Holders /\ Ownership[AtSignal(g)] = signal[g].ptr
    BY DEF AtSignal, Holders, Ownership, Kept, Held, IsReleased
  <1>3. old \in Contents
    BY ContentsTypes
  <1>4. /\ b \in Blocks
        /\ signal[g].ptr = b \/ (signal[g].ptr = Null /\ heap[b] = Freed)
    <2>1. CASE signal[g].ptr # Null
      BY <1>1, <2>1 DEF Pointers
    <2>2. CASE signal[g].ptr = Null
      <3>1. Owned(Ownership, heap)
        BY DEF MemoryInv
      <3>2. Malloc(heap, SignalHome(g)) \in Blocks /\ heap[Malloc(heap, SignalHome(g))] = Freed
        BY <1>2, <2>2, <3>1, MallocFinds
      <3> QED
        BY <2>2, <3>2
    <2> QED
      BY <2>1, <2>2
  <1>5. /\ signal' = [signal EXCEPT ![g] = [ptr |-> b, size |-> size]]
        /\ heap' = [heap EXCEPT ![b] = old \o c]
    BY DEF AppendToBuffer
  <1> HIDE DEF b, old
  <1>6. old \o c \in Contents /\ Len(old \o c) = Len(old) + Len(c)
    BY <1>3, ConcatProperties DEF Contents
  <1>7. size \in Nat /\ Len(old \o c) <= size
    <2>1. Len(old) \in Nat /\ Len(c) \in Nat /\ signal[g].size \in Nat
      BY <1>1, <1>3, LenProperties DEF Contents
    <2> QED
      BY <1>6, <2>1
  <1> HIDE DEF size
  <1>8. /\ signal' \in [Signals -> [ptr : Pointers, size : Nat]]
        /\ signal'[g].ptr = b /\ signal'[g].size = size
        /\ \A f \in Signals \ {g} : signal'[f] = signal[f]
    BY <1>4, <1>5, <1>7 DEF MemoryInv, Pointers
  <1>9. PICK a \in Blocks, d \in Contents : a = b /\ d = old \o c
    BY <1>4, <1>6
  <1>10. Written(g, a, d)
    BY <1>4, <1>5, <1>7, <1>8, <1>9 DEF Written
  <1>11. old = Has(AtSignal(g))
    BY ContentsTypes DEF old
  <1>12. /\ MemoryInv' /\ Has(AtSignal(g))' = d
         /\ \A h \in Holders \ {AtSignal(g)} : Has(h)' = Has(h)
    BY <1>10, BufferWritten
  <1> QED
    BY <1>9, <1>11, <1>12

LEMMA SignalMapInAppends ==
  ASSUME TypeOK, MemoryInv, SignalMapIn,
         NEW e, NEW g, links[call.at].source = e, links[call.at].signal = g
  PROVE  /\ MemoryInv' /\ Has(AtSignal(g))' = Has(AtSignal(g)) \o Has(AtSource(e))
         /\ \A h \in Holders \ {AtSignal(g)} : Has(h)' = Has(h)
  <1>1. e \in Entries /\ g \in Signals
    BY LinkAt DEF SignalMapIn
  <1>2. /\ call.name # "destroyed" /\ call'.name # "destroyed"
        /\ UNCHANGED table /\ table \in Tables
    BY TurnParts DEF SignalMapIn, CallNames, TypeOK
  <1>3. PICK c \in Contents : c = Content(source[e]) /\ c = Has(AtSource(e))
    BY <1>1, <1>2, ContentsTypes
  <1>4. CASE source[e] = Null
    <2>1. UNCHANGED memory
      BY <1>4 DEF SignalMapIn
    <2>2. MemoryInv' /\ \A h \in Holders : Has(h)' = Has(h)
      BY <1>2, <2>1, MemoryUntouched
    <2>3. c = <<>>
      BY <1>3, <1>4 DEF Content
    <2>4. AtSignal(g) \in Holders /\ Has(AtSignal(g)) \in Contents
      BY <1>1, ContentsTypes
    <2>5. Has(AtSignal(g)) \o c = Has(AtSignal(g))
      BY <2>3, <2>4, ConcatEmptySeq DEF Contents
    <2> QED
      BY <1>3, <2>2, <2>4, <2>5
  <1>5. CASE source[e] # Null
    <2>1. AppendToBuffer(g, c) /\ UNCHANGED <<source, target>>
      BY <1>3, <1>5 DEF SignalMapIn
    <2>2. /\ MemoryInv' /\ Has(AtSignal(g))' = Has(AtSignal(g)) \o c
          /\ \A h \in Holders \ {AtSignal(g)} : Has(h)' = Has(h)
      BY <1>1, <1>2, <2>1, AppendCopies
    <2> QED
      BY <1>3, <2>2
  <1> QED
    BY <1>4, <1>5

-----------------------------------------------------------------------------
(* The end of the table, and the others' writes.                           *)

LEMMA DestroyFrees ==
  ASSUME MemoryInv, Destroy
  PROVE  MemoryInv'
  <1> DEFINE freed == {source[e] : e \in Entries}
                      \cup {target[e] : e \in {d \in Entries : ToTarget(d)}}
  <1>1. /\ call.name # "destroyed" /\ call'.name = "destroyed"
        /\ UNCHANGED <<table, source, target, signal>>
        /\ heap' = [b \in Blocks |-> IF b \in freed THEN Freed ELSE heap[b]]
    BY DEF Destroy, Idle, maps
  <1>2. /\ Entries' = Entries /\ Signals' = Signals /\ Holders' = Holders
        /\ Heaps' = Heaps /\ Pointers' = Pointers
        /\ \A h : IsReleased(h)' <=> IsReleased(h)
        /\ \A new, mem : Owned(new, mem)' <=> Owned(new, mem)
    BY <1>1, HoldersStay
  <1>3. /\ \A h \in Holders : IsReleased(h) => Ownership[h] \in freed
        /\ \A b \in freed : \E h \in Holders : IsReleased(h) /\ Ownership[h] = b
    <2>1. ASSUME NEW h \in Holders, IsReleased(h)
          PROVE  Ownership[h] \in freed
      BY <1>1, <2>1 DEF Ownership, Kept, Held, IsReleased, Holders
    <2>2. ASSUME NEW b \in freed
          PROVE  \E h \in Holders : IsReleased(h) /\ Ownership[h] = b
      <3>1. CASE b \in {source[e] : e \in Entries}
        <4>1. PICK e \in Entries : b = source[e]
          BY <3>1
        <4>2. IsReleased(AtSource(e))
          BY DEF IsReleased, AtSource
        <4> QED
          BY <1>1, <4>1, <4>2, PointersOf
      <3>2. CASE b \in {target[e] : e \in {d \in Entries : ToTarget(d)}}
        <4>1. PICK e \in Entries : ToTarget(e) /\ b = target[e]
          BY <3>2
        <4>2. IsReleased(AtTarget(e))
          BY <4>1 DEF IsReleased, AtTarget
        <4> QED
          BY <1>1, <4>1, <4>2, PointersOf
      <3> QED
        BY <3>1, <3>2
    <2> QED
      BY <2>1, <2>2
  <1> HIDE DEF freed
  <1>4. \A h \in Holders : Ownership'[h] = IF IsReleased(h) THEN Null ELSE Ownership[h]
    BY <1>1, <1>2 DEF Ownership, Kept, Held
  <1>5. Ownership \in [Holders -> Pointers] /\ Owned(Ownership, heap) /\ heap \in Heaps
    BY OwnershipType DEF MemoryInv
  <1>6. \A h \in Holders : ~IsReleased(h) /\ Ownership[h] # Null => Ownership[h] \notin freed
    BY <1>3, <1>5 DEF Owned
  <1>7. heap' \in Heaps
    BY <1>1, <1>5 DEF Heaps
  <1>8. Owned(Ownership', heap')
    <2>1. \A h \in Holders : Ownership'[h] # Null => heap'[Ownership'[h]] # Freed
      BY <1>1, <1>4, <1>5, <1>6 DEF Owned, Pointers
    <2>2. \A h, i \in Holders : Ownership'[h] # Null /\ Ownership'[h] = Ownership'[i] => h = i
      BY <1>4, <1>5 DEF Owned
    <2>3. \A b \in Blocks : heap'[b] # Freed => \E h \in Holders : Ownership'[h] = b
      BY <1>1, <1>3, <1>4, <1>5 DEF Owned
    <2> QED
      BY <2>1, <2>2, <2>3 DEF Owned
  <1>9. ASSUME NEW g \in Signals, signal[g].ptr # Null
        PROVE  heap'[signal[g].ptr] = heap[signal[g].ptr]
    <2>1. /\ AtSignal(g) \in Holders /\ Ownership[AtSignal(g)] = signal[g].ptr
          /\ ~IsReleased(AtSignal(g))
      BY DEF AtSignal, Holders, Ownership, Kept, Held, IsReleased
    <2> QED
      BY <1>1, <1>5, <1>6, <1>9, <2>1 DEF Pointers
  <1>10. BufferHoldsContent'
    BY <1>1, <1>9, RoomStays
  <1>11. Owned(Ownership, heap)'
    BY <1>2, <1>8
  <1>12. /\ source \in [Entries -> Pointers] /\ target \in [Entries -> Pointers]
         /\ signal \in [Signals -> [ptr : Pointers, size : Nat]]
    BY DEF MemoryInv
  <1> QED
    BY <1>1, <1>2, <1>7, <1>10, <1>11, <1>12 DEF MemoryInv

LEMMA TargetWritesReplaces ==
  ASSUME TypeOK, MemoryInv, NEW e \in Entries, NEW c \in Contents, TargetWrites(e, c)
  PROVE  MemoryInv'
  <1>1. /\ call.name # "destroyed" /\ call'.name # "destroyed"
        /\ UNCHANGED table /\ table \in Tables
    BY DEF TargetWrites, Others, Idle, maps, TypeOK
  <1>2. /\ heap' = Replace(target[e], TargetHome(e), c).heap
        /\ target' = [target EXCEPT ![e] = Replace(target[e], TargetHome(e), c).ptr]
        /\ UNCHANGED <<source, signal>>
    BY DEF TargetWrites
  <1> QED
    BY <1>1, <1>2, TargetReplaced

LEMMA SignalWrittenAppends ==
  ASSUME TypeOK, MemoryInv, NEW g \in Signals, NEW piece \in Pieces, SignalWritten(g, piece)
  PROVE  MemoryInv'
  <1>1. /\ AppendToBuffer(g, <<piece>>) /\ UNCHANGED <<table, source, target, call>>
        /\ table \in Tables
    BY DEF SignalWritten, Others, maps, TypeOK
  <1>2. <<piece>> \in Contents
    BY DEF Contents
  <1> QED
    BY <1>1, <1>2, AppendCopies

LEMMA SignalResetEmpties ==
  ASSUME MemoryInv, NEW g \in Signals, SignalReset(g)
  PROVE  MemoryInv'
  <1>1. /\ UNCHANGED <<table, source, target, signal, call>> /\ signal[g].ptr # Null
        /\ heap' = [heap EXCEPT ![signal[g].ptr] = <<>>]
    BY DEF SignalReset, Others, maps
  <1>2. signal \in [Signals -> [ptr : Pointers, size : Nat]]
    BY DEF MemoryInv
  <1>3. PICK b \in Blocks : b = signal[g].ptr
    BY <1>1, <1>2 DEF Pointers
  <1>4. <<>> \in Contents /\ Len(<<>>) <= signal[g].size
    BY <1>2 DEF Contents
  <1>5. signal' \in [Signals -> [ptr : Pointers, size : Nat]]
    BY <1>1, <1>2
  <1>6. Written(g, b, <<>>)
    BY <1>1, <1>3, <1>4, <1>5 DEF Written
  <1> QED
    BY <1>1, <1>3, <1>4, <1>6, BufferWritten

-----------------------------------------------------------------------------
(* Memory holds from step to step.                                         *)

LEMMA MemoryInit ==
  ASSUME Init
  PROVE  MemoryInv
  <1>1. /\ heap = [b \in Blocks |-> Freed]
        /\ source = [e \in Entries |-> Null] /\ target = [e \in Entries |-> Null]
        /\ signal = [g \in Signals |-> [ptr |-> Null, size |-> 0]]
    BY DEF Init
  <1>2. \A h \in Holders : Ownership[h] = Null
    BY <1>1 DEF Ownership, Kept, Held, Holders
  <1>3. Owned(Ownership, heap)
    BY <1>1, <1>2 DEF Owned
  <1>4. heap \in Heaps
    BY <1>1 DEF Heaps
  <1>5. BufferHoldsContent
    BY <1>1 DEF BufferHoldsContent, SignalContents, Content
  <1> QED
    BY <1>1, <1>3, <1>4, <1>5 DEF MemoryInv, Pointers

LEMMA MemoryNext ==
  ASSUME TypeOK, MemoryInv, [Next]_vars
  PROVE  MemoryInv'
  <1>1. ASSUME NEW c \in {1, 2}, Generate(c) \/ GenerateUnique(c)
        PROVE  MemoryInv'
    <2>1. UNCHANGED <<memory, table, call>>
      BY <1>1 DEF Generate, GenerateUnique
    <2> QED
      BY <2>1, MemoryUntouched
  <1>2. ASSUME NEW name \in CallNames, Begin(name)
        PROVE  MemoryInv'
    <2>1. UNCHANGED <<memory, table>> /\ call.name # "destroyed" /\ call'.name # "destroyed"
      BY <1>2 DEF Begin, Idle, CallNames, maps
    <2> QED
      BY <2>1, MemoryUntouched
  <1>3. CASE SignalMapOut
    <2>1. PICK e \in Entries, g \in Signals : links[call.at].source = e /\ links[call.at].signal = g
      BY <1>3, LinkAt DEF SignalMapOut
    <2> QED
      BY <1>3, <2>1, SignalMapOutCopies
  <1>4. CASE GroupOut
    BY <1>4, GroupOutCopies
  <1>5. CASE ReleaseSources
    BY <1>5, ReleaseSourcesFrees
  <1>6. CASE GroupIn
    BY <1>6, GroupInCopies
  <1>7. CASE SignalMapIn
    <2>1. PICK e \in Entries, g \in Signals : links[call.at].source = e /\ links[call.at].signal = g
      BY <1>7, LinkAt DEF SignalMapIn
    <2> QED
      BY <1>7, <2>1, SignalMapInAppends
  <1>8. CASE Return
    <2>1. UNCHANGED <<memory, table>> /\ call.name # "destroyed" /\ call'.name # "destroyed"
      BY <1>8 DEF Return, maps
    <2> QED
      BY <2>1, MemoryUntouched
  <1>9. CASE Destroy
    BY <1>9, DestroyFrees
  <1>10. ASSUME NEW e \in Entries, NEW c \in {<<>>} \cup {<<p>> : p \in Pieces}, TargetWrites(e, c)
         PROVE  MemoryInv'
    <2>1. c = <<>> \/ \E p \in Pieces : c = <<p>>
      OBVIOUS
    <2>2. <<>> \in Contents /\ \A p \in Pieces : <<p>> \in Contents
      BY DEF Contents
    <2> QED
      BY <1>10, <2>1, <2>2, TargetWritesReplaces
  <1>11. ASSUME NEW g \in Signals, SignalReset(g)
         PROVE  MemoryInv'
    BY <1>11, SignalResetEmpties
  <1>12. ASSUME NEW g \in Signals, NEW p \in Pieces, SignalWritten(g, p)
         PROVE  MemoryInv'
    BY <1>12, SignalWrittenAppends
  <1>13. CASE UNCHANGED vars
    <2>1. UNCHANGED <<memory, table, call>>
      BY <1>13 DEF vars, maps
    <2> QED
      BY <2>1, MemoryUntouched
  <1> QED
    BY <1>1, <1>2, <1>3, <1>4, <1>5, <1>6, <1>7, <1>8, <1>9, <1>10, <1>11, <1>12, <1>13 DEF Next

-----------------------------------------------------------------------------
(* The signal maps.                                                        *)

(* Each entry is in one link; the signals of unique links are marked.      *)
LinkInv ==
  /\ \A i, j \in DOMAIN links : links[i].source = links[j].source => i = j
  /\ \A i \in DOMAIN links : links[i].unique => table.signal[links[i].signal] \in exSignals
  /\ MappedOnce

LEMMA MinIsIn ==
  ASSUME NEW S \in SUBSET Nat, S # {}
  PROVE  Min(S) \in S
  <1> DEFINE Less == {p \in Nat \X Nat : p[1] < p[2]}
  <1>1. IsWellFoundedOn(Less, Nat)
    BY NatLessThanWellFounded DEF OpToRel
  <1>2. \A x, y \in Nat : x < y => <<x, y>> \in Less
    OBVIOUS
  <1> HIDE DEF Less
  <1>3. PICK x \in S : \A y \in S : ~(<<y, x>> \in Less)
    BY <1>1, WFMin
  <1>4. ASSUME NEW y \in S
        PROVE  x =< y
    <2>1. ~(y < x)
      BY <1>2, <1>3
    <2> QED
      BY <2>1
  <1> QED
    BY <1>3, <1>4 DEF Min

LEMMA ListedParts ==
  ASSUME TypeOK, NEW c, NEW list \in Listed(Matched(c))
  PROVE  /\ list \in Seq(Entries)
         /\ \A i \in DOMAIN list : list[i] \in Matched(c)
         /\ \A i, j \in DOMAIN list : list[i] = list[j] => i = j
  <1> DEFINE n == Cardinality(Matched(c))
  <1>1. table \in Tables /\ Len(table.dir) \in Nat /\ Entries = 1..Len(table.dir)
    BY TableParts DEF TypeOK
  <1>2. IsFiniteSet(Entries)
    BY <1>1, FS_Interval
  <1>3. Matched(c) \in SUBSET Entries
    BY DEF Matched
  <1>4. n \in Nat
    BY <1>2, <1>3, FS_Subset, FS_CardinalityType
  <1> HIDE DEF n
  <1>5. /\ list \in [1..n -> Matched(c)]
        /\ \A i, j \in DOMAIN list : i < j => list[i] < list[j]
    BY DEF Listed, n
  <1>6. list \in Seq(Entries)
    BY <1>3, <1>4, <1>5
  <1>7. ASSUME NEW i \in DOMAIN list, NEW j \in DOMAIN list, list[i] = list[j]
        PROVE  i = j
    <2>1. i \in Int /\ j \in Int /\ list[i] \in Int
      BY <1>1, <1>3, <1>4, <1>5
    <2>2. i < j \/ j < i \/ i = j
      BY <2>1
    <2> QED
      BY <1>5, <1>7, <2>1, <2>2
  <1> QED
    BY <1>5, <1>6, <1>7

LEMMA LinkParts ==
  ASSUME TypeOK, NEW c, NEW e \in Matched(c), NEW u \in BOOLEAN
  PROVE  /\ Link(e, u) \in LinksType
         /\ Link(e, u).source = e /\ Link(e, u).unique = u
         /\ table.signal[Link(e, u).signal] = table.name[e]
         /\ table.container[e] = c
  <1> DEFINE named == {g \in Signals : table.signal[g] = table.name[e]}
  <1>1. e \in Entries /\ table.container[e] = c /\ named # {}
    BY DEF Matched
  <1>2. Signals \subseteq Nat
    BY TableParts DEF TypeOK
  <1>3. Min(named) \in named
    BY <1>1, <1>2, MinIsIn
  <1> QED
    BY <1>1, <1>3 DEF Link, LinksType

(* What a map's links add to those there are.                              *)
IsAdded(list, u, i) ==
  \E k \in DOMAIN list : i = Len(links) + k /\ links'[i] = Link(list[k], u)
LinksGrow(list, u) ==
  /\ links' \in Seq(LinksType)
  /\ \A i, j \in DOMAIN links' : links'[i].source = links'[j].source => i = j
  /\ \A i \in DOMAIN links : i \in DOMAIN links' /\ links'[i] = links[i]
  /\ \A i \in DOMAIN links' : i \in DOMAIN links \/ IsAdded(list, u, i)
LEMMA LinksAdded ==
  ASSUME TypeOK, LinkInv, NEW c, Unmapped(c), NEW list \in Listed(Matched(c)),
         NEW u \in BOOLEAN, links' = links \o LinksOf(list, u)
  PROVE  LinksGrow(list, u)
  <1> DEFINE new == LinksOf(list, u)
  <1>1. /\ list \in Seq(Entries) /\ \A i \in DOMAIN list : list[i] \in Matched(c)
        /\ \A i, j \in DOMAIN list : list[i] = list[j] => i = j
    BY ListedParts
  <1>2. \A i \in DOMAIN list : /\ Link(list[i], u) \in LinksType
                              /\ Link(list[i], u).source = list[i]
                              /\ table.container[list[i]] = c
    BY <1>1, LinkParts
  <1>3. PICK n \in Nat : DOMAIN list = 1..n
    BY <1>1
  <1>4. new \in Seq(LinksType) /\ Len(new) = n
    BY <1>2, <1>3 DEF LinksOf
  <1>5. links \in Seq(LinksType)
    BY DEF TypeOK, LinksType
  <1>6. \A i \in DOMAIN links : table.container[links[i].source] # c
    BY <1>5 DEF Unmapped, ToSet
  <1> HIDE DEF new
  <1>7. /\ links' \in Seq(LinksType) /\ Len(links') = Len(links) + n
        /\ \A i \in 1..Len(links) + n :
             links'[i] = IF i <= Len(links) THEN links[i] ELSE new[i - Len(links)]
    BY <1>4, <1>5, ConcatProperties DEF new
  <1>8. /\ Len(links) \in Nat /\ DOMAIN links = 1..Len(links)
        /\ DOMAIN links' = 1..Len(links) + n
    BY <1>5, <1>7, LenProperties
  <1>9. \A i \in DOMAIN links : i \in DOMAIN links' /\ links'[i] = links[i]
    BY <1>7, <1>8
  <1>10. ASSUME NEW i \in DOMAIN links', i \notin DOMAIN links
         PROVE  IsAdded(list, u, i)
    <2>1. PICK m \in Nat : m = Len(links)
      BY <1>8
    <2>2. i \in 1..m + n /\ ~(i <= m)
      BY <1>8, <1>10, <2>1
    <2>3. i - m \in 1..n /\ i = m + (i - m)
      BY <2>2
    <2>4. PICK k \in 1..n : k = i - m /\ i = m + k
      BY <2>3
    <2>5. links'[i] = new[k]
      BY <1>7, <2>1, <2>2, <2>4
    <2> QED
      BY <1>3, <2>1, <2>4, <2>5 DEF new, LinksOf, IsAdded
  <1>11. ASSUME NEW i \in DOMAIN links', NEW j \in DOMAIN links',
                links'[i].source = links'[j].source
         PROVE  i = j
    <2>0. \A l \in DOMAIN links' : l \notin DOMAIN links => table.container[links'[l].source] = c
      <3> SUFFICES ASSUME NEW l \in DOMAIN links', l \notin DOMAIN links
                   PROVE  table.container[links'[l].source] = c
        OBVIOUS
      <3>1. PICK k \in DOMAIN list : links'[l] = Link(list[k], u)
        BY <1>10 DEF IsAdded
      <3> QED
        BY <1>2, <3>1
    <2>1. CASE i \in DOMAIN links /\ j \in DOMAIN links
      BY <1>9, <1>11, <2>1 DEF LinkInv
    <2>2. CASE i \in DOMAIN links /\ j \notin DOMAIN links
      <3>1. table.container[links'[j].source] = c /\ table.container[links'[i].source] # c
        BY <1>6, <1>9, <2>0, <2>2
      <3> QED
        BY <1>11, <3>1
    <2>3. CASE i \notin DOMAIN links /\ j \in DOMAIN links
      <3>1. table.container[links'[i].source] = c /\ table.container[links'[j].source] # c
        BY <1>6, <1>9, <2>0, <2>3
      <3> QED
        BY <1>11, <3>1
    <2>4. CASE i \notin DOMAIN links /\ j \notin DOMAIN links
      <3>1. PICK k \in DOMAIN list : i = Len(links) + k /\ links'[i] = Link(list[k], u)
        BY <1>10, <2>4 DEF IsAdded
      <3>2. PICK l \in DOMAIN list : j = Len(links) + l /\ links'[j] = Link(list[l], u)
        BY <1>10, <2>4 DEF IsAdded
      <3>3. list[k] = list[l]
        BY <1>2, <1>11, <3>1, <3>2
      <3> QED
        BY <1>1, <3>1, <3>2, <3>3
    <2> QED
      BY <2>1, <2>2, <2>3, <2>4
  <1> QED
    BY <1>7, <1>9, <1>10, <1>11 DEF LinksGrow

LEMMA LinksStay ==
  ASSUME LinkInv, UNCHANGED <<table, links, exSignals>>
  PROVE  LinkInv'
  BY DEF LinkInv, MappedOnce

LEMMA GenerateLinks ==
  ASSUME TypeOK, LinkInv, NEW c, Generate(c)
  PROVE  LinkInv' /\ links' \in Seq(LinksType) /\ exSignals' \subseteq ToSet(table.signal)
  <1>1. /\ Unmapped(c) /\ UNCHANGED <<table, exSignals>>
        /\ exSignals \subseteq ToSet(table.signal)
    BY DEF Generate, TypeOK
  <1>2. PICK list \in Listed(Matched(c)) :
          links' = links \o LinksOf(list, FALSE)
    BY DEF Generate
  <1>3. LinksGrow(list, FALSE)
    BY <1>1, <1>2, LinksAdded
  <1>4. \A i \in DOMAIN links' : i \notin DOMAIN links => ~links'[i].unique
    <2> SUFFICES ASSUME NEW i \in DOMAIN links', i \notin DOMAIN links
                 PROVE  ~links'[i].unique
      OBVIOUS
    <2>1. PICK k \in DOMAIN list : links'[i] = Link(list[k], FALSE)
      BY <1>3 DEF LinksGrow, IsAdded
    <2> QED
      BY <2>1 DEF Link
  <1>5. \A i \in DOMAIN links' : links'[i].unique => i \in DOMAIN links /\ links'[i] = links[i]
    BY <1>3, <1>4 DEF LinksGrow
  <1>6. \A i \in DOMAIN links' : links'[i].unique => table'.signal[links'[i].signal] \in exSignals'
    BY <1>1, <1>5 DEF LinkInv
  <1>7. MappedOnce'
    BY <1>5 DEF LinkInv, MappedOnce
  <1> QED
    BY <1>1, <1>3, <1>6, <1>7 DEF LinkInv, LinksGrow

LEMMA GenerateUniqueLinks ==
  ASSUME TypeOK, LinkInv, NEW c, GenerateUnique(c)
  PROVE  LinkInv' /\ links' \in Seq(LinksType) /\ exSignals' \subseteq ToSet(table.signal)
  <1>1. /\ Unmapped(c) /\ UNCHANGED table /\ links \in Seq(LinksType)
        /\ exSignals \subseteq ToSet(table.signal)
    BY DEF GenerateUnique, TypeOK, LinksType
  <1>2. PICK list \in Listed(Matched(c)) :
          LET taken == Taken(list, exSignals)
              marks == IF taken = {} THEN DOMAIN list ELSE 1..Min(taken) - 1
          IN /\ exSignals' = exSignals \cup Names({list[i] : i \in marks})
             /\ links' = IF taken = {} THEN links \o LinksOf(list, TRUE)
                         ELSE links
    BY DEF GenerateUnique
  <1> DEFINE taken == Taken(list, exSignals)
             marks == IF taken = {} THEN DOMAIN list ELSE 1..Min(taken) - 1
  <1>3. /\ list \in Seq(Entries) /\ \A i \in DOMAIN list : list[i] \in Matched(c)
    BY ListedParts
  <1>4. marks \subseteq DOMAIN list
    <2>1. PICK n \in Nat : DOMAIN list = 1..n
      BY <1>3
    <2>2. taken \in SUBSET (1..n)
      BY <2>1 DEF Taken
    <2>3. taken # {} => Min(taken) \in 1..n
      BY <2>2, MinIsIn
    <2> HIDE DEF taken
    <2> QED
      BY <2>1, <2>3
  <1>5. exSignals' = exSignals \cup Names({list[i] : i \in marks})
    BY <1>2
  <1> HIDE DEF marks
  <1>6. exSignals' \subseteq ToSet(table.signal)
    <2>1. ASSUME NEW s \in Names({list[i] : i \in marks})
          PROVE  s \in ToSet(table.signal)
      <3>1. PICK i \in marks : s = table.name[list[i]]
        BY DEF Names
      <3>2. PICK g \in Signals : table.signal[g] = s
        BY <1>3, <1>4, <3>1 DEF Matched
      <3> QED
        BY <3>2 DEF ToSet, Signals
    <2> QED
      BY <1>1, <1>5, <2>1
  <1>7. CASE taken # {}
    <2>1. links' = links
      BY <1>2, <1>7
    <2>2. exSignals \subseteq exSignals'
      BY <1>5
    <2>3. LinkInv'
      BY <1>1, <2>1, <2>2 DEF LinkInv, MappedOnce
    <2> QED
      BY <1>1, <1>6, <2>1, <2>3
  <1>8. CASE taken = {}
    <2>1. /\ links' = links \o LinksOf(list, TRUE)
          /\ exSignals' = exSignals \cup Names({list[i] : i \in DOMAIN list})
      BY <1>2, <1>5, <1>8 DEF marks
    <2> HIDE DEF taken
    <2>2. /\ \A i \in DOMAIN list : table.name[list[i]] \notin exSignals
          /\ \A i \in DOMAIN list : \A j \in 1..i - 1 : table.name[list[i]] # table.name[list[j]]
      BY <1>8 DEF taken, Taken
    <2>3. \A i, j \in DOMAIN list : table.name[list[i]] = table.name[list[j]] => i = j
      <3>1. PICK n \in Nat : DOMAIN list = 1..n
        BY <1>3
      <3> SUFFICES ASSUME NEW i \in 1..n, NEW j \in 1..n, i < j
                   PROVE  table.name[list[i]] # table.name[list[j]]
        BY <3>1
      <3> QED
        BY <2>2, <3>1
    <2>4. LinksGrow(list, TRUE)
      BY <1>1, <2>1, LinksAdded
    <2>5. ASSUME NEW i \in DOMAIN links', i \notin DOMAIN links
          PROVE  \E k \in DOMAIN list :
                   /\ i = Len(links) + k
                   /\ table.signal[links'[i].signal] = table.name[list[k]]
                   /\ table.name[list[k]] \in exSignals'
      <3>1. PICK k \in DOMAIN list : i = Len(links) + k /\ links'[i] = Link(list[k], TRUE)
        BY <2>4, <2>5 DEF LinksGrow, IsAdded
      <3>2. table.name[list[k]] \in exSignals'
        BY <2>1 DEF Names
      <3>3. table.signal[Link(list[k], TRUE).signal] = table.name[list[k]]
        BY <1>3, LinkParts
      <3> QED
        BY <3>1, <3>2, <3>3
    <2>6. ASSUME NEW i \in DOMAIN links', links'[i].unique
          PROVE  table'.signal[links'[i].signal] \in exSignals'
      <3>1. CASE i \in DOMAIN links
        BY <1>1, <2>1, <2>4, <2>6, <3>1 DEF LinkInv, LinksGrow
      <3>2. CASE i \notin DOMAIN links
        BY <1>1, <2>5, <3>2
      <3> QED
        BY <3>1, <3>2
    <2>a. \A i \in DOMAIN links : links'[i].unique => table.signal[links'[i].signal] \in exSignals
      BY <2>4 DEF LinkInv, LinksGrow
    <2>b. \A i \in DOMAIN links' : i \notin DOMAIN links => table.signal[links'[i].signal] \notin exSignals
      BY <2>2, <2>5
    <2>7. ASSUME NEW i \in DOMAIN links', NEW j \in DOMAIN links',
                 links'[i].unique, links'[j].unique, links'[i].signal = links'[j].signal
          PROVE  i = j
      <3>1. CASE i \in DOMAIN links /\ j \in DOMAIN links
        BY <2>4, <2>7, <3>1 DEF LinkInv, MappedOnce, LinksGrow
      <3>2. CASE i \in DOMAIN links /\ j \notin DOMAIN links
        BY <2>a, <2>b, <2>7, <3>2
      <3>3. CASE i \notin DOMAIN links /\ j \in DOMAIN links
        BY <2>a, <2>b, <2>7, <3>3
      <3>4. CASE i \notin DOMAIN links /\ j \notin DOMAIN links
        <4>1. PICK k \in DOMAIN list : /\ i = Len(links) + k
                                      /\ table.signal[links'[i].signal] = table.name[list[k]]
          BY <2>5, <3>4
        <4>2. PICK l \in DOMAIN list : /\ j = Len(links) + l
                                      /\ table.signal[links'[j].signal] = table.name[list[l]]
          BY <2>5, <3>4
        <4>3. k = l
          BY <2>3, <2>7, <4>1, <4>2
        <4> QED
          BY <4>1, <4>2, <4>3
      <3> QED
        BY <3>1, <3>2, <3>3, <3>4
    <2>8. MappedOnce'
      BY <2>7 DEF MappedOnce
    <2> QED
      BY <1>6, <2>4, <2>6, <2>8 DEF LinkInv, LinksGrow
  <1> QED
    BY <1>7, <1>8

-----------------------------------------------------------------------------
(* The invariant.                                                          *)

ControlOK ==
  /\ links \in Seq(LinksType) /\ exSignals \subseteq ToSet(table.signal)
  /\ call \in [name : CallNames \cup {"none", "destroyed"}, at : Nat \ {0}]
  /\ trail \in Seq(CallNames)
  /\ was \in [Signals -> Contents]

LEMMA TypesSplit ==
  TypeOK <=> /\ table \in Tables /\ ControlOK
             /\ heap \in Heaps
             /\ source \in [Entries -> Pointers] /\ target \in [Entries -> Pointers]
             /\ signal \in [Signals -> [ptr : Pointers, size : Nat]]
  BY DEF TypeOK, ControlOK, Heaps, Contents, LinksType

LEMMA TableStays ==
  ASSUME [Next]_vars
  PROVE  UNCHANGED table
  BY DEF Next, vars, maps, Generate, GenerateUnique, Begin, Turn, SignalMapOut, GroupOut,
         ReleaseSources, GroupIn, SignalMapIn, Return, Destroy, TargetWrites, SignalReset,
         SignalWritten, Others

LEMMA TurnTypes ==
  ASSUME ControlOK, LinkInv, NEW name \in CallNames, Turn(name)
  PROVE  ControlOK' /\ LinkInv'
  <1>1. UNCHANGED <<table, links, exSignals, trail, was>> /\ call' = [call EXCEPT !.at = @ + 1]
    BY DEF Turn, maps
  <1>2. call' \in [name : CallNames \cup {"none", "destroyed"}, at : Nat \ {0}]
    BY <1>1 DEF ControlOK
  <1> QED
    BY <1>1, <1>2, LinksStay, HoldersStay DEF ControlOK, LinksType, Signals, Entries

LEMMA ControlNext ==
  ASSUME TypeOK, MemoryInv, LinkInv, [Next]_vars
  PROVE  ControlOK' /\ LinkInv'
  <1> USE TypesSplit
  <1>a. /\ UNCHANGED table /\ Entries' = Entries /\ Signals' = Signals
        /\ LinksType' = LinksType
    BY TableStays, HoldersStay DEF LinksType
  <1>b. <<>> \in Contents /\ SignalContents \in [Signals -> Contents]
    BY ContentsTypes DEF SignalContents, Contents
  <1>c. ControlOK
    OBVIOUS
  <1>1. ASSUME NEW c \in {1, 2}, Generate(c) \/ GenerateUnique(c)
        PROVE  ControlOK' /\ LinkInv'
    <2>1. LinkInv' /\ links' \in Seq(LinksType) /\ exSignals' \subseteq ToSet(table.signal)
      BY <1>1, GenerateLinks, GenerateUniqueLinks
    <2>2. trail' = <<>> /\ UNCHANGED <<call, was>>
      BY <1>1 DEF Generate, GenerateUnique
    <2> QED
      BY <1>a, <1>c, <2>1, <2>2 DEF ControlOK
  <1>2. ASSUME NEW name \in CallNames, Begin(name)
        PROVE  ControlOK' /\ LinkInv'
    <2>1. /\ UNCHANGED <<links, exSignals, trail>> /\ call' = [name |-> name, at |-> 1]
          /\ was' = IF name = "mapIn" THEN SignalContents ELSE [g \in Signals |-> <<>>]
      BY <1>2 DEF Begin, maps
    <2>2. was' \in [Signals -> Contents]
      BY <1>b, <2>1
    <2>3. LinkInv'
      BY <1>a, <2>1, LinksStay
    <2>4. call' \in [name : CallNames \cup {"none", "destroyed"}, at : Nat \ {0}]
      BY <2>1
    <2> QED
      BY <1>a, <1>c, <2>1, <2>2, <2>3, <2>4 DEF ControlOK
  <1>3. ASSUME SignalMapOut \/ GroupOut \/ ReleaseSources \/ GroupIn \/ SignalMapIn
        PROVE  ControlOK' /\ LinkInv'
    <2>1. \E name \in CallNames : Turn(name)
      BY <1>3 DEF SignalMapOut, GroupOut, ReleaseSources, GroupIn, SignalMapIn, CallNames
    <2> QED
      BY <1>c, <2>1, TurnTypes
  <1>4. CASE Return
    <2>1. UNCHANGED <<links, exSignals, was>>
      BY <1>4 DEF Return, maps
    <2>2. call' \in [name : CallNames \cup {"none", "destroyed"}, at : Nat \ {0}]
      BY <1>4 DEF Return, CallNames
    <2>3. call.name \in CallNames
      BY <1>4, <1>c DEF Return, Idle, ControlOK
    <2>4. trail' \in Seq(CallNames)
      <3>1. trail' \in {trail, <<call.name>>, Append(trail, call.name), <<>>}
        BY <1>4 DEF Return
      <3>2. trail \in Seq(CallNames)
        BY <1>c DEF ControlOK
      <3>3. <<call.name>> \in Seq(CallNames) /\ <<>> \in Seq(CallNames)
        BY <2>3
      <3>4. Append(trail, call.name) \in Seq(CallNames)
        BY <2>3, <3>2, AppendProperties
      <3> QED
        BY <3>1, <3>2, <3>3, <3>4
    <2>5. LinkInv'
      BY <1>a, <2>1, LinksStay
    <2> QED
      BY <1>a, <1>c, <2>1, <2>2, <2>4, <2>5 DEF ControlOK
  <1>5. CASE Destroy
    <2>1. UNCHANGED <<links, exSignals, trail, was>> /\ call' = [name |-> "destroyed", at |-> 1]
      BY <1>5 DEF Destroy, maps
    <2>2. LinkInv'
      BY <1>a, <2>1, LinksStay
    <2>3. call' \in [name : CallNames \cup {"none", "destroyed"}, at : Nat \ {0}]
      BY <2>1
    <2> QED
      BY <1>a, <1>c, <2>1, <2>2, <2>3 DEF ControlOK
  <1>6. CASE Others
    <2>1. /\ UNCHANGED <<links, exSignals, call>> /\ trail' = <<>>
          /\ was' = [g \in Signals |-> <<>>]
      BY <1>6 DEF Others, maps
    <2>2. LinkInv'
      BY <1>a, <2>1, LinksStay
    <2>3. was' \in [Signals -> Contents]
      BY <1>b, <2>1
    <2> QED
      BY <1>a, <1>c, <2>1, <2>2, <2>3 DEF ControlOK
  <1>7. CASE UNCHANGED vars
    <2>1. UNCHANGED <<links, exSignals, call, trail, was>>
      BY <1>7 DEF vars, maps
    <2>2. LinkInv'
      BY <1>a, <2>1, LinksStay
    <2> QED
      BY <1>a, <1>c, <2>1, <2>2 DEF ControlOK
  <1>8. Next => \/ \E c \in {1, 2} : Generate(c) \/ GenerateUnique(c)
                \/ \E name \in CallNames : Begin(name)
                \/ SignalMapOut \/ GroupOut \/ ReleaseSources \/ GroupIn \/ SignalMapIn
                \/ Return \/ Destroy \/ Others
    BY DEF Next, TargetWrites, SignalReset, SignalWritten
  <1> QED
    BY <1>1, <1>2, <1>3, <1>4, <1>5, <1>6, <1>7, <1>8

LEMMA TypesInit ==
  ASSUME Init
  PROVE  TypeOK /\ MemoryInv /\ LinkInv
  <1>1. MemoryInv
    BY MemoryInit
  <1>2. /\ table \in Tables /\ links = <<>> /\ exSignals = {} /\ trail = <<>>
        /\ call = [name |-> "none", at |-> 1] /\ was = [g \in Signals |-> <<>>]
    BY DEF Init
  <1>3. ControlOK
    BY <1>2 DEF ControlOK, Contents
  <1>4. LinkInv
    BY <1>2 DEF LinkInv, MappedOnce
  <1> QED
    BY <1>1, <1>2, <1>3, <1>4, TypesSplit DEF MemoryInv

LEMMA TypesNext ==
  ASSUME TypeOK, MemoryInv, LinkInv, [Next]_vars
  PROVE  (TypeOK /\ MemoryInv /\ LinkInv)'
  <1>1. MemoryInv' /\ ControlOK' /\ LinkInv'
    BY MemoryNext, ControlNext
  <1>2. table' \in Tables'
    BY TableStays DEF TypeOK
  <1>3. TypeOK' <=> /\ table' \in Tables' /\ ControlOK'
                    /\ (heap \in Heaps)'
                    /\ (source \in [Entries -> Pointers])' /\ (target \in [Entries -> Pointers])'
                    /\ (signal \in [Signals -> [ptr : Pointers, size : Nat]])'
    BY DEF TypeOK, ControlOK, Heaps, Contents, LinksType
  <1> QED
    BY <1>1, <1>2, <1>3 DEF MemoryInv

LEMMA MemoryIsSound ==
  ASSUME TypeOK, MemoryInv
  PROVE  MemoryHolds
  <1>1. Owned(Ownership, heap) /\ BufferHoldsContent /\ Ownership \in [Holders -> Pointers]
    BY OwnershipType DEF MemoryInv
  <1>2. OwnedOnce
    <2> SUFFICES ASSUME call.name # "destroyed"
                 PROVE  OwnedOnce
      BY DEF OwnedOnce
    <2>1. \A h \in Holders : Ownership[h] = Held(h)
      BY DEF Ownership, Kept
    <2>2. \A h \in Holding : h \in Holders /\ Held(h) = Ownership[h] /\ Ownership[h] # Null
      BY <2>1 DEF Holding
    <2>3. \A h \in Holding : heap[Held(h)] # Freed
      BY <1>1, <2>2 DEF Owned
    <2>4. \A h, i \in Holding : Held(h) = Held(i) => h = i
      BY <1>1, <2>2 DEF Owned
    <2>5. \A h \in Holders : Ownership[h] # Null => h \in Holding /\ Held(h) = Ownership[h]
      BY <2>1 DEF Holding
    <2>6. \A b \in Blocks : heap[b] # Freed => \E h \in Holding : Held(h) = b
      BY <1>1, <2>5, NullAssumption DEF Owned
    <2> QED
      BY <2>3, <2>4, <2>6 DEF OwnedOnce
  <1>3. DestroyReleasesOwn
    <2> SUFFICES ASSUME call.name = "destroyed"
                 PROVE  {b \in Blocks : heap[b] # Freed} = {Held(h) : h \in Remaining}
      BY DEF DestroyReleasesOwn
    <2>1. \A h \in Holders : Ownership[h] = IF IsReleased(h) THEN Null ELSE Held(h)
      BY DEF Ownership, Kept
    <2>2. ASSUME NEW h \in Holders
          PROVE  h \in Remaining <=> ~IsReleased(h) /\ Held(h) # Null
      <3>1. h.kind \in {"source", "target", "signal"}
        BY DEF Holders
      <3>2. CASE h.kind = "source"
        BY <3>2 DEF Remaining, IsReleased
      <3>3. CASE h.kind = "signal"
        BY <3>3 DEF Remaining, Holding, IsReleased
      <3>4. CASE h.kind = "target"
        BY <3>4 DEF Remaining, Holding, IsReleased, ToTarget
      <3> QED
        BY <3>1, <3>2, <3>3, <3>4
    <2>3. \A h \in Remaining : h \in Holders
      BY DEF Remaining, Holding
    <2>4. \A h \in Remaining : h \in Holders /\ Ownership[h] = Held(h) /\ Ownership[h] # Null
      BY <2>1, <2>2, <2>3
    <2>5. \A h \in Holders : Ownership[h] # Null => h \in Remaining /\ Ownership[h] = Held(h)
      BY <2>1, <2>2
    <2>6. \A b \in Blocks : heap[b] # Freed => \E h \in Remaining : Held(h) = b
      BY <1>1, <2>5, NullAssumption DEF Owned
    <2>7. \A h \in Remaining : Held(h) \in Blocks /\ heap[Held(h)] # Freed
      BY <1>1, <2>4 DEF Owned, Pointers
    <2> QED
      BY <2>6, <2>7
  <1> QED
    BY <1>1, <1>2, <1>3 DEF MemoryHolds

(* Memory is sound through every order of the calls and the writes of the  *)
(* others, for every table: each allocated block has one pointer to it,    *)
(* destroy frees what the library owns, no buffer is written beyond.       *)
THEOREM MemoryIsOwned == Spec => []MemoryHolds
  <1>1. Init => TypeOK /\ MemoryInv /\ LinkInv
    BY TypesInit
  <1>2. TypeOK /\ MemoryInv /\ LinkInv /\ [Next]_vars => (TypeOK /\ MemoryInv /\ LinkInv)'
    BY TypesNext
  <1>3. TypeOK /\ MemoryInv /\ LinkInv => MemoryHolds
    BY MemoryIsSound
  <1> QED
    BY <1>1, <1>2, <1>3, PTL DEF Spec

(* The maps made with a set never map a signal twice, in whatever order    *)
(* they are made and however many of them fail.                            *)
THEOREM SignalsMappedOnce == Spec => []MappedOnce
  <1>1. Init => TypeOK /\ MemoryInv /\ LinkInv
    BY TypesInit
  <1>2. TypeOK /\ MemoryInv /\ LinkInv /\ [Next]_vars => (TypeOK /\ MemoryInv /\ LinkInv)'
    BY TypesNext
  <1>3. LinkInv => MappedOnce
    BY DEF LinkInv
  <1> QED
    BY <1>1, <1>2, <1>3, PTL DEF Spec

-----------------------------------------------------------------------------
(* From the signals to the targets: how far the calls have come.           *)

Carried(i) == Has(AtSource(links[i].source)) = Has(AtSignal(links[i].signal))
Delivered(i) ==
  ToTarget(links[i].source) =>
    Has(AtTarget(links[i].source)) =
      Convert(links[i].source, Has(AtSignal(links[i].signal)))

OutInv ==
  /\ call.name = "mapOut" => \A i \in DOMAIN links : i < call.at => Carried(i)
  /\ trail = <<"mapOut">> /\ call.name \in {"none", "groupOut"} =>
       \A i \in DOMAIN links : Carried(i)
  /\ trail = <<"mapOut">> /\ call.name = "groupOut" =>
       \A i \in DOMAIN links : links[i].source < call.at => Delivered(i)
  /\ trail = <<"mapOut", "groupOut">> /\ Idle =>
       \A i \in DOMAIN links : Delivered(i)

LEMMA LinkTypes ==
  ASSUME TypeOK
  PROVE  /\ DOMAIN links = 1..Len(links) /\ Len(links) \in Nat
         /\ \A i \in DOMAIN links :
              /\ links[i].source \in Entries /\ links[i].signal \in Signals
              /\ AtSource(links[i].source) \in Holders
              /\ AtTarget(links[i].source) \in Holders
              /\ AtSignal(links[i].signal) \in Holders
  <1>1. links \in Seq(LinksType)
    BY DEF TypeOK, LinksType
  <1>2. \A i \in DOMAIN links : links[i].source \in Entries /\ links[i].signal \in Signals
    <2>1. \A i \in DOMAIN links : links[i] \in LinksType
      BY <1>1
    <2> QED
      BY <2>1 DEF LinksType
  <1>3. /\ \A e \in Entries : AtSource(e) \in Holders /\ AtTarget(e) \in Holders
        /\ \A g \in Signals : AtSignal(g) \in Holders
    BY DEF AtSource, AtTarget, AtSignal, Holders
  <1> QED
    BY <1>1, <1>2, <1>3, LenProperties

LEMMA OutSignalMap ==
  ASSUME TypeOK, MemoryInv, LinkInv, OutInv, SignalMapOut
  PROVE  OutInv'
  <1>1. /\ call.name = "mapOut" /\ call'.name = "mapOut" /\ call'.at = call.at + 1
        /\ call.at \in Nat /\ UNCHANGED links
    BY DEF SignalMapOut, Turn, maps, TypeOK
  <1>2. PICK e, g : links[call.at].source = e /\ links[call.at].signal = g
    OBVIOUS
  <1>3. /\ Has(AtSource(e))' = Has(AtSignal(g))
        /\ \A h \in Holders \ {AtSource(e)} : Has(h)' = Has(h)
    BY <1>2, SignalMapOutCopies
  <1>4. call.at \in DOMAIN links
    BY LinkAt DEF SignalMapOut
  <1>5. ASSUME NEW i \in DOMAIN links', i < call'.at
        PROVE  Carried(i)'
    <2>1. i \in DOMAIN links /\ i \in Nat /\ (i < call.at \/ i = call.at)
      BY <1>1, <1>5, LinkTypes
    <2>2. PICK f, d : links[i].source = f /\ links[i].signal = d
      OBVIOUS
    <2>3. AtSignal(d) \in Holders \ {AtSource(e)} /\ AtSource(f) \in Holders
      BY <2>1, <2>2, LinkTypes DEF AtSignal, AtSource
    <2>4. Has(AtSignal(d))' = Has(AtSignal(d))
      BY <1>3, <2>3
    <2>5. Has(AtSource(f))' = Has(AtSignal(d))
      <3>1. CASE i < call.at
        <4>1. Has(AtSource(f)) = Has(AtSignal(d))
          BY <1>1, <2>1, <2>2, <3>1 DEF OutInv, Carried
        <4>2. f # e
          BY <1>2, <1>4, <2>1, <2>2, <3>1 DEF LinkInv
        <4>3. AtSource(f) # AtSource(e)
          BY <4>2 DEF AtSource
        <4> QED
          BY <1>3, <2>3, <4>1, <4>3
      <3>2. CASE i = call.at
        BY <1>2, <1>3, <2>2, <3>2
      <3> QED
        BY <2>1, <3>1, <3>2
    <2> QED
      BY <1>1, <2>2, <2>4, <2>5 DEF Carried
  <1> QED
    BY <1>1, <1>5 DEF OutInv, Idle

LEMMA OutGroup ==
  ASSUME TypeOK, MemoryInv, LinkInv, OutInv, GroupOut
  PROVE  OutInv'
  <1>1. /\ call.name = "groupOut" /\ call'.name = "groupOut" /\ call'.at = call.at + 1
        /\ call.at \in Nat /\ UNCHANGED <<links, table, trail>>
    BY DEF GroupOut, Turn, maps, TypeOK
  <1>2. PICK e \in Entries : call.at = e
    BY EntryAt DEF GroupOut
  <1>3. /\ Has(AtTarget(e))' = IF ToTarget(e) THEN Convert(e, Has(AtSource(e)))
                               ELSE Has(AtTarget(e))
        /\ \A h \in Holders \ {AtTarget(e)} : Has(h)' = Has(h)
    BY <1>2, GroupOutCopies
  <1>4. ASSUME trail = <<"mapOut">>, NEW i \in DOMAIN links
        PROVE  Carried(i)' /\ (links[i].source < call.at + 1 => Delivered(i)')
    <2>1. PICK f \in Entries, d \in Signals : links[i].source = f /\ links[i].signal = d
      BY LinkTypes
    <2>2. /\ AtSource(f) \in Holders \ {AtTarget(e)} /\ AtSignal(d) \in Holders \ {AtTarget(e)}
          /\ AtTarget(f) \in Holders
      BY <2>1, LinkTypes DEF AtSignal, AtSource, AtTarget
    <2>3. /\ Has(AtSource(f))' = Has(AtSource(f)) /\ Has(AtSignal(d))' = Has(AtSignal(d))
          /\ Has(AtSource(f)) = Has(AtSignal(d))
      BY <1>1, <1>3, <1>4, <2>1, <2>2 DEF OutInv, Carried
    <2>4. Carried(i)'
      BY <1>1, <2>1, <2>3 DEF Carried
    <2>5. /\ ToTarget(f)' <=> ToTarget(f)
          /\ \A c : Convert(f, c)' = Convert(f, c)
      BY <1>1 DEF ToTarget, Convert
    <2>6. ASSUME f < call.at + 1, ToTarget(f)
          PROVE  Has(AtTarget(f))' = Convert(f, Has(AtSignal(d)))
      <3>1. CASE f = e
        BY <1>3, <2>3, <2>6, <3>1
      <3>2. CASE f # e
        <4>1. f < call.at
          <5>1. f \in Nat /\ e \in Nat
            <6>1. Entries = 1..Len(table.dir)
              BY TableParts DEF TypeOK
            <6> QED
              BY <6>1
          <5> QED
            BY <1>2, <2>6, <3>2, <5>1
        <4>2. Has(AtTarget(f)) = Convert(f, Has(AtSignal(d)))
          BY <1>1, <1>4, <2>1, <2>6, <4>1 DEF OutInv, Delivered
        <4>3. AtTarget(f) # AtTarget(e)
          BY <3>2 DEF AtTarget
        <4> QED
          BY <1>3, <2>2, <4>2, <4>3
      <3> QED
        BY <3>1, <3>2
    <2>7. links[i].source < call.at + 1 => Delivered(i)'
      BY <1>1, <2>1, <2>3, <2>5, <2>6 DEF Delivered
    <2> QED
      BY <2>4, <2>7
  <1> QED
    BY <1>1, <1>4 DEF OutInv, Idle

(* Where memory stays, so does what was carried and delivered.             *)
LEMMA OutStays ==
  ASSUME TypeOK, UNCHANGED <<table, links>>, \A h \in Holders : Has(h)' = Has(h)
  PROVE  \A i \in DOMAIN links : (Carried(i)' <=> Carried(i)) /\ (Delivered(i)' <=> Delivered(i))
  <1> SUFFICES ASSUME NEW i \in DOMAIN links
               PROVE  (Carried(i)' <=> Carried(i)) /\ (Delivered(i)' <=> Delivered(i))
    OBVIOUS
  <1>1. PICK e \in Entries, g \in Signals : links[i].source = e /\ links[i].signal = g
    BY LinkTypes
  <1>2. /\ Has(AtSource(e))' = Has(AtSource(e)) /\ Has(AtTarget(e))' = Has(AtTarget(e))
        /\ Has(AtSignal(g))' = Has(AtSignal(g))
    BY <1>1, LinkTypes
  <1>3. /\ ToTarget(e)' <=> ToTarget(e)
        /\ \A c : Convert(e, c)' = Convert(e, c)
    BY DEF ToTarget, Convert
  <1> QED
    BY <1>1, <1>2, <1>3 DEF Carried, Delivered

LEMMA OutReturn ==
  ASSUME TypeOK, MemoryInv, OutInv, Return
  PROVE  OutInv'
  <1>1. /\ UNCHANGED <<memory, table, links>>
        /\ call.name # "none" /\ call.name # "destroyed" /\ call.at > Count(call.name)
        /\ IF call.name = "release"
           THEN call' = [name |-> "groupIn", at |-> 1]
           ELSE call' = [name |-> "none", at |-> 1]
    BY DEF Return, maps, Idle
  <1>2. \A i \in DOMAIN links : (Carried(i)' <=> Carried(i)) /\ (Delivered(i)' <=> Delivered(i))
    BY <1>1, MemoryUntouched, OutStays
  <1>3. CASE call.name = "release"
    BY <1>1, <1>3 DEF OutInv, Idle
  <1>4. CASE call.name = "mapOut"
    <2>1. \A i \in DOMAIN links : i < call.at
      BY <1>1, <1>4, LinkTypes DEF Count, TypeOK
    <2>2. \A i \in DOMAIN links' : Carried(i)'
      BY <1>1, <1>2, <1>4, <2>1 DEF OutInv
    <2>3. trail' # <<"mapOut", "groupOut">>
      BY <1>4 DEF Return
    <2> QED
      BY <1>1, <1>4, <2>2, <2>3 DEF OutInv, Idle
  <1>5. CASE call.name = "groupOut"
    <2>1. Cardinality(Entries) < call.at /\ Cardinality(Entries) = Len(table.dir)
      <3>1. Len(table.dir) \in Nat /\ Entries = 1..Len(table.dir)
        BY TableParts DEF TypeOK
      <3>2. Cardinality(Entries) = Len(table.dir)
        BY <3>1, FS_Interval
      <3> QED
        BY <1>1, <1>5, <3>1, <3>2 DEF Count, TypeOK
    <2>2. \A i \in DOMAIN links : links[i].source < call.at
      <3>1. Len(table.dir) \in Nat /\ Entries = 1..Len(table.dir) /\ call.at \in Nat
        BY TableParts DEF TypeOK
      <3> SUFFICES ASSUME NEW i \in DOMAIN links
                   PROVE  links[i].source < call.at
        OBVIOUS
      <3>2. links[i].source \in Entries
        BY LinkTypes
      <3> QED
        BY <2>1, <3>1, <3>2
    <2>3. trail' # <<"mapOut">>
      <3>1. trail' = IF trail \in {<<"mapOut">>, <<"groupIn">>} THEN Append(trail, "groupOut")
                     ELSE <<>>
        BY <1>5 DEF Return
      <3> QED
        BY <3>1
    <2>4. trail' = <<"mapOut", "groupOut">> => trail = <<"mapOut">>
      <3>1. trail' = IF trail \in {<<"mapOut">>, <<"groupIn">>} THEN Append(trail, "groupOut")
                     ELSE <<>>
        BY <1>5 DEF Return
      <3> QED
        BY <3>1
    <2>5. trail' = <<"mapOut", "groupOut">> => \A i \in DOMAIN links' : Delivered(i)'
      BY <1>1, <1>2, <1>5, <2>2, <2>4 DEF OutInv
    <2> QED
      BY <1>1, <1>5, <2>3, <2>5 DEF OutInv, Idle
  <1>6. CASE call.name \in {"groupIn", "mapIn"}
    <2>1. trail' # <<"mapOut">> /\ trail' # <<"mapOut", "groupOut">>
      <3>1. CASE call.name = "groupIn"
        BY <3>1 DEF Return
      <3>2. CASE call.name = "mapIn"
        <4>1. trail' = IF trail \in {<<"mapOut">>, <<"groupIn">>} THEN Append(trail, "mapIn")
                       ELSE <<>>
          BY <3>2 DEF Return
        <4>2. trail' = <<>> \/ (Len(trail') = 2 /\ trail'[2] = "mapIn")
          BY <4>1
        <4> QED
          BY <4>2
      <3> QED
        BY <1>6, <3>1, <3>2
    <2> QED
      BY <1>1, <1>6, <2>1 DEF OutInv, Idle
  <1>7. call.name \in {"release", "mapOut", "groupOut", "groupIn", "mapIn"}
    BY <1>1 DEF TypeOK, CallNames
  <1> QED
    BY <1>3, <1>4, <1>5, <1>6, <1>7

LEMMA OutNext ==
  ASSUME TypeOK, MemoryInv, LinkInv, OutInv, [Next]_vars
  PROVE  OutInv'
  <1>1. ASSUME trail' = <<>>, UNCHANGED call, call.name # "mapOut"
        PROVE  OutInv'
    <2>1. trail' # <<"mapOut">> /\ trail' # <<"mapOut", "groupOut">>
      BY <1>1
    <2> QED
      BY <1>1, <2>1 DEF OutInv
  <1>2. ASSUME NEW c \in {1, 2}, Generate(c) \/ GenerateUnique(c)
        PROVE  OutInv'
    BY <1>1, <1>2 DEF Generate, GenerateUnique, Idle
  <1>3. ASSUME NEW name \in CallNames, Begin(name)
        PROVE  OutInv'
    <2>1. /\ UNCHANGED <<memory, table, links, trail>> /\ Idle
          /\ call'.name = name /\ call'.at = 1
      BY <1>3 DEF Begin, maps
    <2>2. name # "none" /\ name # "destroyed" /\ call.name # "destroyed"
      BY <2>1 DEF CallNames, Idle
    <2>3. \A i \in DOMAIN links : (Carried(i)' <=> Carried(i)) /\ (Delivered(i)' <=> Delivered(i))
      BY <2>1, <2>2, MemoryUntouched, OutStays
    <2>4. \A i \in DOMAIN links : ~(i < 1) /\ ~(links[i].source < 1)
      <3>1. Len(table.dir) \in Nat /\ Entries = 1..Len(table.dir)
        BY TableParts DEF TypeOK
      <3> SUFFICES ASSUME NEW i \in DOMAIN links
                   PROVE  ~(i < 1) /\ ~(links[i].source < 1)
        OBVIOUS
      <3>2. links[i].source \in 1..Len(table.dir) /\ i \in 1..Len(links)
        BY <3>1, LinkTypes
      <3> QED
        BY <3>1, <3>2
    <2> QED
      BY <2>1, <2>2, <2>3, <2>4 DEF OutInv, Idle
  <1>4. CASE SignalMapOut
    BY <1>4, OutSignalMap
  <1>5. CASE GroupOut
    BY <1>5, OutGroup
  <1>6. ASSUME ReleaseSources \/ GroupIn \/ SignalMapIn
        PROVE  OutInv'
    <2>1. call'.name \in {"release", "groupIn", "mapIn"}
      BY <1>6 DEF ReleaseSources, GroupIn, SignalMapIn, Turn, TypeOK
    <2> QED
      BY <2>1 DEF OutInv, Idle
  <1>7. CASE Return
    BY <1>7, OutReturn
  <1>8. CASE Destroy
    <2>1. call'.name = "destroyed"
      BY <1>8 DEF Destroy
    <2> QED
      BY <2>1 DEF OutInv, Idle
  <1>9. CASE Others
    BY <1>1, <1>9 DEF Others
  <1>10. CASE UNCHANGED vars
    <2>1. UNCHANGED <<memory, table, links, call, trail>>
      BY <1>10 DEF vars, maps
    <2>2. \A i \in DOMAIN links : (Carried(i)' <=> Carried(i)) /\ (Delivered(i)' <=> Delivered(i))
      BY <2>1, MemoryUntouched, OutStays
    <2> QED
      BY <2>1, <2>2 DEF OutInv, Idle
  <1>11. Next => \/ \E c \in {1, 2} : Generate(c) \/ GenerateUnique(c)
                 \/ \E name \in CallNames : Begin(name)
                 \/ SignalMapOut \/ GroupOut \/ ReleaseSources \/ GroupIn \/ SignalMapIn
                 \/ Return \/ Destroy \/ Others
    BY DEF Next, TargetWrites, SignalReset, SignalWritten
  <1> QED
    BY <1>2, <1>3, <1>4, <1>5, <1>6, <1>7, <1>8, <1>9, <1>10, <1>11

LEMMA OutDelivered ==
  ASSUME TypeOK, MemoryInv, OutInv
  PROVE  OutDelivers
  <1> SUFFICES ASSUME Idle, trail = <<"mapOut", "groupOut">>, NEW l \in ToSet(links),
                      ToTarget(l.source)
               PROVE  Content(target[l.source]) = Convert(l.source, SignalContents[l.signal])
    BY DEF OutDelivers
  <1>1. PICK i \in DOMAIN links : l = links[i]
    BY DEF ToSet
  <1>2. Has(AtTarget(l.source)) = Convert(l.source, Has(AtSignal(l.signal)))
    BY <1>1 DEF OutInv, Delivered
  <1>3. l.source \in Entries /\ l.signal \in Signals
    BY <1>1, LinkTypes
  <1>4. call.name # "destroyed"
    BY DEF Idle
  <1> QED
    BY <1>2, <1>3, <1>4, ContentsTypes

(* marshal_signalmap_out, then marshal_group_out, turn by turn, deliver    *)
(* every signal to every target mapped to it, for every table and however  *)
(* many calls came before.                                                 *)
THEOREM OutIsDelivered == Spec => []OutDelivers
  <1>1. Init => TypeOK /\ MemoryInv /\ LinkInv /\ OutInv
    <2>1. ASSUME Init
          PROVE  OutInv
      <3>1. links = <<>> /\ call.name = "none"
        BY <2>1 DEF Init
      <3> QED
        BY <3>1 DEF OutInv
    <2> QED
      BY <2>1, TypesInit
  <1>2. /\ TypeOK /\ MemoryInv /\ LinkInv /\ OutInv
        /\ [Next]_vars
        => (TypeOK /\ MemoryInv /\ LinkInv /\ OutInv)'
    BY TypesNext, OutNext
  <1>3. TypeOK /\ MemoryInv /\ LinkInv /\ OutInv => OutDelivers
    BY OutDelivered
  <1> QED
    BY <1>1, <1>2, <1>3, PTL DEF Spec

-----------------------------------------------------------------------------
(* From the targets to the signals.                                        *)

LEMMA ContentsAssociate ==
  ASSUME NEW a \in Contents, NEW b \in Contents, NEW c \in Contents
  PROVE  (a \o b) \o c = a \o (b \o c)
  BY ConcatAssociative DEF Contents

(* What a signal is due from a link, and what it has got when the first n  *)
(* links have been gone through.                                           *)
Due(g, l) ==
  IF l.signal = g /\ ToSource(l.source)
  THEN Convert(l.source, Has(AtTarget(l.source))) ELSE <<>>
Dues(g, n) == [i \in 1..n |-> Due(g, links[i])]
Gained(g, n) == Has(AtSignal(g)) = was[g] \o FlattenSeq(Dues(g, n))
(* A source has what its target sends, or nothing.                         *)
Arrived(e) ==
  Has(AtSource(e)) = IF ToSource(e) THEN Convert(e, Has(AtTarget(e))) ELSE <<>>

InInv ==
  /\ call.name = "release" =>
       \A e \in Entries : e < call.at => Has(AtSource(e)) = <<>>
  /\ call.name = "groupIn" =>
       \A e \in Entries : IF e < call.at THEN Arrived(e) ELSE Has(AtSource(e)) = <<>>
  /\ trail = <<"groupIn">> /\ call.name \in {"none", "mapIn"} =>
       \A e \in Entries : Arrived(e)
  /\ trail = <<"groupIn">> /\ call.name = "mapIn" =>
       call.at <= Len(links) + 1 /\ \A g \in Signals : Gained(g, call.at - 1)
  /\ trail = <<"groupIn", "mapIn">> /\ Idle =>
       \A g \in Signals : Gained(g, Len(links))

LEMMA EntryNumbers ==
  ASSUME TypeOK
  PROVE  /\ Len(table.dir) \in Nat /\ Entries = 1..Len(table.dir)
         /\ Cardinality(Entries) = Len(table.dir)
         /\ call.at \in Nat /\ call.at >= 1
  <1>1. Len(table.dir) \in Nat /\ Entries = 1..Len(table.dir)
    BY TableParts DEF TypeOK
  <1>2. Cardinality(Entries) = Len(table.dir)
    BY <1>1, FS_Interval
  <1>3. call.at \in Nat /\ call.at >= 1
    BY DEF TypeOK
  <1> QED
    BY <1>1, <1>2, <1>3

LEMMA DueTypes ==
  ASSUME TypeOK, MemoryInv, NEW g \in Signals
  PROVE  /\ \A i \in DOMAIN links : Due(g, links[i]) \in Contents
         /\ \A n \in 0..Len(links) : Dues(g, n) \in [1..n -> Contents]
  <1>1. ASSUME NEW i \in DOMAIN links
        PROVE  Due(g, links[i]) \in Contents
    <2>1. PICK e \in Entries : links[i].source = e
      BY LinkTypes
    <2>2. Has(AtTarget(e)) \in Contents /\ <<>> \in Contents
      BY <2>1, LinkTypes, ContentsTypes DEF Contents
    <2>3. Convert(e, Has(AtTarget(e))) \in Contents
      BY <2>2, ConvertType
    <2> QED
      BY <2>1, <2>2, <2>3 DEF Due
  <1>2. ASSUME NEW n \in 0..Len(links)
        PROVE  Dues(g, n) \in [1..n -> Contents]
    <2>1. \A i \in 1..n : i \in DOMAIN links
      BY LinkTypes
    <2> QED
      BY <1>1, <2>1 DEF Dues
  <1> QED
    BY <1>1, <1>2

(* Where the targets stay, so does what the signals are due; where memory  *)
(* does, so does what has arrived, and where was does, what they gained.   *)
LEMMA DuesStay ==
  ASSUME TypeOK, UNCHANGED <<table, links>>,
         \A e \in Entries : Has(AtTarget(e))' = Has(AtTarget(e))
  PROVE  \A g : /\ \A i \in DOMAIN links : Due(g, links[i])' = Due(g, links[i])
                /\ \A n \in 0..Len(links) : FlattenSeq(Dues(g, n))' = FlattenSeq(Dues(g, n))
  <1>1. ASSUME NEW g, NEW i \in DOMAIN links
        PROVE  Due(g, links[i])' = Due(g, links[i])
    <2>1. PICK e \in Entries : links[i].source = e
      BY LinkTypes
    <2>2. /\ ToSource(e)' <=> ToSource(e)
          /\ \A c : Convert(e, c)' = Convert(e, c)
      BY DEF ToSource, Convert
    <2>3. Has(AtTarget(e))' = Has(AtTarget(e))
      BY <2>1
    <2> QED
      BY <2>1, <2>2, <2>3 DEF Due
  <1>2. ASSUME NEW g, NEW n \in 0..Len(links)
        PROVE  FlattenSeq(Dues(g, n))' = FlattenSeq(Dues(g, n))
    <2>1. \A i \in 1..n : i \in DOMAIN links
      BY LinkTypes
    <2>2. Dues(g, n)' = Dues(g, n)
      BY <1>1, <2>1 DEF Dues
    <2> QED
      BY <2>2 DEF FlattenSeq
  <1> QED
    BY <1>1, <1>2

LEMMA InStays ==
  ASSUME TypeOK, UNCHANGED <<table, links>>, \A h \in Holders : Has(h)' = Has(h)
  PROVE  /\ \A e \in Entries : /\ Arrived(e)' <=> Arrived(e)
                               /\ Has(AtSource(e))' = Has(AtSource(e))
         /\ UNCHANGED was => \A g \in Signals : \A n \in 0..Len(links) :
                               Gained(g, n)' <=> Gained(g, n)
  <1>1. /\ \A e \in Entries : AtSource(e) \in Holders /\ AtTarget(e) \in Holders
        /\ \A g \in Signals : AtSignal(g) \in Holders
    BY DEF AtSource, AtTarget, AtSignal, Holders
  <1>2. ASSUME NEW e \in Entries
        PROVE  Arrived(e)' <=> Arrived(e)
    <2>1. /\ ToSource(e)' <=> ToSource(e)
          /\ \A c : Convert(e, c)' = Convert(e, c)
      BY DEF ToSource, Convert
    <2> QED
      BY <1>1, <2>1 DEF Arrived
  <1>3. ASSUME UNCHANGED was, NEW g \in Signals, NEW n \in 0..Len(links)
        PROVE  Gained(g, n)' <=> Gained(g, n)
    <2>1. FlattenSeq(Dues(g, n))' = FlattenSeq(Dues(g, n))
      BY <1>1, DuesStay
    <2> QED
      BY <1>1, <1>3, <2>1 DEF Gained
  <1> QED
    BY <1>1, <1>2, <1>3

LEMMA InRelease ==
  ASSUME TypeOK, MemoryInv, InInv, ReleaseSources
  PROVE  InInv'
  <1>1. /\ call.name = "release" /\ call'.name = "release" /\ call'.at = call.at + 1
        /\ Entries' = Entries
    BY DEF ReleaseSources, Turn, maps, TypeOK, Entries
  <1>2. PICK e \in Entries : call.at = e
    BY EntryAt DEF ReleaseSources
  <1>3. /\ Has(AtSource(e))' = <<>>
        /\ \A h \in Holders \ {AtSource(e)} : Has(h)' = Has(h)
    BY <1>2, ReleaseSourcesFrees
  <1>4. ASSUME NEW f \in Entries, f < call'.at
        PROVE  Has(AtSource(f))' = <<>>
    <2>1. CASE f = e
      BY <1>3, <2>1
    <2>2. CASE f # e
      <3>1. f < call.at
        BY <1>1, <1>2, <1>4, <2>2, EntryNumbers
      <3>2. AtSource(f) \in Holders \ {AtSource(e)}
        BY <2>2 DEF AtSource, Holders
      <3> QED
        BY <1>1, <1>3, <3>1, <3>2 DEF InInv
    <2> QED
      BY <2>1, <2>2
  <1> QED
    BY <1>1, <1>4 DEF InInv, Idle

LEMMA AmongGroup ==
  ASSUME TypeOK, MemoryInv, InInv, GroupIn
  PROVE  InInv'
  <1>1. /\ call.name = "groupIn" /\ call'.name = "groupIn" /\ call'.at = call.at + 1
        /\ Entries' = Entries /\ UNCHANGED table
    BY DEF GroupIn, Turn, maps, TypeOK, Entries
  <1>2. PICK e \in Entries : call.at = e
    BY EntryAt DEF GroupIn
  <1>3. /\ Has(AtSource(e))' = IF ToSource(e) THEN Convert(e, Has(AtTarget(e)))
                               ELSE Has(AtSource(e))
        /\ \A h \in Holders \ {AtSource(e)} : Has(h)' = Has(h)
    BY <1>2, GroupInCopies
  <1>4. ASSUME NEW f \in Entries
        PROVE  IF f < call'.at THEN Arrived(f)' ELSE Has(AtSource(f))' = <<>>
    <2>1. Has(AtTarget(f))' = Has(AtTarget(f))
      <3>1. AtTarget(f) \in Holders \ {AtSource(e)}
        BY DEF AtTarget, AtSource, Holders
      <3> QED
        BY <1>3, <3>1
    <2>2. /\ ToSource(f)' <=> ToSource(f)
          /\ \A c : Convert(f, c)' = Convert(f, c)
      BY <1>1 DEF ToSource, Convert
    <2>3. CASE f = e
      <3>1. f < call'.at /\ ~(f < call.at)
        BY <1>1, <1>2, <2>3, EntryNumbers
      <3>2. Has(AtSource(e)) = <<>>
        BY <1>1, <2>3, <3>1 DEF InInv
      <3>3. Arrived(f)'
        BY <1>3, <2>1, <2>2, <2>3, <3>2 DEF Arrived
      <3> QED
        BY <3>1, <3>3
    <2>4. CASE f # e
      <3>1. f < call'.at <=> f < call.at
        BY <1>1, <1>2, <2>4, EntryNumbers
      <3>2. AtSource(f) \in Holders \ {AtSource(e)}
        BY <2>4 DEF AtSource, Holders
      <3>3. Has(AtSource(f))' = Has(AtSource(f))
        BY <1>3, <3>2
      <3>4. Arrived(f)' <=> Arrived(f)
        BY <2>1, <2>2, <3>3 DEF Arrived
      <3> QED
        BY <1>1, <3>1, <3>3, <3>4 DEF InInv
    <2> QED
      BY <2>3, <2>4
  <1> QED
    BY <1>1, <1>4 DEF InInv, Idle

LEMMA InSignalMap ==
  ASSUME TypeOK, MemoryInv, InInv, SignalMapIn
  PROVE  InInv'
  <1>1. /\ call.name = "mapIn" /\ call'.name = "mapIn" /\ call'.at = call.at + 1
        /\ call.at <= Len(links) /\ UNCHANGED <<table, links, trail, was>>
        /\ Entries' = Entries /\ Signals' = Signals
    BY DEF SignalMapIn, Turn, maps, Count, TypeOK, Entries, Signals
  <1>2. PICK e \in Entries, g \in Signals : links[call.at].source = e /\ links[call.at].signal = g
    BY LinkAt DEF SignalMapIn
  <1>3. /\ Has(AtSignal(g))' = Has(AtSignal(g)) \o Has(AtSource(e))
        /\ \A h \in Holders \ {AtSignal(g)} : Has(h)' = Has(h)
    BY <1>2, SignalMapInAppends
  <1>4. \A f \in Entries : /\ Has(AtSource(f))' = Has(AtSource(f))
                           /\ Has(AtTarget(f))' = Has(AtTarget(f))
    <2>1. \A f \in Entries : /\ AtSource(f) \in Holders \ {AtSignal(g)}
                             /\ AtTarget(f) \in Holders \ {AtSignal(g)}
      BY DEF AtSource, AtTarget, AtSignal, Holders
    <2> QED
      BY <1>3, <2>1
  <1>5. ASSUME trail = <<"groupIn">>, NEW f \in Entries
        PROVE  Arrived(f)'
    <2>1. /\ ToSource(f)' <=> ToSource(f)
          /\ \A c : Convert(f, c)' = Convert(f, c)
      BY <1>1 DEF ToSource, Convert
    <2>2. Arrived(f)
      BY <1>1, <1>5 DEF InInv
    <2> QED
      BY <1>4, <2>1, <2>2 DEF Arrived
  <1>6. ASSUME trail = <<"groupIn">>, NEW f \in Signals
        PROVE  Gained(f, call.at - 1)'
    <2>0. PICK n \in Nat : n = call.at - 1
      BY <1>1, EntryNumbers
    <2> DEFINE old == FlattenSeq(Dues(f, n))
               d == Due(f, links[n + 1])
    <2>1. /\ n + 1 = call.at /\ (call.at - 1)' = n + 1
          /\ n \in 0..Len(links) /\ n + 1 \in 0..Len(links) /\ n + 1 \in DOMAIN links
      BY <1>1, <2>0, EntryNumbers, LinkTypes
    <2>2. Gained(f, n)
      BY <1>1, <1>6, <2>0 DEF InInv
    <2>3. /\ Dues(f, n + 1) \in [1..n + 1 -> Contents]
          /\ Dues(f, n + 1)[n + 1] = d /\ d \in Contents
          /\ [i \in 1..n |-> Dues(f, n + 1)[i]] = Dues(f, n)
      <3>1. Dues(f, n + 1) \in [1..n + 1 -> Contents] /\ d \in Contents
        BY <2>1, DueTypes
      <3>2. n + 1 \in 1..n + 1 /\ \A i \in 1..n : i \in 1..n + 1
        BY <2>1
      <3> QED
        BY <2>1, <3>1, <3>2 DEF Dues
    <2>4. old \in Contents /\ FlattenSeq(Dues(f, n + 1)) = old \o d
      BY <2>1, <2>3, FlattenStep DEF Contents
    <2>5. FlattenSeq(Dues(f, n + 1))' = FlattenSeq(Dues(f, n + 1))
      BY <1>1, <1>4, <2>1, DuesStay
    <2>6. Has(AtSignal(f))' = Has(AtSignal(f)) \o d
      <3>1. CASE f = g
        <4>1. Arrived(e)
          BY <1>1, <1>6 DEF InInv
        <4>2. d = Has(AtSource(e))
          BY <1>2, <2>1, <3>1, <4>1 DEF Due, Arrived
        <4> QED
          BY <1>3, <3>1, <4>2
      <3>2. CASE f # g
        <4>1. AtSignal(f) \in Holders \ {AtSignal(g)} /\ Has(AtSignal(f)) \in Contents
          BY <3>2, ContentsTypes DEF AtSignal, Holders
        <4>2. d = <<>>
          BY <1>2, <2>1, <3>2 DEF Due
        <4>3. Has(AtSignal(f)) \o d = Has(AtSignal(f))
          BY <4>1, <4>2, ConcatEmptySeq DEF Contents
        <4> QED
          BY <1>3, <4>1, <4>3
      <3> QED
        BY <3>1, <3>2
    <2>7. was[f] \in Contents
      BY DEF TypeOK, Contents
    <2> HIDE DEF d, old
    <2>8. (was[f] \o old) \o d = was[f] \o (old \o d)
      BY <2>3, <2>4, <2>7, ContentsAssociate
    <2>9. Has(AtSignal(f)) = was[f] \o old
      BY <2>2 DEF Gained, old
    <2>10. Has(AtSignal(f))' = was[f]' \o FlattenSeq(Dues(f, n + 1))'
      <3>1. Has(AtSignal(f))' = was[f] \o (old \o d)
        BY <2>6, <2>8, <2>9
      <3>2. FlattenSeq(Dues(f, n + 1))' = old \o d
        BY <2>4, <2>5
      <3> QED
        BY <1>1, <3>1, <3>2
    <2> QED
      BY <2>1, <2>10 DEF Gained
  <1>7. call'.at <= Len(links') + 1
    BY <1>1, EntryNumbers, LinkTypes
  <1> QED
    BY <1>1, <1>5, <1>6, <1>7 DEF InInv, Idle

LEMMA InReturn ==
  ASSUME TypeOK, MemoryInv, InInv, Return
  PROVE  InInv'
  <1>1. /\ UNCHANGED <<memory, table, links, was>> /\ Entries' = Entries /\ Signals' = Signals
        /\ call.name # "none" /\ call.name # "destroyed" /\ call.at > Count(call.name)
        /\ IF call.name = "release"
           THEN call' = [name |-> "groupIn", at |-> 1] /\ trail' = trail
           ELSE /\ call' = [name |-> "none", at |-> 1]
                /\ trail' = IF call.name \in {"mapOut", "groupIn"} THEN <<call.name>>
                            ELSE IF trail \in {<<"mapOut">>, <<"groupIn">>}
                                 THEN Append(trail, call.name) ELSE <<>>
    BY DEF Return, maps, Idle, Entries, Signals
  <1>2. \A h \in Holders : Has(h)' = Has(h)
    BY <1>1, MemoryUntouched
  <1>3. /\ \A e \in Entries : /\ Arrived(e)' <=> Arrived(e)
                              /\ Has(AtSource(e))' = Has(AtSource(e))
        /\ \A g \in Signals : \A n \in 0..Len(links) : Gained(g, n)' <=> Gained(g, n)
    BY <1>1, <1>2, InStays
  <1>4. CASE call.name = "release"
    <2>1. \A e \in Entries : e < call.at /\ ~(e < 1)
      BY <1>1, <1>4, EntryNumbers DEF Count
    <2>2. \A e \in Entries : Has(AtSource(e)) = <<>>
      BY <1>4, <2>1 DEF InInv
    <2>3. call'.name = "groupIn" /\ call'.at = 1
      BY <1>1, <1>4
    <2> QED
      BY <1>1, <1>3, <2>1, <2>2, <2>3 DEF InInv, Idle
  <1>5. CASE call.name = "groupIn"
    <2>1. \A e \in Entries : e < call.at
      BY <1>1, <1>5, EntryNumbers DEF Count
    <2>2. \A e \in Entries : Arrived(e)
      BY <1>5, <2>1 DEF InInv
    <2>3. call'.name = "none" /\ trail' = <<"groupIn">>
      BY <1>1, <1>5
    <2>4. trail' # <<"groupIn", "mapIn">>
      BY <2>3
    <2> QED
      BY <1>1, <1>3, <2>2, <2>3, <2>4 DEF InInv
  <1>6. CASE call.name = "mapIn"
    <2>1. /\ call'.name = "none"
          /\ trail' = IF trail \in {<<"mapOut">>, <<"groupIn">>} THEN Append(trail, "mapIn") ELSE <<>>
      BY <1>1, <1>6
    <2>2. trail' # <<"groupIn">>
      BY <2>1
    <2>3. trail' = <<"groupIn", "mapIn">> => trail = <<"groupIn">>
      BY <2>1
    <2>4. ASSUME trail = <<"groupIn">>
          PROVE  \A g \in Signals : Gained(g, Len(links))
      <3>1. call.at <= Len(links) + 1 /\ \A g \in Signals : Gained(g, call.at - 1)
        BY <1>6, <2>4 DEF InInv
      <3>2. call.at - 1 = Len(links)
        BY <1>1, <1>6, <3>1, EntryNumbers, LinkTypes DEF Count
      <3> QED
        BY <3>1, <3>2
    <2>5. Len(links) \in 0..Len(links) /\ Len(links)' = Len(links)
      BY <1>1, LinkTypes
    <2>6. ASSUME trail' = <<"groupIn", "mapIn">>, NEW g \in Signals
          PROVE  Gained(g, Len(links))'
      <3>1. PICK n \in 0..Len(links) : n = Len(links)
        BY <2>5
      <3>2. Gained(g, n)'
        BY <1>3, <2>3, <2>4, <2>6, <3>1
      <3> QED
        BY <2>5, <3>1, <3>2 DEF Gained
    <2> QED
      BY <1>1, <2>1, <2>2, <2>6 DEF InInv, Idle
  <1>7. CASE call.name \in {"mapOut", "groupOut"}
    <2>1. call'.name = "none" /\ trail' # <<"groupIn">> /\ trail' # <<"groupIn", "mapIn">>
      <3>1. CASE call.name = "mapOut"
        BY <1>1, <3>1
      <3>2. CASE call.name = "groupOut"
        <4>1. trail' = IF trail \in {<<"mapOut">>, <<"groupIn">>} THEN Append(trail, "groupOut")
                       ELSE <<>>
          BY <1>1, <3>2
        <4>2. trail' = <<>> \/ (Len(trail') = 2 /\ trail'[2] = "groupOut")
          BY <4>1
        <4>3. trail' # <<"groupIn">> /\ trail' # <<"groupIn", "mapIn">>
          BY <4>2
        <4> QED
          BY <1>1, <3>2, <4>3
      <3> QED
        BY <1>7, <3>1, <3>2
    <2> QED
      BY <2>1 DEF InInv, Idle
  <1>8. call.name \in {"release", "mapOut", "groupOut", "groupIn", "mapIn"}
    BY <1>1 DEF TypeOK, CallNames
  <1> QED
    BY <1>4, <1>5, <1>6, <1>7, <1>8

LEMMA InBegin ==
  ASSUME TypeOK, MemoryInv, InInv, NEW name \in CallNames \ {"groupIn"}, Begin(name)
  PROVE  InInv'
  <1>1. /\ UNCHANGED <<memory, table, links, trail>> /\ Entries' = Entries /\ Signals' = Signals
        /\ Idle /\ call'.name = name /\ call'.at = 1 /\ call.name = "none"
        /\ was' = IF name = "mapIn" THEN SignalContents ELSE [g \in Signals |-> <<>>]
    BY DEF Begin, maps, Idle, Entries, Signals
  <1>2. /\ name # "none" /\ name # "destroyed" /\ name # "groupIn"
        /\ call.name # "destroyed"
    BY <1>1 DEF CallNames
  <1>3. \A h \in Holders : Has(h)' = Has(h)
    BY <1>1, <1>2, MemoryUntouched
  <1>4. \A e \in Entries : Arrived(e)' <=> Arrived(e)
    BY <1>1, <1>3, InStays
  <1>5. \A e \in Entries : ~(e < 1)
    BY EntryNumbers
  <1>6. ASSUME name = "mapIn", NEW g \in Signals
        PROVE  Gained(g, call.at - 1)'
    <2>1. AtSignal(g) \in Holders /\ SignalContents[g] = Has(AtSignal(g)) /\ Has(AtSignal(g)) \in Contents
      BY ContentsTypes
    <2>2. was'[g] = Has(AtSignal(g))
      BY <1>1, <1>6, <2>1
    <2>3. FlattenSeq(Dues(g, 0))' = <<>>
      <3>1. Dues(g, 0)' = <<>>
        BY DEF Dues
      <3> QED
        BY <3>1 DEF FlattenSeq
    <2>4. Has(AtSignal(g)) \o <<>> = Has(AtSignal(g))
      BY <2>1, ConcatEmptySeq DEF Contents
    <2>5. Has(AtSignal(g))' = Has(AtSignal(g))
      BY <1>3, <2>1
    <2>6. Gained(g, 0)'
      BY <2>2, <2>3, <2>4, <2>5 DEF Gained
    <2>7. (call.at - 1)' = 0
      BY <1>1
    <2> QED
      BY <2>6, <2>7 DEF Gained
  <1>7. 1 <= Len(links') + 1
    BY <1>1, LinkTypes
  <1> QED
    BY <1>1, <1>2, <1>4, <1>5, <1>6, <1>7 DEF InInv, Idle

LEMMA InNext ==
  ASSUME TypeOK, MemoryInv, InInv, [Next]_vars
  PROVE  InInv'
  <1>1. ASSUME trail' = <<>>, UNCHANGED call, call.name \in {"none", "destroyed"}
        PROVE  InInv'
    <2>1. trail' # <<"groupIn">> /\ trail' # <<"groupIn", "mapIn">>
      BY <1>1
    <2> QED
      BY <1>1, <2>1 DEF InInv
  <1>2. ASSUME NEW c \in {1, 2}, Generate(c) \/ GenerateUnique(c)
        PROVE  InInv'
    BY <1>1, <1>2 DEF Generate, GenerateUnique, Idle
  <1>3. ASSUME NEW name \in CallNames \ {"groupIn"}, Begin(name)
        PROVE  InInv'
    BY <1>3, InBegin
  <1>4. ASSUME SignalMapOut \/ GroupOut
        PROVE  InInv'
    <2>1. call'.name \in {"mapOut", "groupOut"}
      BY <1>4 DEF SignalMapOut, GroupOut, Turn, TypeOK
    <2> QED
      BY <2>1 DEF InInv, Idle
  <1>5. CASE ReleaseSources
    BY <1>5, InRelease
  <1>6. CASE GroupIn
    BY <1>6, AmongGroup
  <1>7. CASE SignalMapIn
    BY <1>7, InSignalMap
  <1>8. CASE Return
    BY <1>8, InReturn
  <1>9. CASE Destroy
    <2>1. call'.name = "destroyed"
      BY <1>9 DEF Destroy
    <2> QED
      BY <2>1 DEF InInv, Idle
  <1>10. CASE Others
    BY <1>1, <1>10 DEF Others
  <1>11. CASE UNCHANGED vars
    <2>1. /\ UNCHANGED <<memory, table, links, call, trail, was>>
          /\ Entries' = Entries /\ Signals' = Signals
      BY <1>11 DEF vars, maps, Entries, Signals
    <2>2. \A h \in Holders : Has(h)' = Has(h)
      BY <2>1, MemoryUntouched
    <2>3. /\ \A e \in Entries : /\ Arrived(e)' <=> Arrived(e)
                                /\ Has(AtSource(e))' = Has(AtSource(e))
          /\ \A g \in Signals : \A n \in 0..Len(links) : Gained(g, n)' <=> Gained(g, n)
      BY <2>1, <2>2, InStays
    <2>4. ASSUME call.at <= Len(links) + 1, NEW g \in Signals
          PROVE  Gained(g, call.at - 1)' <=> Gained(g, call.at - 1)
      <3>1. PICK n \in 0..Len(links) : n = call.at - 1
        BY <2>4, EntryNumbers, LinkTypes
      <3>2. (call.at - 1)' = n
        BY <2>1, <3>1
      <3> QED
        BY <2>3, <3>1, <3>2 DEF Gained
    <2>5. ASSUME NEW g \in Signals
          PROVE  Gained(g, Len(links))' <=> Gained(g, Len(links))
      <3>0. Len(links) \in 0..Len(links)
        BY LinkTypes
      <3>1. PICK n \in 0..Len(links) : n = Len(links)
        BY <3>0
      <3>2. Len(links)' = n
        BY <2>1, <3>1
      <3> QED
        BY <2>3, <3>1, <3>2 DEF Gained
    <2> QED
      BY <2>1, <2>3, <2>4, <2>5 DEF InInv, Idle
  <1>12. Next => \/ \E c \in {1, 2} : Generate(c) \/ GenerateUnique(c)
                 \/ \E name \in CallNames \ {"groupIn"} : Begin(name)
                 \/ SignalMapOut \/ GroupOut \/ ReleaseSources \/ GroupIn \/ SignalMapIn
                 \/ Return \/ Destroy \/ Others
    BY DEF Next, TargetWrites, SignalReset, SignalWritten
  <1> QED
    BY <1>2, <1>3, <1>4, <1>5, <1>6, <1>7, <1>8, <1>9, <1>10, <1>11, <1>12

LEMMA InDelivered ==
  ASSUME TypeOK, MemoryInv, InInv
  PROVE  InDelivers
  <1> SUFFICES ASSUME Idle, trail = <<"groupIn", "mapIn">>
               PROVE  InDelivers
    BY DEF InDelivers
  <1> DEFINE Got(g, l) ==
               IF l.signal = g /\ ToSource(l.source)
               THEN Convert(l.source, Content(target[l.source])) ELSE <<>>
  <1>1. ASSUME NEW g \in Signals
        PROVE  SignalContents[g]
                 = was[g] \o FlattenSeq([i \in DOMAIN links |-> Got(g, links[i])])
    <2>1. \A i \in DOMAIN links : Got(g, links[i]) = Due(g, links[i])
      <3>1. call.name # "destroyed"
        BY DEF Idle
      <3>2. \A i \in DOMAIN links :
              Content(target[links[i].source]) = Has(AtTarget(links[i].source))
        BY <3>1, LinkTypes, ContentsTypes
      <3> QED
        BY <3>2 DEF Due
    <2>2. [i \in DOMAIN links |-> Got(g, links[i])] = Dues(g, Len(links))
      <3> HIDE DEF Got
      <3> QED
        BY <2>1, LinkTypes DEF Dues
    <2>3. Gained(g, Len(links))
      BY DEF InInv
    <2>4. SignalContents[g] = Has(AtSignal(g))
      BY ContentsTypes
    <2> HIDE DEF Got
    <2> QED
      BY <2>2, <2>3, <2>4 DEF Gained
  <1> QED
    BY <1>1 DEF InDelivers

(* marshal_group_in, then marshal_signalmap_in, turn by turn, append to    *)
(* every signal what the targets mapped to it hold, in the order of the    *)
(* links, and nothing else, for every table and however many calls came    *)
(* before.                                                                 *)
THEOREM InIsDelivered == Spec => []InDelivers
  <1>1. Init => TypeOK /\ MemoryInv /\ LinkInv /\ InInv
    <2>1. ASSUME Init
          PROVE  InInv
      <3>1. trail = <<>> /\ call.name = "none"
        BY <2>1 DEF Init
      <3>2. trail # <<"groupIn">> /\ trail # <<"groupIn", "mapIn">>
        BY <3>1
      <3> QED
        BY <3>1, <3>2 DEF InInv
    <2> QED
      BY <2>1, TypesInit
  <1>2. /\ TypeOK /\ MemoryInv /\ LinkInv /\ InInv
        /\ [Next]_vars
        => (TypeOK /\ MemoryInv /\ LinkInv /\ InInv)'
    BY TypesNext, InNext
  <1>3. TypeOK /\ MemoryInv /\ LinkInv /\ InInv => InDelivers
    BY InDelivered
  <1> QED
    BY <1>1, <1>2, <1>3, PTL DEF Spec

-----------------------------------------------------------------------------
(* A cycle delivers scalars: each link writes what later links may         *)
(* overwrite, so that behind the loop the last link to a place has decided *)
(* it.                                                                     *)

(* Types; a call on the signal maps is at a link or behind the last.       *)
ScalarTypeOK ==
  /\ interface \in Interfaces
  /\ sigScalar \in [LinkedSignals -> Int] /\ srcScalar \in [Sources -> Int]
  /\ tgtScalar \in [Sources -> Int]
  /\ sent \in [LinkedSignals -> Int] /\ found \in [Sources -> Int]
  /\ mapCall \in [name : {"none", "mapOut", "mapIn"}, at : 1..Len(interface.link) + 1]
  /\ mapCall.name = "none" => mapCall = NoCall

(* What the links have carried that a running call is behind of.           *)
LastFromYet(i) == \A j \in Links : j > i /\ j < mapCall.at => SourceOf(j) # SourceOf(i)
LastToYet(i) == \A j \in Links : j > i /\ j < mapCall.at => SignalOf(j) # SignalOf(i)
MappingOut ==
  mapCall.name = "mapOut" =>
    /\ stage = "mapOut" /\ sent = sigScalar
    /\ \A i \in Links : i < mapCall.at /\ LastFromYet(i) => srcScalar[SourceOf(i)] = Sent(i)
MappingIn ==
  mapCall.name = "mapIn" =>
    /\ stage # "mapOut"
    /\ \A i \in Links : i < mapCall.at /\ LastToYet(i) =>
         sigScalar[SignalOf(i)] = srcScalar[SourceOf(i)]
MappedIn ==
  stage = "mapIn" /\ NoneRuns =>
    \A i \in Links : LastTo(i) => sigScalar[SignalOf(i)] = srcScalar[SourceOf(i)]

(* The sources behind the out calls, and behind the in call of the groups. *)
SourcesSent ==
  stage \in {"mapOut", "groupOut"} /\ NoneRuns =>
    \A i \in Links : LastFrom(i) => srcScalar[SourceOf(i)] = Sent(i)
TargetsSent ==
  stage = "groupOut" =>
    /\ NoneRuns
    /\ \A s \in Sources :
         /\ Moves(s, OutDirs \ InDirs, 4) /\ Truncated(srcScalar[s]) \in Int32 =>
              tgtScalar[s] = Truncated(srcScalar[s])
         /\ Moves(s, OutDirs \ InDirs, 8) => tgtScalar[s] = srcScalar[s]
SourcesReceived ==
  stage \in {"groupIn", "mapIn"} =>
    \A s \in Sources :
      /\ Moves(s, InDirs, 4) => srcScalar[s] = ToDouble(found[s])
      /\ Moves(s, InDirs, 8) => srcScalar[s] = found[s]
      /\ ~Moves(s, InDirs, 4) /\ ~Moves(s, InDirs, 8) =>
           \A j \in Links : LastFrom(j) /\ SourceOf(j) = s => srcScalar[s] = Sent(j)

Stages ==
  /\ stage \in {"none", "mapOut", "groupOut", "groupIn", "mapIn"}
  /\ stage = "groupIn" => NoneRuns

ScalarInv ==
  /\ ScalarTypeOK /\ Stages
  /\ MappingOut /\ MappingIn /\ MappedIn
  /\ SourcesSent /\ TargetsSent /\ SourcesReceived

-----------------------------------------------------------------------------
(* The interface stays, and with it whatever is read off it.               *)

LEMMA LinksAre ==
  ASSUME interface \in Interfaces
  PROVE  /\ Len(interface.link) \in Nat /\ Links = 1..Len(interface.link)
         /\ \A i \in Links : SourceOf(i) \in Sources /\ SignalOf(i) \in LinkedSignals
  BY InterfacesAssumption DEF Links, Sources, Linked, LinkedSignals

LEMMA Stays ==
  ASSUME interface' = interface
  PROVE  /\ Links' = Links /\ Sources' = Sources /\ LinkedSignals' = LinkedSignals
         /\ \A i : SourceOf(i)' = SourceOf(i) /\ SignalOf(i)' = SignalOf(i)
         /\ \A i : (LastFrom(i)' <=> LastFrom(i)) /\ (LastTo(i)' <=> LastTo(i))
         /\ \A s, dirs, size : Moves(s, dirs, size)' <=> Moves(s, dirs, size)
         /\ NoSignals' = NoSignals /\ NoTargets' = NoTargets
  <1>1. Links' = Links /\ \A i : SourceOf(i)' = SourceOf(i) /\ SignalOf(i)' = SignalOf(i)
    BY DEF Links, SourceOf, SignalOf
  <1>2. Groups' = Groups
    BY DEF Groups
  <1>3. Linked' = Linked /\ LinkedSignals' = LinkedSignals
    BY <1>1 DEF Linked, LinkedSignals
  <1>4. Sources' = Sources
    BY <1>2, <1>3 DEF Sources
  <1>5. \A i : (LastFrom(i)' <=> LastFrom(i)) /\ (LastTo(i)' <=> LastTo(i))
    BY <1>1 DEF LastFrom, LastTo
  <1>6. \A s : (InGroup(s)' <=> InGroup(s)) /\ GroupOf(s)' = GroupOf(s)
    BY <1>2 DEF InGroup, GroupOf
  <1>7. \A s, dirs, size : Moves(s, dirs, size)' <=> Moves(s, dirs, size)
    BY <1>6 DEF Moves
  <1> QED
    BY <1>1, <1>3, <1>4, <1>5, <1>7 DEF NoSignals, NoTargets

(* What moves one way only, and by one width only.                         *)
LEMMA MovesOnce ==
  ASSUME NEW s
  PROVE  /\ \A dirs : ~(Moves(s, dirs, 4) /\ Moves(s, dirs, 8))
         /\ \A size, other : ~(Moves(s, OutDirs \ InDirs, size) /\ Moves(s, InDirs, other))
         /\ \A size : Moves(s, OutDirs \ InDirs, size) => Moves(s, OutDirs, size)
  BY DEF Moves

LEMMA StageTypes ==
  ASSUME ScalarTypeOK
  PROVE  NoSignals \in [LinkedSignals -> Int] /\ NoTargets \in [Sources -> Int]
  BY DEF NoSignals, NoTargets

-----------------------------------------------------------------------------
(* The steps.                                                              *)

LEMMA MapOutKeeps == ASSUME ScalarInv, MapOut PROVE ScalarInv'
  <1>1. ScalarTypeOK'
    <2>1. mapCall' = [name |-> "mapOut", at |-> 1] /\ 1 \in 1..Len(interface'.link) + 1
      BY LinksAre DEF ScalarInv, ScalarTypeOK, MapOut
    <2> QED
      BY <2>1, Stays, StageTypes DEF ScalarInv, ScalarTypeOK, MapOut
  <1>2. MappingOut'
    BY LinksAre, Stays DEF ScalarInv, ScalarTypeOK, MapOut, MappingOut
  <1> QED
    BY <1>1, <1>2
    DEF ScalarInv, MapOut, Stages, MappingIn, MappedIn, SourcesSent, TargetsSent,
        SourcesReceived, NoneRuns, NoCall

LEMMA MapInKeeps == ASSUME ScalarInv, MapIn PROVE ScalarInv'
  <1>1. ScalarTypeOK'
    <2>1. mapCall' = [name |-> "mapIn", at |-> 1] /\ 1 \in 1..Len(interface'.link) + 1
      BY LinksAre DEF ScalarInv, ScalarTypeOK, MapIn
    <2> QED
      BY <2>1, Stays, StageTypes DEF ScalarInv, ScalarTypeOK, MapIn, Stage
  <1>2. stage' \in {"mapIn", "none"} /\ ~NoneRuns'
    BY DEF MapIn, Stage, NoneRuns, NoCall
  <1>3. MappingIn'
    BY <1>2, LinksAre, Stays DEF ScalarInv, ScalarTypeOK, MapIn, MappingIn
  <1>4. SourcesReceived'
    <2>1. CASE stage = "groupIn"
      BY <2>1, Stays DEF ScalarInv, MapIn, Stage, SourcesReceived, Sent
    <2>2. CASE stage # "groupIn"
      BY <2>2 DEF MapIn, Stage, SourcesReceived
    <2> QED
      BY <2>1, <2>2
  <1> QED
    BY <1>1, <1>2, <1>3, <1>4
    DEF ScalarInv, MapIn, Stages, MappingOut, MappedIn, SourcesSent, TargetsSent

LEMMA MapLinkKeeps == ASSUME ScalarInv, MapLink PROVE ScalarInv'
  <1> DEFINE i == mapCall.at
  <1>1. /\ i \in Links /\ i \in Nat /\ mapCall' = [mapCall EXCEPT !.at = i + 1]
        /\ mapCall'.at = i + 1 /\ mapCall'.name = mapCall.name
        /\ mapCall.name \in {"mapOut", "mapIn"} /\ ~NoneRuns' /\ interface' = interface
    BY DEF ScalarInv, ScalarTypeOK, MapLink, NoneRuns, NoCall
  <1>2. SourceOf(i) \in Sources /\ SignalOf(i) \in LinkedSignals
    BY <1>1, LinksAre DEF ScalarInv, ScalarTypeOK
  <1>3. /\ mapCall.name = "mapOut" =>
             srcScalar' = [srcScalar EXCEPT ![SourceOf(i)] = sigScalar[SignalOf(i)]]
             /\ sigScalar' = sigScalar
        /\ mapCall.name = "mapIn" =>
             sigScalar' = [sigScalar EXCEPT ![SignalOf(i)] = srcScalar[SourceOf(i)]]
             /\ srcScalar' = srcScalar
        /\ UNCHANGED <<interface, tgtScalar, stage, sent, found>>
    BY DEF MapLink
  <1>4. ScalarTypeOK'
    <2>1. sigScalar' \in [LinkedSignals -> Int] /\ srcScalar' \in [Sources -> Int]
      BY <1>1, <1>2, <1>3 DEF ScalarInv, ScalarTypeOK
    <2>2. i + 1 \in 1..Len(interface.link) + 1
      BY <1>1, LinksAre DEF ScalarInv, ScalarTypeOK
    <2>3. mapCall' \in [name : {"none", "mapOut", "mapIn"}, at : 1..Len(interface.link) + 1]
      BY <1>1, <2>2 DEF ScalarInv, ScalarTypeOK
    <2> QED
      BY <1>1, <1>3, <2>1, <2>3, Stays DEF ScalarInv, ScalarTypeOK
  <1>5. stage \in {"none", "mapOut", "mapIn"} /\ ~NoneRuns
    BY DEF ScalarInv, Stages, TargetsSent, MapLink
  <1>6. MappingOut'
    <2> SUFFICES ASSUME mapCall.name = "mapOut"
                 PROVE  /\ stage' = "mapOut" /\ sent' = sigScalar'
                        /\ \A k \in Links : k < i + 1 /\ LastFromYet(k)' =>
                             srcScalar'[SourceOf(k)] = Sent(k)'
      BY <1>1, Stays DEF MappingOut
    <2>1. stage = "mapOut" /\ sent = sigScalar
      BY DEF ScalarInv, MappingOut
    <2>2. ASSUME NEW k \in Links, k < i + 1, LastFromYet(k)'
          PROVE  srcScalar'[SourceOf(k)] = Sent(k)'
      <3>1. Sent(k)' = sent[SignalOf(k)] /\ SourceOf(k) \in Sources /\ k \in Nat
        BY <1>1, <1>3, Stays, LinksAre DEF ScalarInv, ScalarTypeOK, Sent
      <3>2. CASE k = i
        BY <1>2, <1>3, <2>1, <3>1, <3>2 DEF ScalarInv, ScalarTypeOK
      <3>3. CASE k # i
        <4>1. k < i
          BY <1>1, <2>2, <3>1, <3>3
        <4>2. \A j \in Links : j > k /\ j < i + 1 => SourceOf(j) # SourceOf(k)
          BY <1>1, <2>2, Stays DEF LastFromYet
        <4>3. SourceOf(i) # SourceOf(k)
          BY <1>1, <3>1, <4>1, <4>2
        <4>4. LastFromYet(k)
          <5> SUFFICES ASSUME NEW j \in Links, j > k, j < i PROVE SourceOf(j) # SourceOf(k)
            BY DEF LastFromYet
          <5>1. j \in Nat
            BY LinksAre DEF ScalarInv, ScalarTypeOK
          <5> QED
            BY <1>1, <4>2, <5>1
        <4>5. srcScalar[SourceOf(k)] = Sent(k)
          BY <4>1, <4>4 DEF ScalarInv, MappingOut
        <4> QED
          BY <1>2, <1>3, <3>1, <4>3, <4>5 DEF ScalarInv, ScalarTypeOK, Sent
      <3> QED
        BY <3>2, <3>3
    <2> QED
      BY <1>3, <2>1, <2>2
  <1>7. MappingIn'
    <2> SUFFICES ASSUME mapCall.name = "mapIn"
                 PROVE  /\ stage' # "mapOut"
                        /\ \A k \in Links : k < i + 1 /\ LastToYet(k)' =>
                             sigScalar'[SignalOf(k)] = srcScalar'[SourceOf(k)]
      BY <1>1, Stays DEF MappingIn
    <2>1. stage' # "mapOut"
      BY <1>3 DEF ScalarInv, MappingIn
    <2>2. ASSUME NEW k \in Links, k < i + 1, LastToYet(k)'
          PROVE  sigScalar'[SignalOf(k)] = srcScalar[SourceOf(k)]
      <3>1. SignalOf(k) \in LinkedSignals /\ k \in Nat
        BY LinksAre DEF ScalarInv, ScalarTypeOK
      <3>2. CASE k = i
        BY <1>2, <1>3, <3>1, <3>2 DEF ScalarInv, ScalarTypeOK
      <3>3. CASE k # i
        <4>1. k < i
          BY <1>1, <2>2, <3>1, <3>3
        <4>2. \A j \in Links : j > k /\ j < i + 1 => SignalOf(j) # SignalOf(k)
          BY <1>1, <2>2, Stays DEF LastToYet
        <4>3. SignalOf(i) # SignalOf(k)
          BY <1>1, <3>1, <4>1, <4>2
        <4>4. LastToYet(k)
          <5> SUFFICES ASSUME NEW j \in Links, j > k, j < i PROVE SignalOf(j) # SignalOf(k)
            BY DEF LastToYet
          <5>1. j \in Nat
            BY LinksAre DEF ScalarInv, ScalarTypeOK
          <5> QED
            BY <1>1, <4>2, <5>1
        <4>5. sigScalar[SignalOf(k)] = srcScalar[SourceOf(k)]
          BY <4>1, <4>4 DEF ScalarInv, MappingIn
        <4> QED
          BY <1>2, <1>3, <3>1, <4>3, <4>5 DEF ScalarInv, ScalarTypeOK
      <3> QED
        BY <3>2, <3>3
    <2> QED
      BY <1>3, <2>1, <2>2
  <1>8. SourcesReceived'
    <2>1. mapCall.name = "mapOut" => stage = "mapOut"
      BY DEF ScalarInv, MappingOut
    <2> QED
      BY <1>1, <1>3, <2>1, Stays DEF ScalarInv, SourcesReceived, Sent
  <1>9. Stages'
    BY <1>3, <1>5 DEF Stages
  <1> QED
    BY <1>1, <1>3, <1>4, <1>5, <1>6, <1>7, <1>8, <1>9
    DEF ScalarInv, MappedIn, SourcesSent, TargetsSent

LEMMA MapReturnsKeeps == ASSUME ScalarInv, MapReturns PROVE ScalarInv'
  <1>1. /\ mapCall' = NoCall /\ mapCall.at \notin Links /\ ~NoneRuns /\ NoneRuns'
        /\ UNCHANGED <<interface, sigScalar, srcScalar, tgtScalar, stage, sent, found>>
        /\ mapCall.name \in {"mapOut", "mapIn"}
    BY DEF ScalarInv, ScalarTypeOK, MapReturns, NoneRuns
  <1>2. \A i \in Links : i < mapCall.at
    BY <1>1, LinksAre DEF ScalarInv, ScalarTypeOK
  <1>3. \A i \in Links : (LastFrom(i) => LastFromYet(i)) /\ (LastTo(i) => LastToYet(i))
    BY DEF LastFrom, LastTo, LastFromYet, LastToYet
  <1>4. ScalarTypeOK'
    BY <1>1, Stays, LinksAre DEF ScalarInv, ScalarTypeOK, NoCall
  <1>5. SourcesSent'
    <2>1. stage \in {"mapOut", "groupOut"} => mapCall.name = "mapOut"
      BY <1>1 DEF ScalarInv, MappingIn, TargetsSent
    <2> QED
      BY <1>1, <1>2, <1>3, <2>1, Stays DEF ScalarInv, MappingOut, SourcesSent, Sent
  <1>6. MappedIn'
    <2>1. stage = "mapIn" => mapCall.name = "mapIn"
      BY <1>1 DEF ScalarInv, MappingOut
    <2> QED
      BY <1>1, <1>2, <1>3, <2>1, Stays DEF ScalarInv, MappingIn, MappedIn
  <1>7. TargetsSent'
    BY <1>1, Stays DEF ScalarInv, TargetsSent
  <1>8. SourcesReceived'
    BY <1>1, Stays DEF ScalarInv, SourcesReceived, Sent
  <1> QED
    BY <1>1, <1>4, <1>5, <1>6, <1>7, <1>8
    DEF ScalarInv, Stages, MappingOut, MappingIn, NoCall

LEMMA ScalarOutKeeps == ASSUME ScalarInv, ScalarOut PROVE ScalarInv'
  <1>1. /\ NoneRuns /\ NoneRuns' /\ mapCall.name = "none"
        /\ UNCHANGED <<interface, sigScalar, srcScalar, mapCall>>
    BY DEF ScalarOut, NoneRuns, NoCall
  <1>2. PICK undefined \in [Sources -> Int32] :
          tgtScalar' = [s \in Sources |->
            CASE Moves(s, OutDirs, 4) -> ToInt32(srcScalar[s], undefined[s])
              [] Moves(s, OutDirs, 8) -> srcScalar[s]
              [] OTHER -> tgtScalar[s]]
    BY DEF ScalarOut
  <1>3. ScalarTypeOK'
    <2>1. ASSUME NEW s \in Sources PROVE tgtScalar'[s] \in Int
      <3>1. Int32 \subseteq Int
        BY IntMaxAssumption DEF Int32
      <3>2. ToInt32(srcScalar[s], undefined[s]) \in Int
        BY <3>1 DEF ToInt32
      <3>3. srcScalar[s] \in Int /\ tgtScalar[s] \in Int
        BY DEF ScalarInv, ScalarTypeOK
      <3> QED
        BY <1>2, <3>2, <3>3
    <2>2. tgtScalar' \in [Sources -> Int]
      BY <1>2, <2>1
    <2>3. sent' \in [LinkedSignals -> Int] /\ found' \in [Sources -> Int]
      BY StageTypes DEF ScalarInv, ScalarTypeOK, ScalarOut, Stage
    <2> QED
      BY <1>1, <2>2, <2>3, Stays DEF ScalarInv, ScalarTypeOK
  <1>4. CASE stage = "mapOut"
    <2>1. stage' = "groupOut" /\ UNCHANGED <<sent, found>>
      BY <1>4 DEF ScalarOut, Stage
    <2>2. SourcesSent'
      BY <1>1, <1>4, <2>1, Stays DEF ScalarInv, SourcesSent, Sent
    <2>3. TargetsSent'
      <3>1. ASSUME NEW s \in Sources, Moves(s, OutDirs \ InDirs, 4),
                   Truncated(srcScalar[s]) \in Int32
            PROVE  tgtScalar'[s] = Truncated(srcScalar[s])
        BY <1>2, <3>1, MovesOnce DEF ToInt32
      <3>2. ASSUME NEW s \in Sources, Moves(s, OutDirs \ InDirs, 8)
            PROVE  tgtScalar'[s] = srcScalar[s]
        BY <1>2, <3>2, MovesOnce
      <3> QED
        BY <1>1, <3>1, <3>2, Stays DEF TargetsSent
    <2> QED
      BY <1>1, <1>3, <2>1, <2>2, <2>3
      DEF ScalarInv, Stages, MappingOut, MappingIn, MappedIn, SourcesReceived
  <1>5. CASE stage # "mapOut"
    <2>1. stage' = "none"
      BY <1>5 DEF ScalarOut, Stage
    <2> QED
      BY <1>1, <1>3, <2>1
      DEF ScalarInv, Stages, MappingOut, MappingIn, MappedIn, SourcesSent, TargetsSent,
          SourcesReceived
  <1> QED
    BY <1>4, <1>5

LEMMA ScalarInKeeps == ASSUME ScalarInv, ScalarIn PROVE ScalarInv'
  <1>1. /\ NoneRuns /\ NoneRuns' /\ mapCall.name = "none"
        /\ UNCHANGED <<interface, sigScalar, tgtScalar, mapCall>>
        /\ srcScalar' = Received(InDirs)
    BY DEF ScalarIn, NoneRuns, NoCall
  <1>2. ScalarTypeOK'
    <2>1. ASSUME NEW s \in Sources PROVE srcScalar'[s] \in Int
      <3>1. srcScalar[s] \in Int /\ tgtScalar[s] \in Int
        BY DEF ScalarInv, ScalarTypeOK
      <3>2. ToDouble(tgtScalar[s]) \in Int
        BY <3>1 DEF ToDouble
      <3> QED
        BY <1>1, <3>1, <3>2 DEF Received
    <2>2. srcScalar' \in [Sources -> Int]
      BY <1>1, <2>1 DEF Received
    <2>3. sent' \in [LinkedSignals -> Int] /\ found' \in [Sources -> Int]
      BY StageTypes DEF ScalarInv, ScalarTypeOK, ScalarIn, Stage
    <2> QED
      BY <1>1, <2>2, <2>3, Stays DEF ScalarInv, ScalarTypeOK
  <1>3. CASE stage = "groupOut"
    <2>1. stage' = "groupIn" /\ found' = tgtScalar /\ sent' = sent
      BY <1>3 DEF ScalarIn
    <2>2. SourcesReceived'
      <3> SUFFICES ASSUME NEW s \in Sources
                   PROVE  /\ Moves(s, InDirs, 4) => srcScalar'[s] = ToDouble(tgtScalar[s])
                          /\ Moves(s, InDirs, 8) => srcScalar'[s] = tgtScalar[s]
                          /\ ~Moves(s, InDirs, 4) /\ ~Moves(s, InDirs, 8) =>
                               \A j \in Links : LastFrom(j) /\ SourceOf(j) = s =>
                                 srcScalar'[s] = Sent(j)
        BY <1>1, <2>1, Stays DEF SourcesReceived, Sent, ToDouble
      <3>1. Moves(s, InDirs, 4) => srcScalar'[s] = ToDouble(tgtScalar[s])
        BY <1>1, MovesOnce DEF Received
      <3>2. Moves(s, InDirs, 8) => srcScalar'[s] = tgtScalar[s]
        BY <1>1, MovesOnce DEF Received
      <3>3. ASSUME ~Moves(s, InDirs, 4), ~Moves(s, InDirs, 8),
                   NEW j \in Links, LastFrom(j), SourceOf(j) = s
            PROVE  srcScalar'[s] = Sent(j)
        <4>1. srcScalar'[s] = srcScalar[s]
          BY <1>1, <3>3 DEF Received
        <4>2. srcScalar[SourceOf(j)] = Sent(j)
          BY <1>1, <1>3, <3>3 DEF ScalarInv, SourcesSent
        <4> QED
          BY <3>3, <4>1, <4>2
      <3> QED
        BY <3>1, <3>2, <3>3
    <2> QED
      BY <1>1, <1>2, <2>1, <2>2
      DEF ScalarInv, Stages, MappingOut, MappingIn, MappedIn, SourcesSent, TargetsSent
  <1>4. CASE stage # "groupOut"
    <2>1. stage' = "none"
      BY <1>4 DEF ScalarIn, Stage
    <2> QED
      BY <1>1, <1>2, <2>1
      DEF ScalarInv, Stages, MappingOut, MappingIn, MappedIn, SourcesSent, TargetsSent,
          SourcesReceived
  <1> QED
    BY <1>3, <1>4

LEMMA TargetSetsKeeps ==
  ASSUME ScalarInv, NEW s \in Sources, NEW value \in Int32 \cup Doubles, TargetSets(s, value)
  PROVE  ScalarInv'
  <1>1. /\ NoneRuns /\ NoneRuns' /\ mapCall.name = "none"
        /\ tgtScalar' = [tgtScalar EXCEPT ![s] = value]
        /\ UNCHANGED <<interface, sigScalar, srcScalar, mapCall, stage, sent, found>>
        /\ Moves(s, InDirs, 4) \/ Moves(s, InDirs, 8)
    BY DEF TargetSets, NoneRuns, NoCall
  <1>2. ScalarTypeOK'
    <2>1. value \in Int
      BY IntMaxAssumption DEF Int32
    <2>2. tgtScalar' \in [Sources -> Int]
      BY <1>1, <2>1 DEF ScalarInv, ScalarTypeOK
    <2> QED
      BY <1>1, <2>2, Stays DEF ScalarInv, ScalarTypeOK
  <1>3. TargetsSent'
    <2>1. \A size : \A r \in Sources : Moves(r, OutDirs \ InDirs, size) => r # s
      BY <1>1, MovesOnce
    <2>2. \A size : \A r \in Sources :
            Moves(r, OutDirs \ InDirs, size) => tgtScalar'[r] = tgtScalar[r]
      BY <1>1, <2>1 DEF ScalarInv, ScalarTypeOK
    <2> QED
      BY <1>1, <2>2, Stays DEF ScalarInv, TargetsSent
  <1>4. SourcesSent' /\ SourcesReceived' /\ MappedIn'
    BY <1>1, Stays DEF ScalarInv, SourcesSent, SourcesReceived, MappedIn, Sent
  <1> QED
    BY <1>1, <1>2, <1>3, <1>4 DEF ScalarInv, Stages, MappingOut, MappingIn

LEMMA SignalSetKeeps ==
  ASSUME ScalarInv, NEW g \in LinkedSignals, NEW value \in Doubles, SignalSet(g, value)
  PROVE  ScalarInv'
  <1>1. /\ NoneRuns /\ NoneRuns' /\ mapCall.name = "none"
        /\ sigScalar' = [sigScalar EXCEPT ![g] = value]
        /\ UNCHANGED <<interface, srcScalar, tgtScalar, mapCall>>
    BY DEF SignalSet, NoneRuns, NoCall
  <1>2. /\ stage = "mapIn" => stage' = "none"
        /\ stage # "mapIn" => UNCHANGED <<stage, sent, found>>
    BY DEF SignalSet, Stage
  <1>3. ScalarTypeOK'
    <2>1. sigScalar' \in [LinkedSignals -> Int]
      BY <1>1, IntMaxAssumption DEF ScalarInv, ScalarTypeOK
    <2>2. sent' \in [LinkedSignals -> Int] /\ found' \in [Sources -> Int]
      BY StageTypes DEF ScalarInv, ScalarTypeOK, SignalSet, Stage
    <2> QED
      BY <1>1, <2>1, <2>2, Stays DEF ScalarInv, ScalarTypeOK
  <1>4. SourcesSent' /\ TargetsSent' /\ SourcesReceived' /\ MappedIn' /\ Stages'
    <2>1. CASE stage = "mapIn"
      BY <1>1, <1>2, <2>1
      DEF SourcesSent, TargetsSent, SourcesReceived, MappedIn, Stages
    <2>2. CASE stage # "mapIn"
      <3>1. SourcesSent' /\ MappedIn' /\ Stages'
        BY <1>1, <1>2, <2>2, Stays DEF ScalarInv, SourcesSent, MappedIn, Stages, Sent
      <3>2. TargetsSent'
        BY <1>1, <1>2, <2>2, Stays DEF ScalarInv, TargetsSent
      <3>3. SourcesReceived'
        BY <1>1, <1>2, <2>2, Stays DEF ScalarInv, SourcesReceived, Sent
      <3> QED
        BY <3>1, <3>2, <3>3
    <2> QED
      BY <2>1, <2>2
  <1> QED
    BY <1>1, <1>3, <1>4 DEF ScalarInv, MappingOut, MappingIn

-----------------------------------------------------------------------------
(* A cycle of the four calls brings scalars to targets and back, as the    *)
(* directions and sizes of their groups say, for every interface, every    *)
(* int32 and whatever is written between the calls (marshal_signalmap_out, *)
(* marshal_group_out, marshal_group_in, marshal_signalmap_in).             *)
THEOREM ScalarsAreDelivered == ScalarSpec => []CycleDelivers
  <1>1. ScalarInit => ScalarInv
    <2> SUFFICES ASSUME ScalarInit PROVE ScalarInv
      OBVIOUS
    <2>1. ScalarTypeOK
      <3>1. 1 \in 1..Len(interface.link) + 1
        BY LinksAre DEF ScalarInit
      <3> QED
        BY <3>1 DEF ScalarInit, ScalarTypeOK, NoCall, NoSignals, NoTargets
    <2> QED
      BY <2>1
      DEF ScalarInit, ScalarInv, Stages, MappingOut, MappingIn, MappedIn, SourcesSent,
          TargetsSent, SourcesReceived, NoCall
  <1>2. ScalarInv /\ [ScalarNext]_scalarVars => ScalarInv'
    <2> SUFFICES ASSUME ScalarInv, [ScalarNext]_scalarVars
                 PROVE  ScalarInv'
      OBVIOUS
    <2>1. CASE UNCHANGED scalarVars
      <3>1. /\ UNCHANGED <<interface, sigScalar, srcScalar, tgtScalar, mapCall, stage, sent,
                           found>>
        BY <2>1 DEF scalarVars
      <3>2. ScalarTypeOK' /\ Stages' /\ SourcesSent'
        BY <3>1, Stays DEF ScalarInv, ScalarTypeOK, Stages, SourcesSent, NoneRuns, Sent
      <3>3. MappingOut' /\ MappingIn' /\ MappedIn'
        BY <3>1, Stays
        DEF ScalarInv, MappingOut, MappingIn, MappedIn, LastFromYet, LastToYet, NoneRuns, Sent
      <3>4. TargetsSent'
        BY <3>1, Stays DEF ScalarInv, TargetsSent, NoneRuns
      <3>5. SourcesReceived'
        BY <3>1, Stays DEF ScalarInv, SourcesReceived, Sent
      <3> QED
        BY <3>2, <3>3, <3>4, <3>5 DEF ScalarInv
    <2>2. CASE ScalarNext
      BY <2>2, MapOutKeeps, MapInKeeps, MapLinkKeeps, MapReturnsKeeps, ScalarOutKeeps,
         ScalarInKeeps, TargetSetsKeeps, SignalSetKeeps DEF ScalarNext
    <2> QED
      BY <2>1, <2>2
  <1>3. ScalarInv => CycleDelivers
    <2> SUFFICES ASSUME ScalarInv PROVE CycleDelivers
      OBVIOUS
    <2>1. \A i \in Links : SourceOf(i) \in Sources
      BY LinksAre DEF ScalarInv, ScalarTypeOK
    <2>2. ASSUME stage = "groupOut", NEW i \in Links, LastFrom(i)
          PROVE  LET s == SourceOf(i) IN
                 /\ Moves(s, OutDirs \ InDirs, 4) /\ Truncated(Sent(i)) \in Int32 =>
                      tgtScalar[s] = Truncated(Sent(i))
                 /\ Moves(s, OutDirs \ InDirs, 8) => tgtScalar[s] = Sent(i)
      <3>1. srcScalar[SourceOf(i)] = Sent(i)
        BY <2>2 DEF ScalarInv, SourcesSent, TargetsSent
      <3> QED
        BY <2>1, <2>2, <3>1 DEF ScalarInv, TargetsSent
    <2>3. ASSUME stage = "mapIn", NoneRuns, NEW i \in Links, LastTo(i)
          PROVE  LET s == SourceOf(i)  now == sigScalar[SignalOf(i)] IN
                 /\ Moves(s, InDirs, 4) => now = ToDouble(found[s])
                 /\ Moves(s, InDirs, 8) => now = found[s]
                 /\ ~Moves(s, InDirs, 4) /\ ~Moves(s, InDirs, 8) =>
                      \A j \in Links : LastFrom(j) /\ SourceOf(j) = s => now = Sent(j)
      <3>1. sigScalar[SignalOf(i)] = srcScalar[SourceOf(i)]
        BY <2>3 DEF ScalarInv, MappedIn
      <3> QED
        BY <2>1, <2>3, <3>1 DEF ScalarInv, SourcesReceived
    <2> QED
      BY <2>2, <2>3 DEF CycleDelivers
  <1> QED
    BY <1>1, <1>2, <1>3, PTL DEF ScalarSpec

=============================================================================
