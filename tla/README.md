# Verification of dse.clib

dse.clib is the C library below the Dynamic Simulation Environment: a task
schedule, collections, marshalling between a model's variables and the signals
of a simulation, files (YAML, CSV, INI, MDF), child processes. This directory
holds TLA+ modules that model its components, the TLC configurations that check
them on small instances, and theorems that TLAPS proves for every value of the
constants. `PROJECT.json` lists components, runs, theorems, hazards, findings,
and for every definition the source lines it stands for. Paths below are
relative to `src/dse/clib/` unless they begin with `src/`.

    tlc -workers 2 -config MCSchedule.cfg MCSchedule    # one run
    tlapm ScheduleProofs.tla                            # one proof module

## 1. Inventory

| Component | State it keeps | Operations | What is hard | What makes it correct |
|---|---|---|---|---|
| **schedule** `schedule/schedule.c` | list of tasks (period, countdown), tick counter, init flag; reads a live delay signal | configure, add, tick, will_alarm, destroy; calls tasks and marshal callbacks | several ticks in one call, rounding, delay that moves both ways, counter wrap, tasks that join late | a task keeps its period; no time lost or gained; marshalling exactly around ticks that run a task |
| **hashmap** `collections/hashmap.c` | table of nodes, its size, a counter | init, set (and `_alt`, typed forms), get, remove, keys, iterate, clear, destroy | growth moves nodes inside one array; remove re-lays a run; failing realloc; NULL values | get returns what was last set; one node per key; arrays sized by the counter suffice; probes end |
| **hashlist** `collections/hashlist.h` | a hash map under the keys "0", "1", … | append, at, length | relies on the map's counter as the next key | entry i is what was appended i-th |
| **set** `collections/set.c` | table of keys, its size, a counter | add, remove, contains, to_array, clear, algebra, comparisons | as hashmap, and failing allocations inside the algebra | contents and algebra are those of sets |
| **queue** `collections/queue.c` | linked list of pointers | push, pop, free | limits | first in, first out |
| **vector** `collections/vector.h` | slots, keys beside them, capacity, length | make, resize, push, pop, set, delete, sort, find, clear, reset | stale slots, two arrays kept in step, start offsets | a sequence of entries; search finds what is there |
| **marshal** `data/marshal.c`, `util/binary.c` | groups of sources and targets, signal maps; buffers of three owners | group_out/in, signalmap_out/in, generate, destroy | deep copies, who frees what, calls in any order, shared signals, widths of scalars | one holder per block; data is delivered in order, without echo |
| **process** `process/process.c` | pids in a list of descriptors; the system's process table | start, signal, wait for one, any, all | children end at any time, pids are reused, waits are interrupted | no foreign process is touched; waiting for all reaps all and returns; own status |
| **process list** `process/process_list.c` | – | builds descriptors from a YAML file | – | – |
| **yaml** `util/yaml.c` | list of documents, trees of nodes; one pointer inside the loop | load, find by path, find in documents, typed getters, destroy | a stackless event loop, keys that come twice, errors in the middle | the tree is the document; every node has one holder; paths find what is there |
| **csv** `csv/csv.c` | open file, line buffer, vectors of header and fields | open, next row, field, close | lines too long, end of file, stale row | a row is read completely or not at all |
| **ini** `ini/ini.c` | vector of lines | open, get, set, delete, expand, write | edits of lines by position | last write wins, untouched lines stay |
| **mdf** `mdf/mdf.c` | offset in the output file, channel groups | create, start blocks, record | offsets computed before their targets are written | links point at the blocks they name; records have the declared length |
| **functional** `functional/` | list of objects, who destroys them | maps one after the other over a container, fold | objects of four owners; functions that pass on, multiply or drop what they get | the result is what the functions mean; every object is freed once |
| **util** `util/strings.c`, `util/ascii85.c` | – | expansion of variables, ascii85 | a last word that is short, zeros | decode(encode(x)) = x |
| **log** `src/dse/log.h`, `src/dse/logger.h` | a level | messages | – | – |
| **go file index** `src/extra/go/file/` | documents by kind and by file, save list | add, scan, find, update, save | a save that fails in the middle, documents shared with the caller, files added twice | what is saved is what the caller saw and changed |
| **go ast** `src/extra/go/ast/` | clang command, syntax tree, index | load, parse | visits by identity and by name, a command that is kept | the index is the header's |
| **go command** `src/extra/go/command/` | – | dispatch of arguments, log | – | – |
| **testscript** `src/extra/docker/testscript` | – | test harness | – | – |

How they interact. Everything is called in the caller's thread; the library
starts no thread. Interleaving comes from outside and from callbacks: the schedule
calls tasks and marshal callbacks between two of its own steps; child processes
end, and pids are reused, between two system calls of one loop; the owner of a
signal and the target's code write the buffers between two marshal calls.
Inside the library a hashlist is a hash map, YAML nodes hold hash maps and
hashlists, CSV and INI hold vectors, signal maps are made unique with a set, a
process list is read from YAML. Vendored code (xxhash, FMI headers), generated
schemas, examples and test data are not the library's own logic.

## 2. Plan

The modules in the order in which they were written, the most important
behaviour first.

| Module | Question | Abstract specification | Proofs |
|---|---|---|---|
| `Schedule` | does every task run on its beats? | `Deadlines` | all safety, refinement |
| `HashMap`, `HashMapStats` | does get find what set stored? are the reports true? | history `held` | all but `ReportsHold` |
| `Process` | who is waited for and signalled? | process table | all safety |
| `SimpleSet` | are the sets sets? | history `given` | all safety |
| `Marshal` | who owns which block, what is delivered? | histories `trail`, `was` | all safety |
| `Scalars` | what is left of a scalar after a cycle? | what was sent and found | all safety |
| `Yaml`, `YamlValues` | does the pointer stand for a stack? are values exact and alive? | `YamlDocs` | nodes, values |
| `Vector` | is it a sequence? | `VectorEntries` | all safety |
| `HashList` over `HashMap` | do the map's counter and the list agree? | history `appended` | all safety |
| `Queue` | do the links stay whole? | history `queued` | all safety |
| `Functional` | who frees an object? | what the functions mean | all safety |
| `Csv`, `Ini` | rows and edits | rows of the file; map of keys | rows of `Csv` |
| `Mdf` | do links and lengths agree? | a reader of the file | all safety |
| `FileIndex` (Go) | is what is saved what was seen? | history `wanted` | all safety |
| `HeaderIndex` (Go) | is the index that of the header? | the header | – |
| `Ascii85` | does it decode what it encoded? | identity | all safety |

Worth adding next: proofs for `Ini`, whose loops would have to be restated as
recursive functions first, as those of `SimpleSet`, `Functional`, `FileIndex`,
`Ascii85` and `Mdf` were.

Runs are few on purpose. Components that do not interact share one run, in which
a behaviour is one of a single part, chosen in the initial state
(`MCCollections`, `MCFiles`, `MCMaps`, `MCMarshal`).

## 3. The modules and the code

**`Schedule`** – `schedule/schedule.c` with the default tick and exec handlers
and marshal callbacks. `items` is the task list as (period, alarm) pairs, `tick`
the unsigned counter modulo `TickMod`, `initDone` the init flag, `delay` the value
of the signal. One call of `schedule_tick` is several steps: `ScheduleTick` computes
the bound of the loop (`Ticks`: whole beats after the 1% that absorbs rounding,
truncated and converted to int), `InitTick` is the init tick, `LoopTick` one
iteration, with `schedule_will_alarm` asked before the tick and marshal_out/in
around it. `ScheduleAdd` and `ScheduleDestroy` happen between calls.
Time is an integer; a fraction of a beat, rounding noise included, is a number
of units. History: iterations since the start, the latest schedule time seen,
what each task did. **`Deadlines`** is the abstract specification: jobs with
absolute deadlines on a clock of beats that never wraps. The refinement maps an
alarm to `elapsed + alarm`.

**`HashMap`** – `collections/hashmap.c`. Slots, `number_nodes`, `used_nodes`. A call
is one step, except the two loops that move nodes: growth (`__allocate_hashmap`)
and the relayout behind a remove make one step per slot, so that the invariants
speak about the table while it is being rearranged. The hash function is
chosen in the initial state and stays: TLC takes every function from the keys to
the given values, the proofs take any. realloc fails beyond `MaxNodes` (the code ignores
it). `hits` records the three events after which some promises are void: a wrap
met by a remove, a NULL value, a failed realloc. **`HashMapStats`** adds what is
computed from a map without changing it: the iterators, which look up every entry of
an array of `used_nodes` keys and may stop at the first error, and `hashmap_stats` with
its merge sort. Where a NULL value has made the counter larger than the nodes, the
iterators read NULL keys behind those written.

**`HashList`** – `collections/hashlist.h`. It EXTENDS `HashMap` and appends through
the map's own actions under the key `used_nodes`; a growth goes on step by step
between append and the next call. A failing realloc may lose an entry, which the
caller does not learn.

**`SimpleSet`** – `collections/set.c`. Two sets, every call one step, and the set
that the operations of the algebra fill, through the code's own add and growth: a new
set, or one that is there and empty (`Combine`); one that is occupied is refused
(`CombineOccupied`). Every key that a loop adds may find no memory, whatever the others
find. The result is destroyed before the next call on the two sets (`DropResult`).
The loops over the slots are recursive functions (`RelayoutNodes`, `Copy`). History:
`given`, the keys that should be in each, and the sets in which a remove has met a
run of nodes that wraps.

**`Queue`** – `collections/queue.c`: nodes on a heap with both links, head, tail
and counter. A push may fail; `q_free_alt` is a step per node. History: what is queued
(`queued`) and in which nodes (`order`).

**`Vector`** – `collections/vector.h`, both forms, slot by slot, stale slots included.
The insertion sort is computed as the code does; qsort and bsearch are external
(any sorted order of the items; halving). **`VectorEntries`** is a sequence of
(key, item) pairs with a stable sort.

**`Functional`** – `functional/functor.c`, `functional/map_fold.c`. One step of a
map is one entry of the container: the function's result, a single object or a
hash list, goes into the list of the map. `MapDone` destroys the list before it
with its objects, as the function said; the folds copy objects and free blocks.
Every object counts how often its block and its content were freed. `MaxFuncs` bounds
the functions of a call: with three, a map has lists of operation() on both sides.

**`Process`** – `process/process.c` over the system's process table (external): a
pid is free, running or a zombie, ours or somebody else's. Every loop over the
descriptors makes one step per entry, and between any two steps children end, and
foreign processes come, go and take freed pids.

**`Marshal`** – binary and string signals of `data/marshal.c` and `dse_buffer_append`
of `util/binary.c`. Memory is a heap of blocks with contents; sources, targets and
signal buffers are pointers. Loops make one step per entry. The target's code and
the signal's owner act between calls. **`Scalars`** – the same four calls for
scalars, those of the signal map link by link, those of the groups in one step: which
directions copy which way, through which width.
A double is a number of halves, so that a fraction can be lost.

**`Yaml`** – the event loop `_parse_file` of `util/yaml.c` with its constructors and
destructors, over a heap of nodes, and the searches by path, by selectors and by
kind, in a node, a document and a list. libyaml is external: a
stack of what it may send next, and an error at any point. **`YamlDocs`** reads the
same events with an explicit stack of open values; the refinement mapping reads the
stack off the chain of parents between the document and the loop's pointer.
**`YamlValues`** – the typed getters on one scalar. With interpolation
every read replaces the scalar's string, so the strings that were handed out are
kept in a history.

**`Csv`** – `csv/csv.c`: what one call consumes and answers, line by line; a line is blank
if it has nothing or one cell of blanks. **`Ini`** –
`ini/ini.c` with `dse_expand_vars` of `util/strings.c` on texts of tokens: the marks
the code looks for are tokens, what is between them words. **`Mdf`** – `mdf/mdf.c`:
`mdf_start_blocks` writes block after block with links into what is not written
yet; the reader (`Chain`, `ReadRecords`) knows only the file. **`Ascii85`** –
`util/ascii85.c`, with smaller bases that stand in the same relations.

**`FileIndex`** – `src/extra/go/file`: a save makes one step per document, each of
which may fail; the caller changes specs through the copies it has found.
**`HeaderIndex`** – `src/extra/go/ast`: clang is external (`ClangAst` says which nodes a
declaration becomes, and it may fail without an answer), the three visitors are the
code's. A tree that clang prints in spite of errors is taken for that of the header.

Every conjunct of a property that is called `...TypeOK` is the type invariant of
its module; it is checked with the property and has no run of its own.

## 4. What the runs check

All runs take two workers and two minutes or less. Sizes are the distinct
states found.

| Run | States | Bounds, and why they are enough | Shows |
|---|---|---|---|
| `schedule` | 250 000 | two tasks with periods 0 (init task), 2, 3; steps of 199/200 and 500/200 of a beat; delays 0 and 1.5 beats; 13 beats; tick counter of 12 values | rounding short of a beat, several ticks in a call, a delay that moves back and forth, a late join and the counter's wrap all occur, also combined |
| `maps` | 438 000 | hash map: three keys, every hash function onto slots 0, 7, 15; tables from 2 to 16 slots; `used_nodes` up to 3; NULL and two values. YAML: four nodes, two strings, two documents, paths of three names, two lost nodes | three keys are the fewest with a run of nodes, a hole in it and a node behind; the hash values make keys collide and runs wrap at every size. Four nodes nest a mapping in a sequence in a mapping with a value, or repeat a key whose old value is a subtree |
| `process` | 290 000 | two descriptors, three pids, exit code 2 and death by a signal | one pid more than children, so a freed pid goes to a foreign process or to the other child while a descriptor still has it |
| `set` | 265 000 | three keys, hash onto the ends, tables of 1 to 8 slots, any allocation may fail, each by itself; no add that would grow a table beyond 8 slots | as for the map; full tables of one and two slots occur; results go into new, into empty (there without denied memory) and into occupied sets |
| `marshal` | 840 000 | binary: two entries and one signal in five interfaces that together have every direction with both types, shared and separate containers; contents of two pieces, one of them the empty string. Scalar: two sources in four interfaces with every direction and size, crossing and shared links; values with a fraction and beyond an int32 | shared signals, echo, and every order of the calls with writes between them |
| `collections` | 203 000 | vectors of keys and items 0..2 and 1 to 4 slots; queues of four nodes; lists of four entries on tables of 1 to 8 slots, keys hashed onto both ends; seven functions, containers of up to three objects | two growths, stale slots, equal keys whose items tell whether a sort is stable; a queue through empty, one and many; a list that grows twice and fails to; every kind of function behind every other |
| `files` | 340 000 | a header and two lines of eight kinds, or three under a header of two names; two INI keys, five values, lines beyond the buffer; three MDF groups of up to two signals with names on and beyond a word; two files and two kinds of documents; texts at the ends of their types; two words and a part; headers of two declarations with structs to the second level | each part has every case its code distinguishes, and two of them after each other |
| `hashmap_wrap`, `hashmap_alt`, `set_full`, `vector_blank`, `mdf_lengths` | – | – | the disagreements of section 7 |

The properties, by what they would catch:

* `schedule`: `RunCount` (a periodic task has run exactly once per whole period
  since it was armed), `InitTasksOnce`, `MarshalMatchesRuns` (will_alarm predicts
  what the tick does), `CallCatchesUp` and `NeverAhead` (no beat is lost, the 1%
  does not accumulate), `ImplementsDeadlines` (refinement), `CallReturns` (liveness).
* `maps`, the hash map: `GetReturnsHeld`, `OneNodePerKey`, `KeysFit` (no overflow of the array
  that is sized by `used_nodes`), `CountsMatch`, `OnePassSettles` (answers a TODO of the
  code: one pass of moves is enough), `ReportsHold` (iterators visit every key once, or
  up to the first error; the statistics' O(n) and collisions are those of the searches).
* `process`: `PidsAreChildren`, `ChildrenAreKnown`, `WaitAllReaps`, `OwnStatus`,
  `WaitAllReturns` (liveness).
* `set`: `HoldsWhatWasGiven` (members, counter, and an exported array that fits),
  `AlgebraIsMeant` (operations and comparisons against `set.h`).
* `marshal`: `MemoryHolds` (one holder per block, buffers as large as their content,
  destroy frees the library's own), `OutDelivers`, `InDelivers` (in order, without echo),
  `MappedOnce`, `CycleDelivers` (scalars).
* `maps`, the YAML loader: `ImplementsDocs` (refinement), `HeldOnce` (no node lost, shared or
  freed twice, but for what the code loses after an error), `SearchesFind`.
* `collections`: `ImplementsEntries` (refinement) and `FindsKey` of vectors,
  `FirstInFirstOut`, `EntriesInOrder`, `PassesOwn` (every object is freed once).
* `files`: `RowPerCall` (csv), `IniHolds` (a map that survives writing and reading),
  `FileReadsBack` (mdf: links lead where they mean, records are cut as they were
  written), `SavesWhatIsSeen` (file index), `AnswersHold` (yaml getters: exact
  values, living strings), `RoundTrips` (ascii85), `IndexIsOfHeader` (go ast).

Promises that the code makes only under conditions name them: "until a remove
meets a run that wraps", "while realloc works", "unless the wait was interrupted".
The conditions that limit the other properties are:

* set: full tables of one or two slots are excepted in `AlgebraIsMeant` (section 7).
* yaml: a search in documents of one kind also searches those without a
  kind; `dse_yaml_get_array` goes on with the NULL of a name that is missing,
  although `process_list.c` expects a NULL back, so it is called on names that are there.
* yaml values: with interpolation, `dse_yaml_get_string` returns a string that its own
  later reads have freed; unsigned values beyond INT_MAX are refused.
* csv: the header passes over empty names and rows keep empty cells, so such a
  file has no row that fits.
* ini: "${" without its closing brace copies the text before it twice.
* mdf: groups of different sizes are cut wrongly (section 7); the links of a group
  without signals lead on to what is no channel.
* file index: documents of unknown kinds are dropped on saving their file; a
  file added again keeps its former documents in front.
* go ast: the command keeps the first path, and a failing clang the last tree; structs with a
  tag inside others are lost; a tag that is also a foreign type's name is mixed up with it.
* scalars: 4 byte targets pass through an int32, whatever their type; those of 1
  and 2 bytes are not moved; a signal that is only sent is overwritten by the in
  call with what was sent last.
* functional: a function that passes on what the map before made to be destroyed.
* hashmap_stats: a run of used slots at the end of the table is not counted.

**Fairness.** `Schedule`: weak fairness of `InitTick` and `LoopTick`, because nothing
inside a call waits; no fairness of calls, so the simulation may stop at any
time. `Process`: the caller runs on when its `waitpid` can return, and a child that
is waited for ends at some time; the second is an assumption on the children, and
without it waiting for them need not end. The other modules assume none.
`process` turns deadlock checking off: the caller exits when fork fails, and when
the system has no process left that could end nothing happens.

## 5. What is proved

TLAPS proves these for every value of the constants under the named assumptions
of the modules (types and ranges of the constants, and what is said below).

* **`ScheduleProofs`**. `TypeCorrect`; `RunsOnSchedule`, `InitTasksRunOnce` and
  `MarshalExact`; `NotAheadOfTime` and `CallsCatchUp`; `ScheduleRefines` (every step is
  a step of `Deadlines` or a stutter). `RunCount` is not inductive: what was counted says
  nothing of the alarm that decides the next run. `IInv` adds that before the init
  tick nothing is armed (`BeforeInit`), that the counter is the number of iterations
  until it wraps (`TickCounts`), and that between iterations an alarm is the distance
  to the next multiple of the period from the beat the task was armed at
  (`OnSchedule`). Time needs a second invariant, `KeepsTime`, with the bound of the loop as
  an inequality; the two theorems about time assume `LagsFitInt`, that one lag fits
  the int of the loop bound, as a hypothesis. `MCSchedule` assumes it too, and TLC
  evaluates it.
* **`HashMapProofs`**. `HashMapTypes` and `KeysAlwaysFit` from
  `Safe`; `LoadIsBounded` from `RoomyTable`, for tables of at least two slots (a
  probe meets an empty slot);
  `GetsWhatWasSet`, `KeysStayUnique` and `CountsAgree` from `IInv`. The argument: a table is
  laid out when no slot between a node's home and its place is empty (`LaidOut`).
  Behind a remove exactly one hole moves upward and only unvisited nodes may have it
  before them (`OneHole`); a growth pass that has not moved anything has found every
  node it passed where it is (`PassFound`), so that the pass that ends the loop
  proves the layout. `ProbeEnds`, `ProbeEndsAt` and `RelayoutMoves` say what a probe and a
  move do in terms of slots.
  `GrowthSettles` says that no growth needs a second pass, the question of the TODO in
  `__allocate_hashmap`. Its invariant `Settles` follows the first pass. The nodes of the
  old table fill at most half of the doubled one, and at first all of them lie in its lower half
  (`InLower`, `InUpper`). A visited node stays found unless a slot on its way is emptied
  later. That could only happen over the end of the table, and does not: some slot
  of the upper half stays empty, and no node behind it moves (`Beyond`). It needs
  nothing of the layout before, so it holds behind a remove that hid nodes as well.
  `ListKeepsOrder`, about `HashList`: every entry is at its place, for every hash
  function, table and number of entries, growth and failing reallocs included.
  `ListInv` is the map's `IInv` with three facts of the list: the keys of nodes
  are below the counter, what the map holds under a place is what was appended
  there, and no call that voids the map's promises is made. The lemma that carries it
  is `NewKeyFindsRoom`: a probe for a key no node has ends at an empty slot or the
  table is full. Assumed: the keys contain 0 up to the bound of the counter.
* **`SetProofs`**. `SetsHoldWhatWasGiven` and `AlgebraIsAsMeant`, for every set of keys,
  every hash function and tables of every size. A set is good (`Good`) when a search meets
  every node where it is (`Finds`) and the counter is the number of keys; then no key has
  two nodes. `GrowthFinds` follows the one pass of a growth, with the argument of
  `GrowthSettles` (the lemmas of the probe are those of `HashMapProofs`, restated for tables
  of any size): it ends with every node found, whatever the table was before.
  `RemoveFinds` moves the hole of a remove up to the empty slot that ends the pass; at the
  end of the table that is slot 0, or the remove is recorded in `given.wrap`.
  `CopyKeeps` says what a loop of the algebra adds, by induction over the slots
  read (`CopyPasses`). `SetInv` has that a set without such a remove is good and has
  the keys given, and that the result is good even if the two sets are not, as
  adds alone have filled it. Also where a remove has hidden nodes there are never
  more nodes than the counter says (`IsSet`), so an exported array fits.
* **`MarshalProofs`**. `MemoryIsOwned`, `SignalsMappedOnce`, `OutIsDelivered` and
  `InIsDelivered`, for every table of entries and signals and every order of the calls.
  `MemoryInv` has the types, that blocks and pointers are matched one to one (`Owned`), also
  in the middle of a loop, and `BufferHoldsContent`. At each step one pointer gives its block
  up or gets a free one; that one is free follows from counting (`FreeBlock`: there are more
  blocks than pointers), which is where the assumption that malloc succeeds enters. `LinkInv`
  adds that the set has a mark for every signal mapped or refused; `OutInv` that what the
  calls have done so far, up to the entry they are at, is delivered. In the other direction
  several entries bring parts of one signal, so `InInv` counts in two parts what is due: the
  sum of what the entries up to the one at hand have brought (`Arrived`), and what the rest
  still hold (`Dues`); at the end of the call nothing is due. That the contents come in the
  order of the entries is an induction over them (`FlattenStep`, `ContentsAssociate`).
  `ScalarsAreDelivered`: every cycle, for every interface whose groups have sources of their
  own (an assumption of `Scalars`) and every range of an int32. A later link may overwrite
  what an earlier one wrote, so `ScalarInv` says of a running call that the last link so far
  to a place has decided it (`MappingOut`, `MappingIn`); behind the loop "so far" falls away.
  For the stages between it says what sources and targets have (`SourcesSent`, `TargetsSent`,
  `SourcesReceived`).
* **`CollectionProofs`**. `VectorTypesHold`, `VectorIsEntries`, `VectorFindsKeys`, for vectors
  of both forms and any length. `VectorIsEntries` is the refinement of `VectorEntries`, action
  by action (`PushAppends`, `DeleteAtDeletes`, `SortSorts`, ...). The insertion sort yields
  the one order in which keys rise and equal keys keep their places (`InsertionSortIsOrder`:
  one entry more goes behind the last that is not larger). For qsort, of which only sortedness
  is known, `SortedNotAbove` shows that two sorted arrangements hold the same items: a larger
  one at a place would leave too few places for the smaller ones. `HalvingFinds` is the
  invariant of bsearch: the part that was dropped has no such key. Also
  `QueueIsFirstInFirstOut`, for every number of nodes. `FirstInFirstOut` is inductive as it
  stands: with `NoneLost` and `ChainHolds` it says of every node where its links lead, also
  while the queue is being freed. The lemma `FrontGoes` says what taking the first node away
  does, for both pops and the free loop. And `FunctionsPassWhatTheyOwn`, for calls of any
  number of functions over any container and with any fold. `PassesOwn` speaks of what was
  freed, and says nothing of whether it will be again. `FunctionalInv` adds who made an
  object: what was made two functions ago is freed as its function said, and once (`Freed`);
  the list of a function that makes objects has all of them, each once, and knows how they are
  destroyed (`Owned`), so that cleaning it up frees them once (`DestroysOnce`). That nothing
  borrows what goes (`Alive`) is where `Borrows` enters. The result is followed entry by entry
  (`Means`, `MeantByStep`) and function by function (`AfterIs`).
* **`YamlProofs`**. `EveryNodeIsHeldOnce`, for every set of strings and nodes and every bound.
  `HeldOnce` says nothing of where the loop is, and so is not inductive. `YamlInv` has
  three parts. The nodes are a grove (`Grove`): the trees under the roots and what was
  lost share nothing, and the parent of a node is its only holder. Every node is well
  formed, and a child of a mapping has the name of its key (`Tabled`): without the
  name, one child could be under two keys, of which the destructor frees one. The
  levels that libyaml is at are the nodes above the loop's pointer, each of the type its
  level asks for (`Ladder`, `AtTop`). What is below a node is the least closed set that has
  it (`Reached`), so that the lemmas on trees need no induction: `GroveWithRoot`,
  `GroveWithout`, `GroveCut` and `GroveReplaced` say what a new document, an error, a
  destroyed list and a new node make of a grove.
* **`Induction`**. What the proofs about recursive definitions rest on. The theorems of the
  library's induction modules take a predicate or an operator as a parameter, which the
  provers cannot instantiate. Stated about sets and functions they can be cited: `NatInd` and
  `NatIndBelow` (a set that is closed under successors, or that has a number with all smaller
  ones, is all of `Nat`), `NatRec` and `NatRecBelow` (a step has a function that follows it),
  `LoopRec` and `LoopInd` (the same for the passes of a loop). They are proved from the
  well-foundedness of strict inclusion of finite sets. And what the probes need of division
  with remainder, and what a sequence of sequences is when one more is joined to it
  (`FlattenLoop`, `FlattenStep`).
* **`SystemProofs`**, for processes and files. `ProcessTypes`, `PidsStayChildren`,
  `ChildrenStayKnown`, `WaitAllReapsAll` and `WaitReturnsOwnStatus`. The first two properties
  about pids and children need each other (a fork takes a pid that is free, hence held by no
  descriptor), and `Behind` says that `waitfor_all` has left no pid behind it. `CallsReadRows`
  is about `Csv`: for all files over any set of cells and every size of the line buffer, a
  call consumes one row and answers it as it is. `CsvInv` says what `RowPerCall` leaves open:
  how many lines the reader has taken from the file (`Reader`), that the calls so far are as
  many as the rows among these, and that what is left is the rest of the file. A call that
  skips blank lines takes several. `GettersAnswer` is about `YamlValues`: texts that read as
  anything and expand to anything, and ints of any width. `AnswersHold` is inductive; what it
  takes is that the low bits of a long, read as an int, are the one number of the int's range
  that differs from it by a multiple of 2^w (`WrappedIs`). Assumed: an unsigned has more than
  one bit (of one bit, the 1 of a true word would be the largest number), and EINVAL is no
  number. `SavesAreSeen` is about `FileIndex`, for any files, documents and number of calls.
  `SavesWhatIsSeen` says nothing of the index, through which the caller's changes go to the
  file. `IndexInv` adds that for a file added once the places of the file point at its
  documents in their order (`Pointed`), that every document in the index that is of this file
  is at one of those places, and that no two documents of it have the same kind and name: so a
  change through a search reaches one document, the one that is saved. `AddDocumentAdds` is
  one pass of the loop of Add, `ScanStep` one of that of Scan. A save that goes on has written
  the first documents (`WrittenSoFar`). Assumed: the kind and name of a document are unique in
  its file. `DecodesAgain` is about `Ascii85`, for byte sequences of every length. The digits
  of a word make that word again, and the bytes of a word are its bytes, by induction along
  the division (`Digits`) and the multiplication (`Composed`). `EncodedIs` says that what was
  encoded is worth the digits of all words but those cut off: a "z" stands for the five of a
  word of zeros, and never for a last word that is cut. Of a cut word as many digits are
  lacking as bytes: filled up with the highest digit it grows by less than the lacking bytes
  could hold, so the bytes that are kept are those of the source (`WordComesBack`). Assumed,
  and true of 256 and 85: a digit holds no more than a byte, five digits hold a word, "z" is
  no digit. `FilesReadBack` is about `Mdf`, for every list of groups and signals, names of any
  length and any number of streams and records. `FileReadsBack` says nothing before the file
  is complete, and the links are written long before what they lead to. `BlocksInv` is about
  the places that blocks are to have: sums of the sizes before them (`StartOf`, `ChannelAt`,
  `GroupPlace`), which depend on the groups alone, so that an offset computed early and one
  reached late agree (`PlacesAre`, `GroupSumsAre`). It says which blocks the file has while
  the loops are at `cg` and `cn`, each at its place, and where the next one goes. Blocks lie
  behind each other (`Placed`), so that a place has one block (`BlockIs`), and a chain of
  links leads through the list it was made from (`ChainIs`). `RecordsInv` says that the data
  are the words of the records in pieces of one length; `CutIs` follows the reader from end to
  end. The proof showed two conditions to be idle that the property once had: records of
  groups whose names collide, or that have no signals, are cut where they end, too.

## 6. What is only model-checked, and what is not modelled

Only model-checked: liveness (`CallReturns`, `WaitAllReturns`), which the prover does
not reach; `HashMapStats` and `HeaderIndex`, which use RECURSIVE operators;
`SearchesFind` and `ImplementsDocs` of `Yaml`, and `Ini`. Induction
over numbers, and over sequences by their length, is within reach through the module
`Induction`; trees and texts have not been done that way and stay with TLC,
on the bounded inputs above.

Abstracted: strings are model values or sequences of tokens; doubles are integers (`Schedule`,
`Scalars`) or absent; messages to the log, formatting and locale are left out; a C pointer to
user data is a value. Allocation fails where the code handles or ignores it visibly
(`HashMap`, `HashList`, `SimpleSet`, `Queue`); elsewhere it succeeds. Files can be read and
written, but for the saves of the Go index and errors of libyaml.

Not modelled, and why:

* `process_list.c` builds descriptors once from a YAML file. It calls the YAML loader with
  an outdated signature and is not part of the build.
* `marshal`: the functions by which an interface may replace string copies, and the destroy of a
  signal map, which frees its index arrays. `MarshalStruct` is declared only.
* `yaml`: alias events. The code ignores them, so that the key before one stays open; no
  document or test says what they should do. Keys that are not scalars are asserted against.
* `hashmap`: entries stored under a 32 bit hash (`collections/hashmap.h:204`). They are kept
  under that hash and not the one of their text, so that neither `hashmap_get` nor the
  iterators, which look texts up (`collections/hashmap.c:225`), find them.
* Callbacks that change the vector or map they iterate over, and `schedule_add` from
  inside a task, which reallocates the list under iteration: the headers do not allow them,
  and the result is what memory happens to hold.
* `kill(0)` after a wait, which signals the caller's group: `Process` has the
  behaviour, but nothing says what should happen, so no property judges it.
* the Go command dispatch (no state), the log (formatting and a level), the test
  harness, vendored and generated code (xxhash, FMI headers, schemas), examples.

Of the implementation's lines about a fifth are mapped. Half of the lines are
vendored: `data/xxhash.h` alone has 7343, the FMI headers 1900. What is left unmapped
of the components above is doc comments, declarations, includes and messages.

## 7. Disagreements found while modelling

Each has a run whose property states the document and which TLC violates.

* `hashmap_wrap` – the relayout behind a removed node stops at the last slot. Where the
  run of nodes continues at slot 0, a key that is stored is no longer found
  (`collections/hashmap.c:317`).
* `hashmap_alt` – `hashmap_set_alt` over a key inserted by `hashmap_set` does not make the map
  free the value (`collections/hashmap.c:376`).
* `set_full` – a search in a set whose slots are all used, which can be one of one or two
  slots, ends with "circular". `set_is_subset` takes that for "contained"
  (`collections/set.c:217`).
* `vector_blank` – appending NULL promises a zero-initialized slot and leaves what a
  popped or deleted item left there (`collections/vector.h:262`).
* `mdf_lengths` – every channel group declares the record length of the first, while
  records have that of their own group (`mdf/mdf.c:373`).
