--------------------------------- MODULE Mdf ---------------------------------
(***************************************************************************)
(* The MDF4 stream of dse/clib/mdf/mdf.c: blocks that link to blocks by    *)
(* their offset, most of them before those are written, then records.      *)
(* mdf_start_blocks makes one step per pair of blocks here.  Writes do not *)
(* fail, although the code goes on when they do.                           *)
(*                                                                         *)
(* A name is its length; what names hash to is chosen in the initial       *)
(* state.  Of a block its place, kind and the links and numbers a reader   *)
(* follows are kept; the data section is a sequence of 8 byte words.       *)
(***************************************************************************)
EXTENDS Naturals, Sequences, SequencesExt

CONSTANTS
  Names,      (* the names of groups, as lengths                           *)
  Groups,     (* lists of groups [name, signal] a stream may be created of *)
  RecordIds,  (* values of generate_uid_hash                               *)
  MaxRecords  (* bound: calls of mdf_write_records                         *)

ASSUME LengthsAssumption == Names \subseteq Nat
ASSUME GroupsAssumption == Groups \subseteq Seq([name : Names, signal : Seq(Nat)])
ASSUME RecordsAssumption == MaxRecords \in Nat

VARIABLES
  list,       (* mdf->channel.list                                         *)
  recordId,   (* generate_uid_hash                                         *)
  offset,     (* mdf->offset                                               *)
  blocks,     (* what is in the file up to the data block                  *)
  phase,      (* "head", "master", "channel", "group", "data", "records"   *)
  cg, cn,     (* idx_cg and idx_cn, from one                               *)
  first,      (* in_cg_cn_first                                            *)
  dgFirst,    (* in_dg_cg_first                                            *)
  data,       (* the words behind the data block                           *)
  records     (* history: the records that were written                    *)

mdfVars == <<list, recordId, offset, blocks, phase, cg, cn, first, dgFirst, data, records>>

(* sizeof the structures of block.h.                                       *)
HeaderSection == 24
SizeOf == [ID |-> 64, HD |-> HeaderSection + 48 + 32, FH |-> HeaderSection + 16 + 16,
           MD |-> HeaderSection, TX |-> HeaderSection, CN |-> HeaderSection + 64 + 72,
           CG |-> HeaderSection + 48 + 32, DG |-> HeaderSection + 32 + 8, DT |-> HeaderSection]
Metadata == 152   (* sizeof md_data_0, which its text just fills           *)

(* get_offset: a text with its end, in words.                              *)
Fulfilment(size) == IF size % 8 = 0 THEN 0 ELSE 8 - (size % 8)
GetOffset(name) == name + 1 + Fulfilment(name + 1)

Signals(g) == list[g].signal
TextSize(name) == SizeOf.TX + GetOffset(name)
MasterSize == SizeOf.CN + SizeOf.TX + 8
GroupSize(g) == SizeOf.CG + TextSize(list[g].name)

(* The loops that add up sizes, by what they have after each pass: over    *)
(* the channels of a group, and, in calculate_dg_first, over the groups.   *)
SumsFrom(start, sizes) ==
  LET sum[i \in 0..Len(sizes)] == IF i = 0 THEN start ELSE sum[i - 1] + sizes[i]
  IN sum
ChannelSums(g) ==
  SumsFrom(0, [n \in DOMAIN Signals(g) |-> SizeOf.CN + TextSize(Signals(g)[n])])
ChannelsSize(g) == ChannelSums(g)[Len(Signals(g))]
GroupSums ==
  SumsFrom(SizeOf.ID + SizeOf.HD + SizeOf.FH + SizeOf.MD + Metadata,
           [g \in DOMAIN list |-> MasterSize + ChannelsSize(g) + GroupSize(g)])
DgFirst == GroupSums[Len(list)]
CgNextSame(g) == GroupSize(g) + MasterSize + ChannelsSize(g)
CgNext(g) == GroupSize(g) + MasterSize + ChannelsSize(g + 1)
CnNext == offset + SizeOf.CN + TextSize(Signals(cg)[cn])

(* _fwrite_block, of a block, and _fwrite_block_with_data of the text that *)
(* most blocks are followed by.                                            *)
FwriteBlockWithText(block, size) ==
  LET text == offset + SizeOf[block.kind] IN
  /\ blocks' = blocks \o <<block, [at |-> text, kind |-> "TX"]>>
  /\ offset' = text + SizeOf.TX + size

-----------------------------------------------------------------------------
MdfInit ==
  /\ list \in Groups
  /\ recordId \in [Names -> RecordIds]
  /\ offset = 0 /\ blocks = <<>>
  /\ phase = "head"
  /\ cg = 1 /\ cn = 1
  /\ first = 0 /\ dgFirst = 0
  /\ data = <<>> /\ records = <<>>

(* The identification, header, file history and metadata blocks.           *)
WriteHead ==
  LET hd == SizeOf.ID
      fh == hd + SizeOf.HD
      md == fh + SizeOf.FH
  IN /\ phase = "head"
     /\ blocks' = <<[at |-> 0, kind |-> "ID"],
                    [at |-> hd, kind |-> "HD", dgFirst |-> DgFirst, fhFirst |-> hd + SizeOf.HD],
                    [at |-> fh, kind |-> "FH", comment |-> fh + SizeOf.FH],
                    [at |-> md, kind |-> "MD"]>>
     /\ offset' = md + SizeOf.MD + Metadata
     /\ phase' = IF list = <<>> THEN "data" ELSE "master"
     /\ UNCHANGED <<list, recordId, cg, cn, first, dgFirst, data, records>>

ToChannel(n) == IF n <= Len(Signals(cg)) THEN "channel" ELSE "group"

WriteMaster ==
  /\ phase = "master"
  /\ FwriteBlockWithText(
       [at |-> offset, kind |-> "CN", next |-> offset + MasterSize,
        name |-> offset + SizeOf.CN, byteOffset |-> 0], 8)
  /\ first' = offset
  /\ cn' = 1
  /\ phase' = ToChannel(1)
  /\ UNCHANGED <<list, recordId, cg, dgFirst, data, records>>

WriteChannel ==
  /\ phase = "channel"
  /\ FwriteBlockWithText(
       [at |-> offset, kind |-> "CN", next |-> IF cn < Len(Signals(cg)) THEN CnNext ELSE 0,
        name |-> offset + SizeOf.CN, byteOffset |-> 8 * cn],
       GetOffset(Signals(cg)[cn]))
  /\ cn' = cn + 1
  /\ phase' = ToChannel(cn + 1)
  /\ UNCHANGED <<list, recordId, cg, first, dgFirst, data, records>>

(* cg_data_bytes: of the first group, for all; one more for the master.    *)
DataBytes == 8 * (Len(Signals(1)) + 1)
WriteGroup ==
  /\ phase = "group"
  /\ FwriteBlockWithText(
       [at |-> offset, kind |-> "CG",
        next |-> IF cg < Len(list) THEN offset + CgNext(cg) ELSE 0,
        cnFirst |-> first, name |-> offset + SizeOf.CG,
        id |-> recordId[list[cg].name], dataBytes |-> DataBytes],
       GetOffset(list[cg].name))
  /\ dgFirst' = IF cg = 1 THEN offset ELSE dgFirst
  /\ cg' = cg + 1
  /\ phase' = IF cg < Len(list) THEN "master" ELSE "data"
  /\ UNCHANGED <<list, recordId, cn, first, data, records>>

(* The data group and data blocks.                                         *)
WriteData ==
  /\ phase = "data"
  /\ blocks' = blocks \o
       <<[at |-> offset, kind |-> "DG", cgFirst |-> dgFirst, data |-> offset + SizeOf.DG],
         [at |-> offset + SizeOf.DG, kind |-> "DT"]>>
  /\ offset' = offset + SizeOf.DG + SizeOf.DT
  /\ phase' = "records"
  /\ UNCHANGED <<list, recordId, cg, cn, first, dgFirst, data, records>>

(* mdf_write_records, with write_data_record: the group's id, the time and *)
(* its samples.                                                            *)
RecordOf(g, time) == [group |-> g, words |-> [i \in 1..Len(Signals(g)) + 1 |->
  IF i = 1 THEN [time |-> time] ELSE [sample |-> time, of |-> <<g, i - 1>>]]]
WordsOf(record) == <<[id |-> recordId[list[record.group].name]]>> \o record.words
WriteRecords ==
  LET time == Len(records) + 1
      new == [g \in DOMAIN list |-> RecordOf(g, time)]
  IN /\ phase = "records" /\ list # <<>>
     /\ Len(records) < MaxRecords * Len(list)
     /\ records' = records \o new
     /\ data' = data \o FlattenSeq([g \in DOMAIN new |-> WordsOf(new[g])])
     /\ UNCHANGED <<list, recordId, offset, blocks, phase, cg, cn, first, dgFirst>>

(* mdf_create, of another stream for the same groups.                      *)
MdfCreate ==
  /\ phase = "records"
  /\ offset' = 0 /\ blocks' = <<>>
  /\ phase' = "head"
  /\ cg' = 1 /\ cn' = 1 /\ first' = 0 /\ dgFirst' = 0
  /\ data' = <<>> /\ records' = <<>>
  /\ UNCHANGED <<list, recordId>>

MdfNext ==
  \/ WriteHead \/ WriteMaster \/ WriteChannel \/ WriteGroup \/ WriteData
  \/ WriteRecords \/ MdfCreate

-----------------------------------------------------------------------------
(* A reader of the file.  Block: the one at an offset that was followed.   *)
Block(at) == CHOOSE b \in Range(blocks) : b.at = at
IsBlock(at, kind) == \E b \in Range(blocks) : b.at = at /\ b.kind = kind

(* The offsets met along a chain of next links, and no more than there are *)
(* blocks.                                                                 *)
NextOf(at) ==
  IF at # 0 /\ (IsBlock(at, "CN") \/ IsBlock(at, "CG")) THEN Block(at).next ELSE 0
Chain(from) ==
  LET link[n \in 0..Len(blocks)] == IF n = 0 THEN from ELSE NextOf(link[n - 1])
  IN [n \in {n \in 1..Len(blocks) : link[n - 1] # 0} |-> link[n - 1]]
ReadGroups == Chain(Block(Block(SizeOf.ID).dgFirst).cgFirst)

(* Cutting the data section into records, by the length its group declares.*)
Declared(id) ==
  LET groups == {g \in Range(ReadGroups) : Block(g).id = id}
  IN Block(CHOOSE g \in groups : TRUE).dataBytes \div 8
RecordEnd(i) ==
  CASE i > Len(data) -> i
    [] i <= Len(data) /\ DOMAIN data[i] # {"id"} -> Len(data) + 2
    [] OTHER -> i + 1 + Declared(data[i].id)
ReadRecords ==
  LET start[k \in 0..Len(data)] == IF k = 0 THEN 1 ELSE RecordEnd(start[k - 1])
  IN [k \in {k \in 1..Len(data) : start[k - 1] <= Len(data)} |->
        IF start[k] > Len(data) + 1 THEN <<>> ELSE SubSeq(data, start[k - 1], start[k] - 1)]

-----------------------------------------------------------------------------
(* Properties.                                                             *)

MdfTypeOK ==
  /\ list \in Groups /\ recordId \in [Names -> RecordIds]
  /\ phase \in {"head", "master", "channel", "group", "data", "records"}
  /\ cg \in 1..Len(list) + 1
  /\ \A b \in Range(blocks) : b.kind \in DOMAIN SizeOf /\ b.at % 8 = 0 /\ b.at < offset

(* Every link leads to the block it means, though it is computed before    *)
(* that is written: from the header to the groups in their order, from     *)
(* each of them to its channels in theirs, to the names and to the data.   *)
(* Groups without signals are excepted: their master channel leads on to   *)
(* what is no channel.                                                     *)
LinksLead ==
  /\ MdfTypeOK
  /\ (phase = "records" /\ \A g \in DOMAIN list : Signals(g) # <<>>) =>
    LET hd == Block(SizeOf.ID) IN
    /\ IsBlock(hd.dgFirst, "DG") /\ IsBlock(hd.fhFirst, "FH")
    /\ IsBlock(Block(hd.fhFirst).comment, "MD")
    /\ IsBlock(Block(hd.dgFirst).data, "DT")
    /\ Block(hd.dgFirst).data + SizeOf.DT = offset
    /\ Len(ReadGroups) = Len(list)
    /\ \A g \in DOMAIN list :
         /\ IsBlock(ReadGroups[g], "CG") /\ IsBlock(Block(ReadGroups[g]).name, "TX")
         /\ Block(ReadGroups[g]).id = recordId[list[g].name]
         /\ LET channels == Chain(Block(ReadGroups[g]).cnFirst) IN
            /\ Len(channels) = Len(Signals(g)) + 1
            /\ \A n \in DOMAIN channels :
                 /\ IsBlock(channels[n], "CN") /\ IsBlock(Block(channels[n]).name, "TX")
                 /\ Block(channels[n]).byteOffset = 8 * (n - 1)

(* A reader that goes by the declared lengths gets the records that were   *)
(* written, as long as groups have as many signals as the first of them,   *)
(* for which alone the length is computed; even groups whose names collide *)
(* are cut where they end, and even those without signals.                 *)
RecordsReadBack ==
  (phase = "records" /\ \A g, h \in DOMAIN list : Len(Signals(g)) = Len(Signals(h))) =>
    ReadRecords = [i \in DOMAIN records |-> WordsOf(records[i])]

(* What mdf.c has written is a file that can be read.                      *)
FileReadsBack == LinksLead /\ RecordsReadBack

(* mdf.h:25, "Data is saved according to the ASAM Standards", by which a   *)
(* group declares the length of its own records; the comment on the        *)
(* computation is "+1 == master channel".                                  *)
LengthsDeclared ==
  phase = "records" =>
    \A g \in DOMAIN list :
      LET groups == SelectSeq(blocks, LAMBDA b : b.kind = "CG")
      IN groups[g].dataBytes = 8 * Len(RecordOf(g, 1).words)

=============================================================================
