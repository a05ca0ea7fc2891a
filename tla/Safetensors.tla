---------------------------- MODULE Safetensors ----------------------------
(***************************************************************************)
(* SafetensorsFile: the framing, the header's entries, the layout of the   *)
(* data section, and the tensors a file gives.  A file is a record: its    *)
(* size, the header length it claims, <<header>> or <<>> when that text is *)
(* not JSON; a header that is an object has its entries in name order,     *)
(* <<name, node>>, and <<metadata>> or <<>>.                               *)
(***************************************************************************)
EXTENDS TensorViews
LOCAL INSTANCE SequencesExt
LOCAL INSTANCE TLC

kMaxHeaderLen == 64          \* scaled from 256 MiB
NotFound == "NotFound"

\* The format's names of the engine's types, and those the engine lacks.
SafetensorsDtypes ==
  [F32 |-> "float32", F16 |-> "float16", BF16 |-> "bfloat16", I8 |-> "int8", U8 |-> "uint8", I32 |-> "int32",
   I64 |-> "int64", BOOL |-> "bool", F8_E4M3 |-> "fp8_e4m3"]
KnownUnsupported == {"F64", "I16", "U16", "U32", "U64", "F8_E5M2"}
ParseSafetensorsDtype(name) ==
  Require(name \notin KnownUnsupported, Unimplemented) && Require(name \in DOMAIN SafetensorsDtypes, Invalid)

ParseShapeField(node) ==
  Require(node.t = "arr", Invalid)
  && (Require(\A i \in DOMAIN node.v : node.v[i].t = "int" /\ node.v[i].v <= Int64Max, Invalid)
  && FromDims([i \in DOMAIN node.v |-> node.v[i].v]))

ParseDataOffsets(node, data_size) ==
  Require(node.t = "arr" /\ Len(node.v) = 2, Invalid)
  && (Require(\A i \in 1..2 : node.v[i].t = "int" /\ node.v[i].v >= 0, Invalid)
  && (Require(node.v[1].v <= node.v[2].v, Invalid) && Require(node.v[2].v <= data_size, Invalid)))

ParseMetadataBlock(node) == Require(node.t = "obj" /\ \A k \in DOMAIN node.v : node.v[k].t = "str", Invalid)

\* A parsed entry: type, shape and byte range in the data section.
RawEntry(node) ==
  [dtype |-> SafetensorsDtypes[node.v["dtype"].v], dims |-> [i \in DOMAIN node.v["shape"].v |-> node.v["shape"].v[i].v],
   begin |-> node.v["data_offsets"].v[1].v, end |-> node.v["data_offsets"].v[2].v]
ParseEntry(node, data_size, data_start) ==
  Require(node.t = "obj" /\ DOMAIN node.v = {"dtype", "shape", "data_offsets"}, Invalid)
  && (Require(node.v["dtype"].t = "str", Invalid) && (ParseSafetensorsDtype(node.v["dtype"].v)
  && (ParseShapeField(node.v["shape"]) && (ParseDataOffsets(node.v["data_offsets"], data_size)
  && LET e == RawEntry(node)
         bytes == numel(e.dims) * itemsize(e.dtype)
     IN Require(bytes <= Uint64Max, Invalid) && (Require(e.end - e.begin = bytes, Invalid)
        && Require((data_start + e.begin) % itemsize(e.dtype) = 0, Invalid))))))

\* Mutant: ranges are sorted by their begin alone, so an empty one may come after the one it precedes.
RangesByBegin(entries) == SortSeq([i \in DOMAIN entries |-> i], LAMBDA i, j :
  entries[i].begin < entries[j].begin \/ (entries[i].begin = entries[j].begin /\ entries[i].end > entries[j].end))
Ranges(entries) == SortSeq([i \in DOMAIN entries |-> i], LAMBDA i, j :
  entries[i].begin < entries[j].begin
  \/ (entries[i].begin = entries[j].begin /\ (entries[i].end < entries[j].end \/ (entries[i].end = entries[j].end /\ i < j))))
\* The cursor walk: every range starts where the one before ended, the last at the section's end.
ValidateDataSectionLayout(entries, data_size) ==
  LET order == Ranges(entries)
      cursor == FoldLeft(LAMBDA at, i : IF at = entries[i].begin THEN entries[i].end ELSE -1, 0, order)
  IN Require(cursor = data_size, Invalid)

\* The first failure over a sequence of statuses.
FirstFailure(statuses) ==
  LET failing == {i \in DOMAIN statuses : statuses[i] # Ok}
  IN IF failing = {} THEN Ok ELSE statuses[CHOOSE i \in failing : \A j \in failing : i <= j]

DataStart(file) == 8 + file.header_len
DataSize(file) == file.size - 8 - file.header_len
EntriesOf(file) == [i \in DOMAIN file.header[1].entries |-> RawEntry(file.header[1].entries[i][2])]
ParseSafetensors(file) ==
  Require(file.size >= 8, Invalid) && (Require(file.header_len <= kMaxHeaderLen, Invalid)
  && (Require(file.header_len <= file.size - 8, Invalid) && (Require(file.header # <<>> /\ file.header[1].t = "obj", Invalid)
  && LET header == file.header[1]
         entries == header.entries
     IN (IF header.metadata = <<>> THEN Ok ELSE ParseMetadataBlock(header.metadata[1]))
        && (FirstFailure([i \in DOMAIN entries |-> ParseEntry(entries[i][2], DataSize(file), DataStart(file))])
        && ValidateDataSectionLayout(EntriesOf(file), DataSize(file))))))

\* MapFileReadOnly: absent, unreadable or not regular, or mapped.
MapFileReadOnly(file) ==
  Require(file.state # "absent", NotFound) && Require(file.state = "regular", Invalid)
Open(file) == MapFileReadOnly(file) && ParseSafetensors(file)

Names(file) == {file.header[1].entries[i][1] : i \in DOMAIN file.header[1].entries}
EntryOf(file, name) == EntriesOf(file)[CHOOSE i \in DOMAIN file.header[1].entries : file.header[1].entries[i][1] = name]
tensor(file, name) ==
  IF name \notin Names(file) THEN <<NotFound>>
  ELSE LET e == EntryOf(file, name) IN from_buffer(file.size, DataStart(file) + e.begin, e.dims, e.dtype)

-----------------------------------------------------------------------------
\* A file is accepted only when every byte of its data section belongs to exactly one tensor, no
\* empty tensor lies inside another, every tensor is aligned in the file, and every tensor of a
\* type the engine can hold is given; a file whose entries parse and partition the section is.
Partitions(file) ==
  LET e == EntriesOf(file)
      inside(i, b) == e[i].begin <= b /\ b < e[i].end
  IN /\ \A b \in 0..(DataSize(file) - 1) : \E i \in DOMAIN e : inside(i, b)
     /\ \A i, j \in DOMAIN e : i # j => \A b \in 0..(DataSize(file) - 1) : ~(inside(i, b) /\ inside(j, b))
     /\ \A i, j \in DOMAIN e : e[i].begin = e[i].end => ~(e[j].begin < e[i].begin /\ e[i].begin < e[j].end)
EntriesParse(file) ==
  \A i \in DOMAIN file.header[1].entries : ParseEntry(file.header[1].entries[i][2], DataSize(file), DataStart(file)) = Ok
FileSound(file) ==
  /\ Open(file) = Ok =>
       /\ EntriesParse(file) /\ Partitions(file)
       /\ \A n \in Names(file) :
            LET r == tensor(file, n) IN IF r[1] = Ok THEN r[2].byte_offset % itemsize(r[2].dtype) = 0 ELSE r[1] = Unimplemented
  /\ Open(file) # Ok /\ file.state = "regular" /\ file.size >= 8 /\ file.header_len <= file.size - 8
       /\ file.header_len <= kMaxHeaderLen /\ file.header # <<>> /\ file.header[1].t = "obj" /\ file.header[1].metadata = <<>> =>
       ~(EntriesParse(file) /\ Partitions(file))
=============================================================================
