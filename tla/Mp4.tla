-------------------------------- MODULE Mp4 --------------------------------
(***************************************************************************)
(* MP4 boxes (crates/mp4): how a box is written to bytes and read back.    *)
(* What is in which box is in module Mp4Boxes.                             *)
(*                                                                         *)
(* Bytes are a sequence of units <<width, value>>, one for every integer   *)
(* or block that is written.  A box inside another one is one unit, of the *)
(* width its size has: every box is written and read on its own.  A read   *)
(* that does not ask for exactly the units that were written is torn, and  *)
(* fails.  A box is                                                        *)
(*   [name, version, flags, f, entries, kids]                              *)
(* with `f` the fields by name, `entries` the rows of a table and `kids`   *)
(* the name and size of each box inside, in the order they are written in. *)
(* An optional field is a set with at most one member.                     *)
(***************************************************************************)
EXTENDS Widths, Sequences, SequencesExt, TLC

CONSTANT Kinds   \* the layout of every kind of box, by its name

Field(n, w0, w1, flag, kind) ==
  [n |-> n, w |-> <<w0, w1>>, flag |-> flag, kind |-> kind]
Num(n, w) == Field(n, w, w, "", "int")
Time(n) == Field(n, 4, 8, "", "time")               \* u32, or u64 in version 1
Option(n, w, flag) == Field(n, w, w, flag, "int")   \* there when the flag is
Fixed(w) == Field("fixed", w, w, "", "fixed")
Rest(n) == Field(n, 0, 0, "", "rest")               \* all the remaining bytes
Count == Field("count", 4, 4, "", "count")          \* of table rows or boxes

One(box) == <<box, "one">>
Opt(box) == <<box, "opt">>
Many(box) == <<box, "many">>
Others == Many("unknown")

\* head: "box" (no version and flags), "full" (both), "descriptor".
Kind(head, fields, row, kids, size0, size1) ==
  [head |-> head, fields |-> fields, row |-> row, kids |-> kids, size |-> <<size0, size1>>]
Leaf(fields, size) == Kind("full", fields, <<>>, <<>>, size, size)
Table(fields, row, size) == Kind("full", fields, row, <<>>, size, size)
Container(kids) == Kind("box", <<>>, <<>>, kids, 0, 0)
Record(fields, size) == Kind("box", fields, <<>>, <<>>, size, size)

IsDescriptor(kind) == kind.head \in {"descriptor", "es"}

Total(ns) == FoldFunction(+, 0, ns)

---------------------------------------------------------------------------
(* Writing *)

RECURSIVE Groups(_)
\* The length of a descriptor: seven bits a byte, the lowest first, the high
\* bit on every byte but the last.
Groups(n) == IF n < 128 THEN <<n>> ELSE <<128 + (n % 128)>> \o Groups(n \div 128)

\* The mutant of Pack that swaps the fields in the middle.
PackSwapped(v) == v[1] * 64 + v[3] * 16 + v[2] * 4 + v[4]

\* Four fields of two bits in a byte.
Pack(v) == v[1] * 64 + v[2] * 16 + v[3] * 4 + v[4]
Unpack(byte) == <<byte \div 64, (byte \div 16) % 4, (byte \div 4) % 4, byte % 4>>

Encode(field, version, v) ==
  CASE field.kind = "time" /\ version = 0 -> Wrap32(v)
    [] field.kind = "offset" -> IF version = 0 THEN Wrap32(v) ELSE WrapI32(v)
    [] field.kind = "signed" /\ version = 0 -> WrapI32(v)
    [] field.kind = "rate" -> v % 65536
    [] field.kind = "pack" -> Pack(v)
    [] OTHER -> v

\* The samples of a stz2: two in a byte, or one in one or two bytes.
SampleUnits(size, samples) ==
  CASE size = 4 -> [i \in 1 .. (Len(samples) + 1) \div 2 |->
                      <<1, samples[2 * i - 1] * 16 +
                           (IF 2 * i <= Len(samples) THEN samples[2 * i] ELSE 0)>>]
    [] size = 8 -> [i \in DOMAIN samples |-> <<1, samples[i] % 256>>]
    [] size = 16 -> [i \in DOMAIN samples |-> <<2, samples[i]>>]

SubsampleWidth(version) == IF version = 1 THEN 4 ELSE 2

\* The entries of a subs: a delta, a count and that many subsamples.
SubsampleUnits(version, entry) ==
  <<<<4, entry.sample_delta>>, <<2, Len(entry.subsamples)>>>>
  \o FlattenSeq([i \in DOMAIN entry.subsamples |->
       <<<<SubsampleWidth(version), entry.subsamples[i].subsample_size>>, <<1, "priority">>,
         <<1, "discardable">>, <<4, "parameters">>>>])

FieldUnits(field, b, f) ==
  CASE field.kind = "fixed" -> <<<<field.w[b.version + 1], "fixed">>>>
    [] field.kind = "count" -> <<<<4, Len(b.entries) + Len(b.kids)>>>>
    [] field.kind = "padded_count" -> <<<<4, Wrap32(Len(b.entries) * 2 - 1)>>>>
    [] field.kind = "rest" -> <<<<f[field.n].len, f[field.n]>>>>
    [] field.kind = "samples" -> <<<<4, Len(f.samples)>>>> \o SampleUnits(f.field_size, f.samples)
    [] field.kind = "subsamples" ->
         <<<<4, Len(f.entries)>>>>
         \o FlattenSeq([i \in DOMAIN f.entries |-> SubsampleUnits(b.version, f.entries[i])])
    [] field.flag = "" -> <<<<field.w[b.version + 1], Encode(field, b.version, f[field.n])>>>>
    [] OTHER -> SetToSeq({<<field.w[b.version + 1], Encode(field, b.version, v)>> : v \in f[field.n]})

Fields(fields, b, f) ==
  FlattenSeq([i \in DOMAIN fields |-> FieldUnits(fields[i], b, f)])

\* The flags an ES descriptor is written with are those of the options it has.
FlagsOf(kind, f) == {field.flag : field \in {x \in ToSet(kind.fields) :
                                               x.flag # "" /\ f[x.n] # {}}}

OptionSize(fields, Has(_)) ==
  Total([i \in DOMAIN fields |->
           IF fields[i].flag \notin {"", "version 1"} /\ Has(fields[i])
           THEN fields[i].w[1] ELSE 0])

\* The block of bytes, samples or entries that some boxes end with.
TailSize(field, b) ==
  CASE field.kind = "rest" -> b.f[field.n].len
    [] field.kind = "samples" -> Len(b.f.samples) * b.f.field_size
    [] field.kind = "subsamples" ->
         Total([i \in DOMAIN b.f.entries |->
                  4 + 2 + Len(b.f.entries[i].subsamples) * (SubsampleWidth(b.version) + 1 + 1 + 4)])
    [] OTHER -> 0

\* primitive_size without the inner boxes.  A tfhd and an ES descriptor count
\* the options that are there, a trun those that its flags announce.
OwnSize(b) ==
  LET kind == Kinds[b.name]
      base == kind.size[b.version + 1]
      flagged(field) == field.flag \in b.flags
  IN  IF b.name = "trun"
      THEN base + OptionSize(kind.fields, flagged)
                + Len(b.entries) * OptionSize(kind.row, flagged)
      ELSE base + Total([i \in DOMAIN kind.fields |-> TailSize(kind.fields[i], b)])
                + OptionSize(kind.fields, LAMBDA field : b.f[field.n] # {})
                + Len(b.entries) * Total([i \in DOMAIN kind.row |-> kind.row[i].w[b.version + 1]])

PrimitiveSize(b) == OwnSize(b) + Total([i \in DOMAIN b.kids |-> b.kids[i].size])
Size(b, primitive) ==
  primitive + IF IsDescriptor(Kinds[b.name]) THEN 1 + Len(Groups(primitive)) ELSE 8

Header(b, primitive) ==
  IF IsDescriptor(Kinds[b.name])
  THEN <<<<1, b.name>>>> \o [i \in DOMAIN Groups(primitive) |-> <<1, Groups(primitive)[i]>>]
  ELSE <<<<4, Size(b, primitive)>>, <<4, b.name>>>>

FullHeader(b) ==
  CASE Kinds[b.name].head = "full" -> <<<<1, b.version>>, <<3, b.flags>>>>
    [] Kinds[b.name].head = "es" -> <<<<3, FlagsOf(Kinds[b.name], b.f)>>>>
    [] OTHER -> <<>>

Width(units) == Total([i \in DOMAIN units |-> units[i][1]])

Mux(b) ==
  Header(b, PrimitiveSize(b)) \o FullHeader(b) \o Fields(Kinds[b.name].fields, b, b.f)
  \o FlattenSeq([i \in DOMAIN b.entries |-> Fields(Kinds[b.name].row, b, b.entries[i])])
  \o [i \in DOMAIN b.kids |-> <<b.kids[i].size, b.kids[i]>>]

---------------------------------------------------------------------------
(* What validate refuses to write *)

\* The flags that disagree with the options there are.
FlagsMatch(fields, version, flags, f) ==
  \A i \in DOMAIN fields : fields[i].flag # "" =>
    (f[fields[i].n] # {} <=> IF fields[i].flag = "version 1" THEN version = 1
                             ELSE fields[i].flag \in flags)

\* Boxes that exist in version 0 only, and those that have no flags.
Unversioned == {"co64", "hmhd", "nmhd", "padb", "sdtp", "stdp", "stsh", "stss", "stz2"}
Unflagged == {"co64", "ctts", "elst", "hmhd", "padb", "sbgp", "sdtp", "stdp", "stsh", "stss"}

TrunIsValid(b) ==
  /\ b.version = 1 => "sample_composition_time_offset" \in b.flags
  /\ \A i \in DOMAIN b.entries : \A t \in b.entries[i].composition_time_offset :
       t <= IF b.version = 1 THEN I32Max ELSE U32Max

\* The bounds of 32 bits are checked in version 1, which has 64, and not in 0.
ElstIsValid(b) ==
  b.version = 1 => \A i \in DOMAIN b.entries : /\ b.entries[i].segment_duration <= U32Max
                                               /\ b.entries[i].media_time <= I32Max

Stz2IsValid(b) ==
  /\ b.f.field_size \in {4, 8, 16}
  /\ \A i \in DOMAIN b.f.samples : b.f.samples[i] < 2 ^ b.f.field_size

SubsIsValid(b) ==
  b.version = 0 => \A i \in DOMAIN b.f.entries : \A j \in DOMAIN b.f.entries[i].subsamples :
                     b.f.entries[i].subsamples[j].subsample_size < 65536

Valid(b) ==
  LET kind == Kinds[b.name]
  IN  /\ kind.head = "full" =>
           /\ FlagsMatch(kind.fields, b.version, b.flags, b.f)
           /\ \A i \in DOMAIN b.entries : FlagsMatch(kind.row, b.version, b.flags, b.entries[i])
           /\ b.version = 0 => \A i \in DOMAIN kind.fields :
                 kind.fields[i].kind = "time" => b.f[kind.fields[i].n] <= U32Max
      /\ b.name \in Unversioned => b.version = 0
      /\ b.name \in Unflagged => b.flags = {}
      /\ b.name = "tkhd" => b.f.track_id # 0
      /\ b.name = "mvhd" => b.f.next_track_id # 0
      /\ b.name = "trun" => TrunIsValid(b)
      /\ b.name = "elst" => ElstIsValid(b)
      /\ b.name = "stz2" => Stz2IsValid(b)
      /\ b.name = "subs" => SubsIsValid(b)

---------------------------------------------------------------------------
(* Reading *)

\* extract_bytes: the units that make up the next n bytes, and those after.
Take(units, n) ==
  {<<SubSeq(units, 1, k), SubSeq(units, k + 1, Len(units))>> :
     k \in {j \in 0 .. Len(units) : /\ Width(SubSeq(units, 1, j)) = n
                                    /\ j < Len(units) => units[j + 1][1] > 0}}

RECURSIVE Length(_, _)
\* DescriptorHeader::parse: seven bits a byte, the highest first.
Length(units, size) ==
  IF units = <<>> THEN {}
  ELSE LET byte == units[1][2]
           next == size * 128 + (byte % 128)
       IN  IF byte < 128 THEN {<<next, Tail(units)>>} ELSE Length(Tail(units), next)

\* What is known of a box while it is read: whether the bytes were as expected
\* so far, `data` its bytes not yet read and `rest` the bytes after the box.
Torn == [ok |-> FALSE]
Opened(name, cuts) ==
  IF cuts = {} THEN Torn
  ELSE [ok |-> TRUE, name |-> name, data |-> (CHOOSE c \in cuts : TRUE)[1],
        rest |-> (CHOOSE c \in cuts : TRUE)[2]]

\* The header of a box or a descriptor.
ReadHeader(units, descriptor) ==
  IF descriptor
  THEN Opened(units[1][2], UNION {Take(len[2], len[1]) : len \in Length(Tail(units), 0)})
  ELSE Opened(units[2][2], Take(SubSeq(units, 3, Len(units)), units[1][2] - 8))

\* The version and flags in front of the fields.
ReadFullHeader(r) ==
  IF ~r.ok THEN Torn
  ELSE CASE Kinds[r.name].head = "full" ->
              [version |-> r.data[1][2], flags |-> r.data[2][2]]
                @@ [r EXCEPT !.data = SubSeq(@, 3, Len(@))]
         [] Kinds[r.name].head = "es" ->
              [version |-> 0, flags |-> r.data[1][2]] @@ [r EXCEPT !.data = Tail(@)]
         [] OTHER -> [version |-> 0, flags |-> {}] @@ r

\* The fields that are read one by one: an option only when its flag is set.
Blocks == {"rest", "samples", "subsamples"}
Present(fields, r) ==
  SelectSeq(fields, LAMBDA x : /\ x.kind \notin Blocks
                               /\ \/ x.flag \in {""} \cup r.flags
                                  \/ x.flag = "version 1" /\ r.version = 1)

\* One unit a field, of the width of the version.
Fit(there, r, units) ==
  \A i \in DOMAIN there : i <= Len(units) /\ units[i][1] = there[i].w[r.version + 1]

Decode(field, v) ==
  CASE field.kind = "pack" -> Unpack(v)
    [] field.kind = "padded_count" -> (v + 1) \div 2
    [] OTHER -> v

Values(fields, there, units) ==
  [n \in {fields[i].n : i \in {j \in DOMAIN fields : fields[j].kind \notin Blocks \cup {"fixed"}}} |->
     LET found == {Decode(there[i], units[i][2]) : i \in {j \in DOMAIN there : there[j].n = n}}
     IN  IF \E i \in DOMAIN fields : fields[i].n = n /\ fields[i].flag # "" THEN found
         ELSE CHOOSE v \in found : TRUE]

\* The samples of a stz2 after their count.
ReadSamples(size, n, units) ==
  IF \/ Len(units) < IF size = 4 THEN (n + 1) \div 2 ELSE n
     \/ \E i \in DOMAIN units : units[i][1] # IF size = 16 THEN 2 ELSE 1
  THEN {}
  ELSE {[i \in 1 .. n |->
           CASE size # 4 -> units[i][2]
             [] size = 4 /\ i % 2 = 1 -> units[(i + 1) \div 2][2] \div 16
             [] size = 4 /\ i % 2 = 0 -> units[i \div 2][2] % 16]}

RECURSIVE ReadSubsamples(_, _, _, _)
\* The n entries of a subs.
ReadSubsamples(version, n, units, read) ==
  IF n = 0 THEN {read}
  ELSE IF Len(units) < 2 \/ Len(units) < 2 + 4 * units[2][2] THEN {}
  ELSE LET size(j) == units[4 * j - 1]
           entry == [sample_delta |-> units[1][2],
                     subsamples |-> [j \in 1 .. units[2][2] |-> [subsample_size |-> size(j)[2]]]]
       IN  IF \E j \in 1 .. units[2][2] : size(j)[1] # SubsampleWidth(version) THEN {}
           ELSE ReadSubsamples(version, n - 1, SubSeq(units, 3 + 4 * units[2][2], Len(units)),
                               Append(read, entry))

\* What the block at the end of a box holds.
ReadBlock(field, r, f) ==
  CASE field.kind = "rest" -> {unit[2] : unit \in ToSet(r.data)}
    [] field.kind = "samples" -> ReadSamples(f.field_size, r.data[1][2], Tail(r.data))
    [] field.kind = "subsamples" -> ReadSubsamples(r.version, r.data[1][2], Tail(r.data), <<>>)

WithBlock(r, fields) ==
  LET blocks == SelectSeq(fields, LAMBDA x : x.kind \in Blocks)
  IN  IF blocks = <<>> THEN r
      ELSE IF ReadBlock(blocks[1], r, r.f) = {} THEN Torn
      ELSE [r EXCEPT !.f = (blocks[1].n :> (CHOOSE v \in ReadBlock(blocks[1], r, r.f) : TRUE)) @@ @,
                     !.data = <<>>]

ReadFields(r) ==
  IF ~r.ok THEN Torn
  ELSE LET fields == Kinds[r.name].fields
           there == Present(fields, r)
       IN  IF ~Fit(there, r, r.data) THEN Torn
           ELSE WithBlock([f |-> Values(fields, there, r.data)]
                            @@ [r EXCEPT !.data = SubSeq(@, Len(there) + 1, Len(@))], fields)

\* The rows or boxes there are: as many as the count says, or else to the end.
Number(r) == IF "count" \in DOMAIN r.f THEN r.f["count"] ELSE Len(r.data)

ReadRows(r) ==
  IF ~r.ok THEN Torn
  ELSE LET row == Kinds[r.name].row
           there == Present(row, r)
           n == IF row = <<>> THEN 0 ELSE Number(r)
           Units(i) == SubSeq(r.data, (i - 1) * Len(there) + 1, i * Len(there))
       IN  IF n * Len(there) <= Len(r.data) /\ \A i \in 1 .. n : Fit(there, r, Units(i))
           THEN [rows |-> [i \in 1 .. n |-> Values(row, there, Units(i))]]
                  @@ [r EXCEPT !.data = SubSeq(@, n * Len(there) + 1, Len(@))]
           ELSE Torn

\* The boxes of a container by kind: of a kind that may be there once the last
\* one read counts; all others are unknown.
OfKind(kids, k, read) ==
  LET known == {kids[i][1] : i \in DOMAIN kids}
  IN  SelectSeq(read, LAMBDA b : IF k[1] = "unknown" THEN b.name \notin known
                                 ELSE k[1] \in {"any", b.name})

Kept(k, of) == IF k[2] = "many" \/ of = <<>> THEN of ELSE <<Last(of)>>

Regroup(kids, read) ==
  FlattenSeq([i \in DOMAIN kids |-> Kept(kids[i], OfKind(kids, kids[i], read))])

Missing(kids, read) ==
  \E i \in DOMAIN kids : kids[i][2] = "one" /\ OfKind(kids, kids[i], read) = <<>>

\* The boxes that are read: as many as a count says, or else all.
Kids(r) ==
  IF Kinds[r.name].kids = <<>> THEN <<>>
  ELSE [i \in 1 .. Saturate(Number(r), 0, Len(r.data)) |-> r.data[i][2]]

ReadKids(r) ==
  IF ~r.ok THEN Torn
  ELSE IF Missing(Kinds[r.name].kids, Kids(r)) THEN Torn
  ELSE [ok |-> TRUE, rest |-> r.rest,
        box |-> [name |-> r.name, version |-> r.version, flags |-> r.flags,
                 f |-> [n \in DOMAIN r.f \ {"count"} |-> r.f[n]], entries |-> r.rows,
                 kids |-> Regroup(Kinds[r.name].kids, Kids(r))]]

DemuxBox(units, descriptor) ==
  ReadKids(ReadRows(ReadFields(ReadFullHeader(ReadHeader(units, descriptor)))))
============================================================================
