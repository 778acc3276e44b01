---------------------------- MODULE Fragments ----------------------------
(***************************************************************************)
(* The bytes of the segments a transmuxer returns: the boxes it builds     *)
(* from its settings and from a sample (crates/transmuxer, the Box::new    *)
(* functions and Traf::optimize of crates/mp4), written by Mp4's Mux and   *)
(* read back by its DemuxBox.                                              *)
(*                                                                         *)
(* A segment is a list of boxes, those inside a box before it; `holds` is  *)
(* the number of boxes a box has inside.  MakeBox makes the next box: it   *)
(* takes the boxes it holds from `stack`, where the finished ones wait     *)
(* with their sizes, and leaves itself there.                              *)
(***************************************************************************)
EXTENDS Mp4Boxes

CONSTANT Written   \* [by: the maker of the boxes, boxes, and what they carry]

VARIABLES segment, made, box, stack
segmentVars == <<segment, made, box, stack>>

Desc(name, version, flags, f, holds) ==
  [name |-> name, version |-> version, flags |-> flags, f |-> f, entries |-> <<>>, holds |-> holds]
NoFields == <<>>
Holder(name, holds) == Desc(name, 0, {}, NoFields, holds)
Plain(name, f) == Desc(name, 0, {}, f, 0)
When(condition, desc) == IF condition THEN <<desc>> ELSE <<>>

---------------------------------------------------------------------------
(* The init segment *)

NoTimes == [creation_time |-> 0, modification_time |-> 0, duration |-> 0]
Brands(codec) == [len |-> 16, brands |-> <<"iso5", "iso6", codec, "mp41">>]

SampleEntryName ==
  [avc_sequence_header |-> "avc1", av1_sequence_start |-> "av01", hevc_sequence_start |-> "hev1"]

VisualEntry(s, colr, config) ==
  <<Plain("pasp", NoFields)>> \o When(colr, Plain("colr", NoFields))
  \o <<Plain(config, [config |-> [len |-> s.config]]),
       Desc(SampleEntryName[s.codec], 0, {},
            [width |-> s.width % 65536, height |-> s.height % 65536], IF colr THEN 3 ELSE 2)>>

\* An AV1 entry always has its colours, the others when the SPS has them.
AvcEntry(s) == VisualEntry(s, s.colr, "avcC")
HevcEntry(s) == VisualEntry(s, s.colr, "hvcC")
Av1Entry(s) == VisualEntry(s, TRUE, "av1C")

VideoEntry(s) ==
  CASE s.codec = "avc_sequence_header" -> AvcEntry(s)
    [] s.codec = "hevc_sequence_start" -> HevcEntry(s)
    [] s.codec = "av1_sequence_start" -> Av1Entry(s)

AudioEntry(s) ==
  <<Plain("decoder_specific_info", [data |-> [len |-> s.specific_info]]),
    Holder("decoder_config", 1),
    Desc("es", 0, {"stream_dependence", "ocr_stream"},
         [depends_on_es_id |-> {0}, ocr_es_id |-> {0}], 1),
    Holder("esds", 1),
    Desc("mp4a", 0, {}, [channel_count |-> s.channels, sample_size |-> s.sample_size,
                         sample_rate |-> s.sample_rate], 1)>>

StblBoxes(entry) ==
  entry \o <<Holder("stsd", 1), Plain("stts", NoFields), Plain("stsc", NoFields),
             Plain("stsz", NoFields), Plain("stco", NoFields), Holder("stbl", 5)>>

TrakBoxes(id, volume, width, height, timescale, handler, media, entry) ==
  <<Desc("tkhd", 0, {"enabled", "in_movie"},
         [track_id |-> id, volume |-> volume, width |-> width, height |-> height] @@ NoTimes, 0),
    Plain("mdhd", [timescale |-> timescale] @@ NoTimes),
    Plain("hdlr", [handler_type |-> handler, name |-> handler]),
    media, Desc("url", 0, {"self"}, NoFields, 0), Holder("dref", 1), Holder("dinf", 1)>>
  \o StblBoxes(entry) \o <<Holder("minf", 3), Holder("mdia", 3), Holder("trak", 2)>>

MoovBoxes(s) ==
  <<Plain("mvhd", [timescale |-> 1000, next_track_id |-> 1] @@ NoTimes)>>
  \o TrakBoxes(1, 0, s.width, s.height, 1000 * s.framerate, "vide",
               Desc("vmhd", 0, {"vmhd"}, NoFields, 0), VideoEntry(s))
  \o TrakBoxes(2, 1, 0, 0, s.sample_rate, "soun", Plain("smhd", NoFields), AudioEntry(s))
  \o <<Plain("trex", [track_id |-> 1]), Plain("trex", [track_id |-> 2]), Holder("mvex", 2),
       Holder("moov", 4)>>

InitBoxes(s) ==
  <<Plain("ftyp", [major_brand |-> "iso5", compatible_brands |-> Brands(SampleEntryName[s.codec])])>>
  \o MoovBoxes(s)

---------------------------------------------------------------------------
(* The media segment *)

TrunSample(sample) ==
  [duration |-> {sample.duration}, size |-> {sample.data.len}, flags |-> {sample.flags},
   composition_time_offset |-> sample.composition_time_offset]

SampleFlagOf ==
  [duration |-> "sample_duration", size |-> "sample_size", flags |-> "sample_flags",
   composition_time_offset |-> "sample_composition_time_offset"]

\* Trun::new: signed, in version 1, when some offset is negative.
TrunVersion(samples) ==
  IF \E i \in DOMAIN samples : \E t \in samples[i].composition_time_offset : t < 0 THEN 1 ELSE 0

\* Traf::optimize on the options of the tfhd and the samples of the trun: what
\* all samples share moves to the tfhd; offsets that are all 0 are dropped; the
\* flags of both boxes are made to match.
Without(samples, name) == [i \in DOMAIN samples |-> [samples[i] EXCEPT ![name] = {}]]

ShareFlags(t) ==
  IF /\ t.tfhd.default_sample_flags = {} /\ Len(t.samples) > 1
     /\ \A i \in 3 .. Len(t.samples) : t.samples[i].flags = t.samples[2].flags
  THEN [tfhd |-> [t.tfhd EXCEPT !.default_sample_flags = t.samples[2].flags],
        first |-> IF t.samples[1].flags # t.samples[2].flags THEN t.samples[1].flags ELSE t.first,
        samples |-> Without(t.samples, "flags")]
  ELSE t

DropZeroOffsets(t) ==
  IF \A i \in DOMAIN t.samples : t.samples[i].composition_time_offset = {0}
  THEN [t EXCEPT !.samples = Without(t.samples, "composition_time_offset")]
  ELSE t

Share(t, name, default) ==
  IF /\ t.tfhd[default] = {}
     /\ \A i \in DOMAIN t.samples : t.samples[i][name] = t.samples[1][name]
  THEN [t EXCEPT !.tfhd[default] = t.samples[1][name], !.samples = Without(t.samples, name)]
  ELSE t

Optimize(t) ==
  Share(Share(DropZeroOffsets(ShareFlags(t)), "duration", "default_sample_duration"),
        "size", "default_sample_size")

TfhdFlags(tfhd) ==
  {"default_base_is_moof"}
  \cup {n \in {"base_data_offset", "default_sample_duration", "default_sample_flags",
               "default_sample_size"} : tfhd[n] # {}}

TrunFlags(t) ==
  {"data_offset"} \cup (IF t.first = {} THEN {} ELSE {"first_sample_flags"})
  \cup {SampleFlagOf[n] : n \in {m \in DOMAIN SampleFlagOf : t.samples[1][m] # {}}}

Track(id, samples) ==
  Optimize([tfhd |-> [track_id |-> id, base_data_offset |-> {}, sample_description_index |-> {},
                      default_sample_duration |-> {}, default_sample_size |-> {},
                      default_sample_flags |-> {}],
            first |-> {}, samples |-> [i \in DOMAIN samples |-> TrunSample(samples[i])]])

MoofBoxes(m, t, offset) ==
  <<Plain("mfhd", [sequence_number |-> m.sequence_number]),
    Desc("tfhd", 0, TfhdFlags(t.tfhd), t.tfhd, 0),
    Desc("tfdt", IF m.timestamp > U32Max THEN 1 ELSE 0, {}, [base_media_decode_time |-> m.timestamp], 0),
    [Desc("trun", TrunVersion(m.samples), TrunFlags(t),
          [data_offset |-> {offset}, first_sample_flags |-> t.first], 0)
       EXCEPT !.entries = t.samples],
    Holder("traf", 3), Holder("moof", 2)>>

\* moof.size(): its boxes are all plain, each with a header.
MoofSize(m, t) ==
  Total([i \in DOMAIN MoofBoxes(m, t, 0) |-> OwnSize(MoofBoxes(m, t, 0)[i]) + 8])

MdatBox(m) == Plain("mdat", [data |-> m.samples[1].data])

\* Mutant: the header of the mdat is forgotten.
MediaBoxesNoHeader(m) ==
  LET t == Track(m.track, m.samples) IN MoofBoxes(m, t, MoofSize(m, t)) \o <<MdatBox(m)>>

\* The data offset is set once the size of the moof is known, and leads past
\* the moof and the header of the mdat.
MediaBoxes(m) ==
  LET t == Track(m.track, m.samples) IN MoofBoxes(m, t, MoofSize(m, t) + 8) \o <<MdatBox(m)>>

\* Traf::duration and Traf::contains_keyframe, which the transmuxer's caller
\* asks of the boxes.
TrafDuration(t) ==
  Total([i \in DOMAIN t.samples |->
           CHOOSE d \in IF t.samples[i].duration # {} THEN t.samples[i].duration
                        ELSE IF t.tfhd.default_sample_duration # {}
                        THEN t.tfhd.default_sample_duration ELSE {0} : TRUE])

ContainsKeyframe(t) ==
  \/ \E flags \in t.first : flags.depends_on = 2
  \/ \E i \in DOMAIN t.samples :
       \E flags \in IF t.samples[i].flags # {} THEN t.samples[i].flags
                    ELSE t.tfhd.default_sample_flags : flags.depends_on = 2

---------------------------------------------------------------------------
(* Making the boxes of a segment one after the other *)

SegmentInit ==
  /\ segment \in Written
  /\ made = 0 /\ box = <<>> /\ stack = <<>>

\* The boxes a box holds are the last that were finished.
BoxOf(desc) ==
  [name |-> desc.name, version |-> desc.version, flags |-> desc.flags, f |-> desc.f,
   entries |-> desc.entries, kids |-> SubSeq(stack, Len(stack) - desc.holds + 1, Len(stack))]

MakeBox ==
  /\ made < Len(segment.boxes)
  /\ made' = made + 1
  /\ box' = BoxOf(segment.boxes[made'])
  /\ stack' = Append(SubSeq(stack, 1, Len(stack) - segment.boxes[made'].holds),
                     [name |-> box'.name, size |-> Size(box', PrimitiveSize(box'))])
  /\ UNCHANGED segment

---------------------------------------------------------------------------
(* Reading a segment *)

IsRead(b) ==
  DemuxBox(Mux(b), IsDescriptor(Kinds[b.name])) = [ok |-> TRUE, rest |-> <<>>, box |-> b]

\* What the formats cannot carry, or the code does not: a sample rate has 16
\* bits in a sample entry; a descriptor's length is read in the order it is
\* written in only when it is one byte long; validate does not bound an elst
\* or a ctts whose values do not fit; the size of a sbgp counts a grouping type
\* that version 0 does not write, the size of a stz2 takes bits for bytes, and
\* the count of an empty padb wraps.
Overflows(b) ==
  \E i \in DOMAIN b.entries, j \in DOMAIN Kinds[b.name].row :
    LET field == Kinds[b.name].row[j]
    IN  /\ field.kind \in {"time", "offset", "signed"} /\ field.flag = ""
        /\ Encode(field, b.version, b.entries[i][field.n]) # b.entries[i][field.n]

IsLost(b) ==
  \/ b.name \in {"mp4a", "opus"} /\ b.f.sample_rate > 65535
  \/ IsDescriptor(Kinds[b.name]) /\ PrimitiveSize(b) > 127
  \/ b.name = "sbgp" /\ b.version = 0
  \/ b.name = "padb" /\ b.entries = <<>>
  \/ b.name = "stz2" /\ b.f.samples # <<>>
  \/ Overflows(b)

\* A box of crates/mp4 that validate accepts is read back as it was written,
\* with the size it announces, whatever its version, options, table and inner
\* boxes, except in the cases of IsLost, where it never is.
BoxesRoundTrip == made > 0 /\ Valid(box) => (IsRead(box) <=> ~IsLost(box))

\* What a player takes a sample's value from: the sample, or else the default
\* of the tfhd, or else the default of the trex, which is 0.
Effective(own, default) == IF own # {} THEN own ELSE IF default # {} THEN default ELSE {0}

BoxNamed(name) == segment.boxes[CHOOSE i \in DOMAIN segment.boxes : segment.boxes[i].name = name]

PlayedSample(i, tfhd, trun) ==
  LET sample == trun.entries[i]
  IN  [duration |-> Effective(sample.duration, tfhd.default_sample_duration),
       flags |-> IF i = 1 /\ trun.f.first_sample_flags # {} THEN trun.f.first_sample_flags
                 ELSE Effective(sample.flags, tfhd.default_sample_flags),
       composition_time_offset |-> Effective(sample.composition_time_offset, {}),
       size |-> Effective(sample.size, tfhd.default_sample_size)]

\* The bytes the data offset leads to, of the length of the first sample.
PlayedData(tfhd, trun) ==
  LET units == <<<<stack[1].size, "moof">>>> \o Mux(box)
  IN  UNION {UNION {{d[1] : d \in Take(c[2], n)} : n \in PlayedSample(1, tfhd, trun).size} :
               c \in UNION {Take(units, o) : o \in trun.f.data_offset}}

SampleIsPlayed(m, tfhd, trun) ==
  /\ \A i \in DOMAIN m.samples :
       PlayedSample(i, tfhd, trun) =
         [duration |-> {m.samples[i].duration}, flags |-> {m.samples[i].flags},
          composition_time_offset |-> Effective(m.samples[i].composition_time_offset, {}),
          size |-> {m.samples[i].data.len}]
  /\ PlayedData(tfhd, trun) = {IF m.samples[1].data.len = 0 THEN <<>>
                               ELSE <<<<m.samples[1].data.len, m.samples[1].data>>>>}
  /\ BoxNamed("tfdt").f.base_media_decode_time = m.timestamp

\* What the boxes say of their samples, after Traf::optimize.
TrafAgrees(m, t) ==
  /\ TrafDuration(t) = Total([i \in DOMAIN m.samples |-> m.samples[i].duration])
  /\ ContainsKeyframe(t) <=> \E i \in DOMAIN m.samples : m.samples[i].flags.depends_on = 2

\* The boxes of an init segment that are not read as they were written: a
\* sample entry has 16 bits for the sample rate, and a descriptor of 128 bytes
\* or more a length that is written in one order and read in the other.
LostBoxes(s) ==
  {name \in {"mp4a", "es", "decoder_config", "decoder_specific_info"} :
     CASE name = "mp4a" -> s.sample_rate > 65535
       [] name = "es" -> s.specific_info > 103
       [] name = "decoder_config" -> s.specific_info > 112
       [] name = "decoder_specific_info" -> s.specific_info > 127}

\* Every segment that mux returns can be read back (transmuxer/src/lib.rs mux,
\* init_sequence): every box passes validate, every box of a media segment is
\* read as it was written, and every box of an init segment is except those of
\* LostBoxes, which never are: the mp4a of an audio track of 65536 Hz and more,
\* and the descriptors around an audio config of more than 103 bytes.  The
\* data offset, computed before the moof is written, leads to the payload; and a
\* player that resolves the defaults of the tfhd gets the time, duration, flags
\* and composition offset of every sample, although Traf::optimize has moved or
\* dropped them.
SegmentIsReadable ==
  /\ made > 0 /\ segment.by # "other" => Valid(box)
  /\ made > 0 /\ segment.by = "media" => IsRead(box)
  /\ made > 0 /\ segment.by = "init" => (IsRead(box) <=> box.name \notin LostBoxes(segment.settings))
  /\ made = Len(segment.boxes) /\ segment.by = "media" =>
       /\ SampleIsPlayed(segment.media, BoxNamed("tfhd").f, BoxNamed("trun"))
       /\ TrafAgrees(segment.media, Track(segment.media.track, segment.media.samples))
===========================================================================
