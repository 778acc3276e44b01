------------------------------ MODULE MCMedia ------------------------------
(***************************************************************************)
(* Instances of the media formats for TLC.  A behaviour is one of the      *)
(* machines: a transmuxer that is fed, a segment whose boxes are made and  *)
(* read back, a header that is written and read back, a bit reader, a      *)
(* program that owns FFmpeg objects, or an Output read by an Input.        *)
(***************************************************************************)
EXTENDS Transmuxer, Fragments, MCHeaders, BitReader, FfmpegHeap, FfmpegIo

VARIABLE machine
allVars == <<vars, segmentVars, headerVars, readerVars, heapVars, pipeVars, machine>>

---------------------------------------------------------------------------
(* Traffic for the transmuxer.  Headers: the sequence headers and the      *)
(* metadata, good and bad, in any order and number, between frames.        *)
(* Frames and Codecs: a transmuxer that has its headers, fed with frames   *)
(* at any of a set of timestamps, or of all codecs and composition times.  *)

Raw(type, timestamp, body) ==
  [tag_type |-> type, timestamp |-> timestamp, timestamp_ext |-> 0, whole |-> TRUE, body |-> body]

Config(framerate, width, colr) ==
  [record |-> TRUE, sps |-> TRUE, framerate |-> framerate, width |-> width, height |-> 2,
   colr |-> colr, len |-> 7]

Avc(frame, packet, ts, ct, payload) ==
  Raw(Video, ts, [frame_type |-> frame, enhanced |-> FALSE, packet_type |-> 7,
                  avc_packet_type |-> packet, composition_time |-> ct, data |-> payload])
Enhanced(fourcc, frame, packet, ts, ct, payload) ==
  Raw(Video, ts, [frame_type |-> frame, enhanced |-> TRUE, packet_type |-> packet,
                  fourcc |-> fourcc, composition_time |-> ct, data |-> payload])
Aac(packet, payload) ==
  Raw(Audio, 0, [sound_format |-> 10, sound_size |-> 1, sound_type |-> 1,
                 aac_packet_type |-> packet, data |-> payload])
Script(framerate) ==
  Raw(ScriptData, 0, [name |-> "onMetaData", object |-> TRUE, framerate |-> framerate])
Data(n) == [len |-> n]

AvcHeader(fps) == Avc(1, 0, 0, 0, Config(fps, 4, FALSE))
AacHeader(rate, len) == Aac(0, [parses |-> TRUE, sample_rate |-> rate, len |-> len])

\* A sequence of demux calls with one tag each.
Each(raws) == {<<raw>> : raw \in raws}

Headers ==
  [first |-> <<>>, max |-> 3,
   calls |-> Each({AvcHeader(0), AvcHeader(30),
                   Avc(1, 0, 0, 0, [Config(30, 4, TRUE) EXCEPT !.sps = FALSE]),
                   Enhanced("av01", 1, 0, 0, 0, Config(0, 0, FALSE)),
                   Enhanced("av01", 1, 5, 0, 0, Config(0, 4, FALSE)),
                   Enhanced("hvc1", 1, 0, 0, 0, Config(25, 4, TRUE)),
                   AacHeader(48000, 5), AacHeader(96000, 2), AacHeader(0, 2),
                   Aac(0, [parses |-> FALSE, sample_rate |-> 0, len |-> 1]),
                   Script(30), Script(0), Aac(1, Data(3))})
             \cup {<<Aac(1, Data(3)), [AvcHeader(30) EXCEPT !.body.data.record = FALSE]>>}]

\* A second header of a sort, before and after all three sorts have been seen.
Repeated ==
  [first |-> <<AvcHeader(0), Script(30)>>, max |-> 5,
   calls |-> Each({AvcHeader(25), AacHeader(48000, 5), Script(25), Avc(1, 1, 40, 0, Data(1))})]

Ready(framerate) == <<AvcHeader(framerate), AacHeader(44100, 5)>>

Frames(framerate, timestamps) ==
  [first |-> Ready(framerate), max |-> 6,
   calls |-> Each({Avc(1, 1, ts, 0, Data(1)) : ts \in timestamps} \cup {Aac(1, Data(2))})]

Codecs ==
  [first |-> Ready(30), max |-> 4,
   calls |-> Each({Avc(1, 1, 33, 0, Data(1)), Avc(2, 1, 66, 67, Data(2)), Avc(2, 1, 66, -40, Data(3)),
                   Avc(1, 2, 66, 0, Data(1)), Avc(5, 1, 66, 0, Data(1)),
                   Enhanced("av01", 2, 1, 100, 0, Data(4)), Enhanced("av01", 2, 3, 100, 0, Data(4)),
                   Enhanced("hvc1", 1, 1, 33, -20, Data(5)), Enhanced("hvc1", 2, 1, 100, 40, Data(6)),
                   Enhanced("hvc1", 2, 3, 66, 40, Data(7)), Enhanced("hvc1", 2, 2, 66, 0, Data(7)),
                   Enhanced("vp09", 1, 1, 33, 0, Data(8)),
                   Aac(1, Data(9)), Aac(2, Data(9)), AvcHeader(25), Script(25),
                   Raw(1, 0, Data(1)), [Aac(1, Data(9)) EXCEPT !.whole = FALSE],
                   [Aac(1, Data(9)) EXCEPT !.body.sound_format = 2]})]

MCTraffic ==
  {Headers, Repeated, Codecs, Frames(30, {0, 33, 66, 67, 133}), Frames(25, {40, 81, 300})}

---------------------------------------------------------------------------
(* Segments *)

MCSettings ==
  [codec : {"avc_sequence_header", "hevc_sequence_start", "av1_sequence_start"},
   colr : BOOLEAN, config : {0, 7}, width : {4}, height : {2}, framerate : {30},
   channels : {2}, sample_size : {16}, sample_rate : {44100, 96000}, specific_info : {2, 103, 104, 113, 128}]

Flags(key) == [depends_on |-> IF key THEN 2 ELSE 1, non_sync |-> ~key]
Sample(duration, key, offset, len) ==
  [duration |-> duration, flags |-> Flags(key), composition_time_offset |-> offset,
   data |-> [len |-> len]]

OneSample == {<<Sample(33, key, offset, len)>> :
                key \in BOOLEAN, offset \in {{}, {0}, {67}, {-40}}, len \in {0, 5}}
\* Samples that share all, some or none of their values.
SomeSamples ==
  UNION {{[i \in 1 .. n |-> Sample(IF i = 2 THEN d ELSE 33, i = k \/ k = 4, {IF i = n THEN o ELSE 0}, l * i)] :
            d \in {33, 34}, k \in {0, 1, 2, 4}, o \in {0, 5, -5}, l \in {0, 1}} : n \in 2 .. 3}

MediaOf(timestamps, samples) ==
  [sequence_number : {7}, track : {1}, timestamp : timestamps, samples : samples]
MCMediaSegments ==
  MediaOf({0, U32Max, U32Max + 1}, OneSample) \cup MediaOf({40}, SomeSamples)

With(name, version, f, entries) == [Desc(name, version, {}, f, 0) EXCEPT !.entries = entries]
Rows(n, row) == [i \in 1 .. n |-> row]

ElstRow(duration, time) ==
  [segment_duration |-> duration, media_time |-> time, media_rate_integer |-> 1,
   media_rate_fraction |-> 0]
Subsamples(sizes) == [i \in DOMAIN sizes |-> [subsample_size |-> sizes[i]]]

NumbersOf(kind) == [n \in {kind.fields[i].n : i \in {j \in DOMAIN kind.fields : kind.fields[j].kind = "int"}} |-> n]

\* Boxes of every sort, with tables of up to three rows and values at and past
\* the end of their range.
Loose ==
  {With("elst", v, NoFields, Rows(n, ElstRow(d, t))) :
     v \in 0 .. 1, n \in {0, 2}, d \in {5, U32Max + 1}, t \in {-1, I32Max, I32Max + 1}}
  \cup {With("ctts", v, NoFields, Rows(n, [sample_count |-> 1, sample_offset |-> o])) :
          v \in 0 .. 1, n \in {0, 1, 3}, o \in {-1, 0, I32Max + 1, U32Max}}
  \cup {With("sbgp", v, [grouping_type |-> g], Rows(n, [sample_count |-> 1, group_description_index |-> 2])) :
          v \in 0 .. 1, n \in {0, 2}, g \in {{}, {4}}}
  \cup {With("padb", 0, NoFields, Rows(n, [byte |-> 3])) : n \in 0 .. 2}
  \cup {With("sdtp", 0, NoFields, [i \in 1 .. n |-> [sample |-> <<i, 2, 0, 3>>]]) : n \in 0 .. 3}
  \cup {With("stdp", 0, NoFields, Rows(n, [sample |-> 9])) : n \in {0, 3}}
  \cup {With("stss", 0, NoFields, Rows(n, [sample |-> 9])) : n \in {0, 3}}
  \cup {With("co64", v, NoFields, Rows(2, [chunk_offset |-> 9])) : v \in 0 .. 1}
  \cup {With("stsh", 0, NoFields, Rows(n, [shadowed_sample_count |-> 1, sync_sample_number |-> 2])) :
          n \in {0, 2}}
  \cup {Plain("stz2", [field_size |-> size, samples |-> samples]) :
          size \in {4, 8, 16}, samples \in {<<>>, <<7>>, <<15, 1, 16>>, <<300, 1>>}}
  \cup {With("subs", v, [entries |-> entries], <<>>) :
          v \in 0 .. 1, entries \in {<<>>, <<[sample_delta |-> 1, subsamples |-> Subsamples(<<>>)],
                                             [sample_delta |-> 2, subsamples |-> Subsamples(<<4, 5>>)]>>,
                                     <<[sample_delta |-> 1, subsamples |-> Subsamples(<<65536>>)]>>}}
  \cup {With("mehd", v, [fragment_duration |-> d], <<>>) : v \in 0 .. 1, d \in {U32Max, U32Max + 1}}
  \cup {Plain("hmhd", NumbersOf(Hmhd)), Plain("nmhd", NoFields), Plain("clap", NumbersOf(Clap)),
        Plain("btrt", NumbersOf(Btrt)), Plain("opus", [channel_count |-> 2, sample_size |-> 16,
                                                     sample_rate |-> 48000])}
  \cup {Plain("sl_config", [predefined |-> 2, data |-> [len |-> n]]) : n \in {0, 126, 127}}

\* Boxes inside others, known and unknown.
Nested ==
  {<<With("elst", 0, NoFields, <<>>), Plain("url", NoFields), Holder("edts", 2)>>,
   <<Plain("btrt", NumbersOf(Btrt)),
     Desc("opus", 0, {}, [channel_count |-> 2, sample_size |-> 16, sample_rate |-> 48000], 1)>>}

MCWritten ==
  {[by |-> "init", settings |-> s, boxes |-> InitBoxes(s)] : s \in MCSettings}
  \cup {[by |-> "media", media |-> m, boxes |-> MediaBoxes(m)] : m \in MCMediaSegments}
  \cup {[by |-> "other", boxes |-> <<b>>] : b \in Loose}
  \cup {[by |-> "other", boxes |-> boxes] : boxes \in Nested}

---------------------------------------------------------------------------
(* Programs that use the ffmpeg crate: each calls the functions of one     *)
(* set, in any order, and drops what it holds.                             *)

Outputs == {"output_new", "output_open"}
Parsing == {"parser_new", "parser_input", "parser_output", "parser_parse"}

MCPrograms ==
    {{"drop"} \union functions :
       functions \in
         {{"input_new", "input_open", "read_packet", "packet_clone", "decoder_new",
           "receive_frame", "metadata_mut"},
          Outputs \union {"add_stream", "into_inner", "dict_new", "dict_set", "dict_clone",
                          "set_metadata", "metadata_mut"},
          Outputs \union {"copy_stream", "packet_new", "packet_clone", "write_interleaved_packet"},
          {"output_new", "encoder_video", "encoder_audio", "encode_packet"},
          {"frame_new", "frame_clone", "layout_new", "layout_wrap", "set_channel_layout"},
          {"scaler_new", "scaler_process"},
          {"graph_new", "graph_add", "graph_dump"} \union Parsing}}

---------------------------------------------------------------------------
(* One machine runs, the others stay where they start *)

NoSegment == segment = [by |-> "none", boxes |-> <<>>] /\ made = 0 /\ box = <<>> /\ stack = <<>>
NoTraffic == /\ traffic = [first |-> <<>>, max |-> 0, calls |-> {}]
             /\ tags = <<>> /\ fed = <<>> /\ settings = None /\ result = None
             /\ sequence_number = 1 /\ audio_duration = 0 /\ video_duration = 0
             /\ last_video_timestamp = 0 /\ sent_video = <<>> /\ sent_audio = <<>>

NoHeader == /\ header = [format |-> "none", values |-> <<>>, tail |-> 0] /\ phase = "none"
            /\ todo = <<>> /\ units = <<>> /\ bits = 0 /\ env = <<>> /\ written = <<>>

NoProgram == /\ heap = <<>> /\ held = <<>> /\ call = NoCall /\ faults = {}
             /\ program = {}

MCInit ==
  \/ /\ machine = "transmuxer" /\ Init
     /\ NoSegment /\ NoHeader /\ ReaderInit /\ NoProgram /\ PipeInit
  \/ /\ machine = "segment" /\ SegmentInit
     /\ NoTraffic /\ NoHeader /\ ReaderInit /\ NoProgram /\ PipeInit
  \/ /\ machine = "header" /\ HeaderInit
     /\ NoTraffic /\ NoSegment /\ ReaderInit /\ NoProgram /\ PipeInit
  \/ /\ machine = "program" /\ HeapInit
     /\ NoTraffic /\ NoSegment /\ NoHeader /\ ReaderInit /\ PipeInit
  \/ /\ machine \in {"reader", "pipe"}
     /\ NoTraffic /\ NoSegment /\ NoHeader /\ ReaderInit /\ NoProgram /\ PipeInit

MCNext ==
  /\ UNCHANGED machine
  /\ \/ /\ machine = "transmuxer" /\ Next
        /\ UNCHANGED <<segmentVars, headerVars, readerVars, heapVars, pipeVars>>
     \/ /\ machine = "segment" /\ MakeBox
        /\ UNCHANGED <<vars, headerVars, readerVars, heapVars, pipeVars>>
     \/ /\ machine = "header" /\ HeaderNext
        /\ UNCHANGED <<vars, segmentVars, readerVars, heapVars, pipeVars>>
     \/ /\ machine = "reader" /\ ReaderNext
        /\ UNCHANGED <<vars, segmentVars, headerVars, heapVars, pipeVars>>
     \/ /\ machine = "program" /\ HeapNext
        /\ UNCHANGED <<vars, segmentVars, headerVars, readerVars, pipeVars>>
     \/ /\ machine = "pipe" /\ PipeNext
        /\ UNCHANGED <<vars, segmentVars, headerVars, readerVars, heapVars>>

MCSpec == MCInit /\ [][MCNext]_allVars
MCCounts == -19 .. 19
============================================================================
