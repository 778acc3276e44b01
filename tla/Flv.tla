------------------------------- MODULE Flv -------------------------------
(***************************************************************************)
(* FLV tags (crates/flv): how the bytes of one tag become a FlvTag.        *)
(*                                                                         *)
(* A tag on the wire is a record of the fields its bytes hold:             *)
(*   [tag_type, timestamp, timestamp_ext, whole, body]                     *)
(* where `whole` says that all the announced bytes of the tag are there.   *)
(* The body has the bit fields the readers test.  A decoder configuration  *)
(* (AVC, HEVC, AV1) is opaque, with the one fact the reader cares about:   *)
(* whether its record can be parsed at all (`record`).                     *)
(* A decoded tag is [timestamp_ms, kind, frame_type, composition_time,     *)
(* data], `kind` naming the path through the nested enums.                 *)
(***************************************************************************)
EXTENDS Widths

Audio == 8
Video == 9
ScriptData == 18

\* A packet without a composition time has None, which every reader of it
\* replaces by the default 0.
Packet(kind, composition_time, data) ==
  [kind |-> kind, composition_time |-> composition_time, data |-> data]

Unknown(data) == Packet("unknown", 0, data)

AacPacket(b) ==
  CASE b.aac_packet_type = 0 -> Packet("aac_sequence_header", 0,
          [sound_size |-> b.sound_size, sound_type |-> b.sound_type, config |-> b.data])
    [] b.aac_packet_type = 1 -> Packet("aac_raw", 0, b.data)
    [] OTHER -> Unknown(b.data)

AudioDataBody(b) == IF b.sound_format = 10 THEN AacPacket(b) ELSE Unknown(b.data)

AvcPacket(b) ==
  CASE b.avc_packet_type = 0 -> Packet("avc_sequence_header", 0, b.data)
    [] b.avc_packet_type = 1 -> Packet("avc_nalu", U24(b.composition_time), b.data)
    [] OTHER -> Unknown(b.data)

\* Packet types: 0 sequence start, 1 coded frames, 2 sequence end, 3 coded
\* frames without a composition time, 4 metadata, 5 MPEG-2 sequence start.
EnhancedPacket(b) ==
  CASE b.packet_type \in {2, 4} -> Unknown(b.data)
    [] b.fourcc = "av01" /\ b.packet_type \in {0, 5} -> Packet("av1_sequence_start", 0, b.data)
    [] b.fourcc = "av01" /\ b.packet_type = 1 -> Packet("av1_raw", 0, b.data)
    [] b.fourcc = "hvc1" /\ b.packet_type = 0 -> Packet("hevc_sequence_start", 0, b.data)
    [] b.fourcc = "hvc1" /\ b.packet_type = 1 ->
          Packet("hevc_nalu", I24(b.composition_time), b.data)
    [] b.fourcc = "hvc1" /\ b.packet_type = 3 -> Packet("hevc_nalu", 0, b.data)
    [] OTHER -> Unknown(b.data)

\* Codec id 7 is AVC; a frame of type 5 carries a command and no media.
VideoTagBody(b) ==
  CASE b.frame_type = 5 -> Unknown(b.data)
    [] b.frame_type # 5 /\ b.enhanced -> EnhancedPacket(b)
    [] b.frame_type # 5 /\ ~b.enhanced /\ b.packet_type = 7 -> AvcPacket(b)
    [] OTHER -> Unknown(b.data)

FlvTagData(raw) ==
  CASE raw.tag_type = Audio -> AudioDataBody(raw.body)
    [] raw.tag_type = Video -> VideoTagBody(raw.body)
    [] raw.tag_type = ScriptData -> Packet("script", 0, raw.body)
    [] OTHER -> Unknown(raw.body)

SequenceStarts == {"avc_sequence_header", "av1_sequence_start", "hevc_sequence_start"}

\* FlvTag::demux fails on a tag cut short and on a configuration record that
\* cannot be parsed.
Demuxable(raw) ==
  /\ raw.whole
  /\ FlvTagData(raw).kind \in SequenceStarts => FlvTagData(raw).data.record

FlvTag(raw) ==
  LET packet == FlvTagData(raw)
  IN  [timestamp_ms |-> raw.timestamp + raw.timestamp_ext * 16777216,
       kind |-> packet.kind,
       frame_type |-> IF raw.tag_type = Video THEN raw.body.frame_type ELSE 0,
       composition_time |-> packet.composition_time,
       data |-> packet.data]
===========================================================================
