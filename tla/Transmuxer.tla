---------------------------- MODULE Transmuxer ----------------------------
(***************************************************************************)
(* The transmuxer (crates/transmuxer): FLV tags go in through demux and    *)
(* add_tag, one fragment of MP4 comes out of every call of mux.  The first *)
(* fragment is the init segment, made from the sequence headers; every     *)
(* later one holds a single audio or video sample.                         *)
(*                                                                         *)
(* A frame rate is a whole number of frames per second, a duration a       *)
(* number of ticks of a clock with 1000 ticks a frame.  Bit rates are left *)
(* out: nothing but the caller reads them.                                 *)
(***************************************************************************)
EXTENDS Flv, Sequences, FiniteSets

CONSTANTS
  Traffic,  \* what may be fed: records [first, calls, max], `first` the tags
            \* fed before anything else, `calls` the sequences of tags of a
            \* demux, `max` a bound on the tags fed in all
  GiveUp    \* mux gives up on sequence headers above this many tags (30)

ASSUME GiveUpAssumption == GiveUp \in Nat

VARIABLES
  traffic,                                     \* the member of Traffic
  tags, settings, sequence_number, audio_duration, video_duration,
  last_video_timestamp,
  result,                                      \* what the last call returned
  fed, sent_video, sent_audio                  \* history: tags and segments

outputs == <<sequence_number, audio_duration, video_duration,
             last_video_timestamp, sent_video, sent_audio>>
vars == <<traffic, tags, settings, result, fed, outputs>>

None == [type |-> "none"]
Error(error) == [type |-> "error", error |-> error]

VideoMedia == {"avc_nalu", "av1_raw", "hevc_nalu"}
IsAudio(tag) == tag.kind = "aac_raw"
IsVideo(tag) == tag.kind \in VideoMedia

Init ==
  /\ traffic \in Traffic
  /\ tags = [i \in DOMAIN traffic.first |-> FlvTag(traffic.first[i])]
  /\ fed = tags
  /\ settings = None /\ result = None
  /\ sequence_number = 1 /\ audio_duration = 0 /\ video_duration = 0
  /\ last_video_timestamp = 0
  /\ sent_video = <<>> /\ sent_audio = <<>>

---------------------------------------------------------------------------
(* Feeding *)

Push(new) ==
  /\ tags' = tags \o new
  /\ fed' = fed \o new

\* demux keeps the tags read before the first one that cannot be read.
Demux(raws) ==
  /\ Len(fed) + Len(raws) <= traffic.max
  /\ \E good \in 0 .. Len(raws) :
       /\ \A i \in 1 .. good : Demuxable(raws[i])
       /\ good < Len(raws) => ~Demuxable(raws[good + 1])
       /\ Push([i \in 1 .. good |-> FlvTag(raws[i])])
       /\ result' = IF good = Len(raws) THEN None ELSE Error("demux")
  /\ UNCHANGED <<traffic, settings, outputs>>

AddTag(raw) ==
  /\ Len(fed) < traffic.max
  /\ Demuxable(raw)
  /\ Push(<<FlvTag(raw)>>)
  /\ result' = None
  /\ UNCHANGED <<traffic, settings, outputs>>

---------------------------------------------------------------------------
(* The init segment *)

IsVideoHeader(tag) == tag.kind \in SequenceStarts
IsAudioHeader(tag) == tag.kind = "aac_sequence_header"
IsMetadata(tag) ==
  tag.kind = "script" /\ tag.data.name \in {"@setDataFrame", "onMetaData"} /\ tag.data.object

\* find_tags reads until it has a tag of each sort, and of each sort keeps the
\* last it has read.
Places(Is(_)) == {i \in DOMAIN tags : Is(tags[i])}

Scanned ==
  LET Complete(n) == /\ \E i \in Places(IsVideoHeader) : i <= n
                     /\ \E i \in Places(IsAudioHeader) : i <= n
                     /\ \E i \in Places(IsMetadata) : i <= n
  IN  {i \in DOMAIN tags : \A n \in 1 .. i - 1 : ~Complete(n)}

Found(places) == LET seen == places \cap Scanned
                 IN  {tags[i] : i \in {j \in seen : \A k \in seen : k <= j}}

VideoHeader == Found(Places(IsVideoHeader))
AudioHeader == Found(Places(IsAudioHeader))
Metadata == Found(Places(IsMetadata))

\* The frame rate of the metadata, unless the AVC or HEVC configuration has
\* one of its own.
Framerate(video) ==
  IF video.kind # "av1_sequence_start" /\ video.data.framerate # 0
  THEN video.data.framerate
  ELSE IF Metadata = {} THEN 0 ELSE (CHOOSE tag \in Metadata : TRUE).data.framerate

\* init_sequence's checks, in its order, and the error of the first that fails.
InitChecks(video, audio) ==
  <<[ok |-> video.data.sps, error |-> "video configuration"],
    [ok |-> audio.data.config.parses, error |-> "audio configuration"],
    [ok |-> Framerate(video) # 0, error |-> "frame rate"],
    [ok |-> video.data.width # 0 /\ video.data.height # 0, error |-> "dimensions"],
    [ok |-> audio.data.config.sample_rate # 0, error |-> "sample rate"]>>

InitErrors(video, audio) ==
  LET checks == InitChecks(video, audio)
      failed == {i \in DOMAIN checks : ~checks[i].ok}
  IN  {checks[i].error : i \in {j \in failed : \A k \in failed : j <= k}}

Settings(video, audio) ==
  [type |-> "settings",
   codec |-> video.kind, framerate |-> Framerate(video),
   width |-> video.data.width, height |-> video.data.height,
   colr |-> video.data.colr, config |-> video.data.len,
   sample_rate |-> audio.data.config.sample_rate,
   channels |-> IF audio.data.sound_type = 0 THEN 1 ELSE 2,
   sample_size |-> IF audio.data.sound_size = 0 THEN 8 ELSE 16,
   specific_info |-> audio.data.config.len]

\* Mutant: the tags that were scanned for headers are thrown away.
MuxInitDrains ==
  /\ settings = None
  /\ \E video \in VideoHeader, audio \in AudioHeader :
       /\ InitErrors(video, audio) = {}
       /\ settings' = Settings(video, audio)
       /\ result' = [type |-> "init", settings |-> settings']
  /\ tags' = <<>>
  /\ UNCHANGED <<traffic, fed, outputs>>

\* init_sequence reads the queue and takes nothing out of it.
MuxInit ==
  /\ settings = None
  /\ \E video \in VideoHeader, audio \in AudioHeader :
       IF InitErrors(video, audio) = {}
       THEN /\ settings' = Settings(video, audio)
            /\ result' = [type |-> "init", settings |-> settings']
       ELSE /\ settings' = settings
            /\ \E error \in InitErrors(video, audio) : result' = Error(error)
  /\ UNCHANGED <<traffic, tags, fed, outputs>>

MuxNotYet ==
  /\ settings = None
  /\ VideoHeader = {} \/ AudioHeader = {}
  /\ result' = IF Len(tags) > GiveUp THEN Error("no sequence headers") ELSE None
  /\ UNCHANGED <<traffic, tags, settings, fed, outputs>>

---------------------------------------------------------------------------
(* The media segments *)

\* Mutant: the delta is compared without abs().
DurationNoAbs(tag) ==
  LET scaled == (tag.timestamp_ms - last_video_timestamp) * settings.framerate
  IN  IF \/ last_video_timestamp = 0
         \/ tag.timestamp_ms = 0
         \/ tag.timestamp_ms < last_video_timestamp
         \/ scaled - 1000 <= settings.framerate
      THEN 1000
      ELSE Saturate(scaled, 0, U32Max)

\* The ticks since the last video frame: 1000 when the delta in milliseconds
\* is within one of 1000 / framerate, multiplied out by the frame rate.
Duration(tag) ==
  LET delta == tag.timestamp_ms - last_video_timestamp
      scaled == delta * settings.framerate
  IN  IF \/ last_video_timestamp = 0
         \/ tag.timestamp_ms = 0
         \/ tag.timestamp_ms < last_video_timestamp
         \/ /\ scaled - 1000 <= settings.framerate
            /\ 1000 - scaled <= settings.framerate
      THEN 1000
      ELSE Saturate(scaled, 0, U32Max)

CompositionTime(tag) == ((tag.composition_time * settings.framerate) \div 1000) * 1000

\* An optional field is the set of its values: {} or a singleton.
CompositionOffset(tag) ==
  CASE tag.kind = "avc_nalu" -> {Saturate(CompositionTime(tag), 0, U32Max)}
    [] tag.kind = "hevc_nalu" ->
         {Saturate(CompositionTime(tag), -I32Max - 1, I32Max)}
    [] OTHER -> {}

\* TrunSampleFlag: what the sample depends on (2: nothing, 1: other samples)
\* and whether it is a non-sync sample.
Keyframe(tag) == tag.frame_type = 1
SampleFlags(tag) ==
  IF IsAudio(tag) \/ Keyframe(tag)
  THEN [depends_on |-> 2, non_sync |-> FALSE]
  ELSE [depends_on |-> 1, non_sync |-> TRUE]

Segment(tag, duration, start) ==
  [sequence_number |-> sequence_number, timestamp |-> start, duration |-> duration,
   composition_time_offset |-> CompositionOffset(tag), flags |-> SampleFlags(tag),
   keyframe |-> IsVideo(tag) /\ Keyframe(tag),
   timestamp_ms |-> tag.timestamp_ms, kind |-> tag.kind, data |-> tag.data]

MuxAudio(tag) ==
  LET segment == Segment(tag, 1024, audio_duration)
  IN  /\ IsAudio(tag)
      /\ audio_duration' = audio_duration + 1024
      /\ sent_audio' = Append(sent_audio, segment)
      /\ result' = [type |-> "audio", segment |-> segment]
      /\ UNCHANGED <<video_duration, last_video_timestamp, sent_video>>

\* Mutant: the decode time is read after the duration was added.
MuxVideoLate(tag) ==
  LET segment == Segment(tag, Duration(tag), video_duration + Duration(tag))
  IN  /\ IsVideo(tag)
      /\ video_duration' = video_duration + segment.duration
      /\ last_video_timestamp' = tag.timestamp_ms
      /\ sent_video' = Append(sent_video, segment)
      /\ result' = [type |-> "video", segment |-> segment]
      /\ UNCHANGED <<audio_duration, sent_audio>>

MuxVideo(tag) ==
  LET segment == Segment(tag, Duration(tag), video_duration)
  IN  /\ IsVideo(tag)
      /\ video_duration' = video_duration + segment.duration
      /\ last_video_timestamp' = tag.timestamp_ms
      /\ sent_video' = Append(sent_video, segment)
      /\ result' = [type |-> "video", segment |-> segment]
      /\ UNCHANGED <<audio_duration, sent_audio>>

\* The loop drops the tags that are not media and stops at the first that is.
MuxMedia ==
  /\ settings # None
  /\ \E n \in DOMAIN tags :
       /\ \A m \in 1 .. n - 1 : ~IsAudio(tags[m]) /\ ~IsVideo(tags[m])
       /\ MuxAudio(tags[n]) \/ MuxVideo(tags[n])
       /\ tags' = SubSeq(tags, n + 1, Len(tags))
  /\ sequence_number' = sequence_number + 1
  /\ UNCHANGED <<traffic, settings, fed>>

MuxNothing ==
  /\ settings # None
  /\ \A n \in DOMAIN tags : ~IsAudio(tags[n]) /\ ~IsVideo(tags[n])
  /\ tags' = <<>>
  /\ result' = None
  /\ UNCHANGED <<traffic, settings, fed, outputs>>

Next ==
  \/ \E raws \in traffic.calls : Demux(raws)
  \/ \E raws \in traffic.calls : Len(raws) = 1 /\ AddTag(raws[1])
  \/ MuxInit
  \/ MuxNotYet
  \/ MuxMedia
  \/ MuxNothing

Spec == Init /\ [][Next]_vars

---------------------------------------------------------------------------
(* Properties *)

\* The fields of a tag that the transmuxer calculates with are numbers of the
\* ranges the FLV reader gives them.
RawTags == UNION {UNION {{raws[i] : i \in DOMAIN raws} : raws \in {t.first} \cup t.calls} : t \in Traffic}
Tags == {FlvTag(raw) : raw \in RawTags}

ASSUME TrafficAssumption ==
  /\ \A t \in Traffic : t.first \in Seq(RawTags) /\ t.calls \subseteq Seq(RawTags)
  /\ \A tag \in Tags :
       /\ tag.timestamp_ms \in Nat
       /\ tag.composition_time \in Int
       /\ IsVideoHeader(tag) \/ IsMetadata(tag) => tag.data.framerate \in Nat

Segments ==
  [sequence_number : Nat, timestamp : Nat, duration : Nat,
   composition_time_offset : SUBSET Int,
   flags : [depends_on : {1, 2}, non_sync : BOOLEAN], keyframe : BOOLEAN,
   timestamp_ms : Nat, kind : {tag.kind : tag \in Tags}, data : {tag.data : tag \in Tags}]

\* Every counter is a natural number, and a transmuxer with settings has a frame
\* rate to divide by (Transmuxer, init_sequence's checks).
TypeOK ==
  /\ traffic \in Traffic
  /\ tags \in Seq(Tags) /\ fed \in Seq(Tags)
  /\ sequence_number \in Nat \ {0}
  /\ audio_duration \in Nat /\ video_duration \in Nat /\ last_video_timestamp \in Nat
  /\ settings # None => settings.framerate \in Nat \ {0}
  /\ sent_video \in Seq(Segments) /\ sent_audio \in Seq(Segments)

End(segment) == segment.timestamp + segment.duration
Numbers(sent) == {sent[i].sequence_number : i \in DOMAIN sent}

Contiguous(sent, total) ==
  /\ \A i \in DOMAIN sent : sent[i].timestamp = IF i = 1 THEN 0 ELSE End(sent[i - 1])
  /\ total = IF sent = <<>> THEN 0 ELSE End(sent[Len(sent)])

\* The two tracks have no gap and no overlap: each segment starts, in its own
\* track, where the last one ended, however audio and video are mixed and
\* whatever timestamps the tags have (mux, audio_duration and video_duration);
\* and the sequence numbers of both tracks together are 1, 2, 3, ... with none
\* used twice (mux, sequence_number).
TimelineIsContiguous ==
  /\ Contiguous(sent_video, video_duration)
  /\ Contiguous(sent_audio, audio_duration)
  /\ Numbers(sent_video) \cup Numbers(sent_audio) = 1 .. sequence_number - 1
  /\ Numbers(sent_video) \cap Numbers(sent_audio) = {}
  /\ \A i, j \in DOMAIN sent_video :
       i < j => sent_video[i].sequence_number < sent_video[j].sequence_number
  /\ \A i, j \in DOMAIN sent_audio :
       i < j => sent_audio[i].sequence_number < sent_audio[j].sequence_number

Payload(x) == <<x.kind, x.timestamp_ms, x.data>>

\* The tags that mux has taken from the queue so far are the first Taken fed.
Taken == Len(fed) - Len(tags)

\* A track holds the payloads of the tags at these places of `from`, each once
\* and in their order: segment i is the tag at place at[i].
InOrder(sent, from, places) ==
  \E at \in [DOMAIN sent -> places] :
    /\ \A i, j \in DOMAIN sent : i < j => at[i] < at[j]
    /\ \A p \in places : \E i \in DOMAIN sent : at[i] = p
    /\ \A i \in DOMAIN sent : Payload(sent[i]) = Payload(from[at[i]])

\* No media is lost, repeated or reordered: the payloads sent on a track are
\* those of the media tags taken from the queue, in the order they were fed;
\* so tags that arrive before the headers are sent after the init segment, and
\* tags that are not media are dropped without a trace (mux, find_tags, demux).
MediaIsConserved ==
  /\ tags = SubSeq(fed, Taken + 1, Len(fed))
  /\ InOrder(sent_video, fed, {p \in 1 .. Taken : IsVideo(fed[p])})
  /\ InOrder(sent_audio, fed, {p \in 1 .. Taken : IsAudio(fed[p])})

\* A stretch of video, from one frame to a later one, in which time only goes
\* forward, no timestamp is 0 and no gap is too long for 32 bits of ticks.
Steady(m, n) ==
  \A i \in m + 1 .. n :
    /\ 0 < sent_video[i - 1].timestamp_ms
    /\ sent_video[i - 1].timestamp_ms <= sent_video[i].timestamp_ms
    /\ (sent_video[i].timestamp_ms - sent_video[i - 1].timestamp_ms) * settings.framerate <= U32Max

\* Rounding a frame's duration to the frame rate (mux, the comment on rounding
\* errors) costs at most one millisecond a frame: over any steady stretch the
\* video clock and the timestamps of the source differ by no more than that.
DriftBounded ==
  \A m \in DOMAIN sent_video : \A n \in m .. Len(sent_video) :
    Steady(m, n) =>
      LET drift == End(sent_video[n]) - End(sent_video[m])
                   - (sent_video[n].timestamp_ms - sent_video[m].timestamp_ms) * settings.framerate
      IN  /\ drift <= (n - m) * settings.framerate
          /\ -drift <= (n - m) * settings.framerate

\* Frame i is number k + i - 1 of a source with exactly the settings' frame rate,
\* its timestamp rounded down to a millisecond.
OnGrid(i, k) ==
  LET error == 1000 * (k + i - 1) - sent_video[i].timestamp_ms * settings.framerate
  IN  0 <= error /\ error < settings.framerate

\* A source with a constant frame rate keeps exact time: when all timestamps
\* are those of consecutive frames, rounded to milliseconds, every frame lasts
\* 1000 ticks, with no rounding error left ("we can always represent the delta
\* as an integer", mux).
GridIsExact ==
  sent_video # <<>> =>
    \A k \in 0 .. (((sent_video[1].timestamp_ms + 1) * settings.framerate) \div 1000) :
      (\A i \in DOMAIN sent_video : OnGrid(i, k)) => video_duration = 1000 * Len(sent_video)

\* The video clock follows the source: both of the above.
VideoClockIsTrue == DriftBounded /\ GridIsExact
===========================================================================
