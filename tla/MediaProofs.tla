---------------------------- MODULE MediaProofs ----------------------------
(***************************************************************************)
(* Proofs about the media formats.  Transmuxer, for every traffic and every*)
(* width of a time: the tracks are contiguous, no media is lost, rounding  *)
(* costs at most a millisecond a frame and a constant frame rate is exact. *)
(* BitReader implements BitCursor, for data of any length and any seek.    *)
(***************************************************************************)
EXTENDS Transmuxer, BitReader, TLAPS

----------------------------------------------------------------------------
(* Transmuxer.                                                             *)

---------------------------------------------------------------------------
(* The parts of a step that the invariants depend on.                      *)

\* A step either leaves the tracks alone, or appends one segment of audio or
\* of video.
Idle == UNCHANGED outputs

SendAudio(tag) ==
  /\ settings # None /\ settings' = settings
  /\ audio_duration' = audio_duration + 1024
  /\ sent_audio' = Append(sent_audio, Segment(tag, 1024, audio_duration))
  /\ sequence_number' = sequence_number + 1
  /\ UNCHANGED <<video_duration, last_video_timestamp, sent_video>>

SendVideo(tag) ==
  /\ settings # None /\ settings' = settings
  /\ video_duration' = video_duration + Duration(tag)
  /\ last_video_timestamp' = tag.timestamp_ms
  /\ sent_video' = Append(sent_video, Segment(tag, Duration(tag), video_duration))
  /\ sequence_number' = sequence_number + 1
  /\ UNCHANGED <<audio_duration, sent_audio>>

\* The fields of a tag are numbers.
LEMMA TagFacts ==
  ASSUME NEW tag \in Tags
  PROVE  /\ tag.timestamp_ms \in Nat
         /\ tag.composition_time \in Int
         /\ IsVideoHeader(tag) \/ IsMetadata(tag) => tag.data.framerate \in Nat
  BY TrafficAssumption

\* A saturating cast gives a number.
LEMMA SaturateType ==
  ASSUME NEW x \in Int, NEW low \in Int, NEW high \in Int
  PROVE  Saturate(x, low, high) \in Int
  BY DEF Saturate

\* A duration is never negative.
LEMMA DurationType ==
  ASSUME NEW tag \in Tags, settings.framerate \in Nat \ {0}, last_video_timestamp \in Nat
  PROVE  Duration(tag) \in Nat
<1> DEFINE scaled == (tag.timestamp_ms - last_video_timestamp) * settings.framerate
<1>1. tag.timestamp_ms \in Nat
  BY TagFacts
<1>2. scaled \in Int
  BY <1>1
<1>3. Saturate(scaled, 0, U32Max) \in Nat
  BY <1>2, U32Assumption DEF Saturate
<1> QED
  BY <1>3 DEF Duration

\* What mux writes is a segment.
LEMMA SegmentType ==
  ASSUME NEW tag \in Tags, NEW duration \in Nat, NEW start \in Nat,
         settings.framerate \in Nat \ {0}, sequence_number \in Nat
  PROVE  Segment(tag, duration, start) \in Segments
<1>1. tag.timestamp_ms \in Nat /\ tag.composition_time \in Int
  BY TagFacts
<1>2. CompositionTime(tag) \in Int
  <2>1. tag.composition_time * settings.framerate \in Int
    BY <1>1
  <2> QED
    BY <2>1 DEF CompositionTime
<1>3. I32Max \in Int /\ U32Max \in Int
  BY U32Assumption DEF I32Max
<1>4. CompositionOffset(tag) \in SUBSET Int
  <2>1. Saturate(CompositionTime(tag), 0, U32Max) \in Int
    BY <1>2, <1>3, SaturateType
  <2>2. Saturate(CompositionTime(tag), -I32Max - 1, I32Max) \in Int
    BY <1>2, <1>3, SaturateType
  <2> QED
    BY <2>1, <2>2 DEF CompositionOffset
<1>5. SampleFlags(tag) \in [depends_on : {1, 2}, non_sync : BOOLEAN]
  BY DEF SampleFlags
<1>6. (IsVideo(tag) /\ Keyframe(tag)) \in BOOLEAN
  BY DEF IsVideo, Keyframe
<1>7. tag.kind \in {t.kind : t \in Tags} /\ tag.data \in {t.data : t \in Tags}
  OBVIOUS
<1> QED
  BY <1>1, <1>4, <1>5, <1>6, <1>7 DEF Segment, Segments

---------------------------------------------------------------------------
(* What a step does to the tracks.                                         *)

\* The frame rate of the settings is a natural number.
LEMMA FramerateType ==
  ASSUME TypeOK, NEW video \in VideoHeader
  PROVE  Framerate(video) \in Nat
<1>1. PICK i \in DOMAIN tags : video = tags[i] /\ IsVideoHeader(video)
  BY DEF VideoHeader, Found, Places
<1>2. video.data.framerate \in Nat
  BY <1>1, TagFacts DEF TypeOK
<1>3. ASSUME Metadata # {}
      PROVE  (CHOOSE tag \in Metadata : TRUE).data.framerate \in Nat
  <2>1. PICK tag \in Metadata : tag = CHOOSE t \in Metadata : TRUE
    BY <1>3
  <2>2. PICK j \in DOMAIN tags : tag = tags[j] /\ IsMetadata(tag)
    BY DEF Metadata, Found, Places
  <2>3. tag.data.framerate \in Nat
    BY <2>2, TagFacts DEF TypeOK
  <2> QED
    BY <2>1, <2>3
<1> QED
  BY <1>2, <1>3 DEF Framerate

\* init_sequence passes its third check only with a frame rate.
LEMMA CheckedFramerate ==
  ASSUME NEW video, NEW audio, InitErrors(video, audio) = {}
  PROVE  Framerate(video) # 0
<1> DEFINE checks == InitChecks(video, audio)
           failed == {i \in DOMAIN checks : ~checks[i].ok}
<1>1. DOMAIN checks = 1 .. 5
  BY DEF InitChecks
<1>2. \A j \in failed : \E k \in failed : ~(j <= k)
  BY DEF InitErrors
<1>3. checks[3].ok <=> Framerate(video) # 0
  BY Zenon DEF InitChecks
<1> HIDE DEF checks
<1>4. 3 \notin failed
  BY <1>1, <1>2
<1>5. checks[3].ok
  BY <1>1, <1>4
<1> QED
  BY <1>3, <1>5

\* mux after the headers writes one segment of audio or one of video.
LEMMA MediaStep ==
  ASSUME TypeOK, MuxMedia
  PROVE  /\ \E tag \in Tags : SendAudio(tag) \/ SendVideo(tag)
         /\ tags' \in Seq(Tags) /\ UNCHANGED <<traffic, fed>>
<1>1. PICK n \in DOMAIN tags : /\ MuxAudio(tags[n]) \/ MuxVideo(tags[n])
                               /\ tags' = SubSeq(tags, n + 1, Len(tags))
  BY Zenon DEF MuxMedia
<1>2. tags[n] \in Tags /\ tags' \in Seq(Tags)
  BY <1>1 DEF TypeOK
<1>3. /\ settings # None /\ settings' = settings
      /\ sequence_number' = sequence_number + 1 /\ UNCHANGED <<traffic, fed>>
  BY DEF MuxMedia
<1>4. MuxAudio(tags[n]) => SendAudio(tags[n])
  BY <1>3 DEF MuxAudio, SendAudio
<1>5. MuxVideo(tags[n]) => SendVideo(tags[n])
  <2>1. Segment(tags[n], Duration(tags[n]), video_duration).duration = Duration(tags[n])
    BY DEF Segment
  <2> QED
    BY <1>3, <2>1 DEF MuxVideo, SendVideo
<1> QED
  BY <1>1, <1>2, <1>3, <1>4, <1>5

\* add and demux push tags.
LEMMA FeedType ==
  ASSUME TypeOK, NEW raws \in traffic.calls, NEW n \in 0 .. Len(raws),
         Push([i \in 1 .. n |-> FlvTag(raws[i])])
  PROVE  tags' \in Seq(Tags) /\ fed' \in Seq(Tags)
<1>1. traffic \in Traffic /\ raws \in Seq(RawTags)
  BY TrafficAssumption DEF TypeOK
<1>2. \A i \in 1 .. n : FlvTag(raws[i]) \in Tags
  BY <1>1 DEF Tags
<1>3. [i \in 1 .. n |-> FlvTag(raws[i])] \in Seq(Tags)
  BY <1>1, <1>2
<1> QED
  BY <1>3 DEF Push, TypeOK

\* A step that is not one of mux with media leaves the tracks alone.  It may
\* give a transmuxer without settings some, with a frame rate.
LEMMA IdleStep ==
  ASSUME TypeOK, Next \/ UNCHANGED vars, ~MuxMedia
  PROVE  /\ UNCHANGED <<traffic, outputs>>
         /\ tags' \in Seq(Tags) /\ fed' \in Seq(Tags)
         /\ \/ settings' = settings
            \/ settings = None /\ settings'.framerate \in Nat \ {0}
<1>1. ASSUME NEW raws \in traffic.calls, Demux(raws)
      PROVE  tags' \in Seq(Tags) /\ fed' \in Seq(Tags)
  BY <1>1, FeedType, Zenon DEF Demux
<1>2. ASSUME NEW raws \in traffic.calls, Len(raws) = 1, AddTag(raws[1])
      PROVE  tags' \in Seq(Tags) /\ fed' \in Seq(Tags)
  <2>1. Push(<<FlvTag(raws[1])>>)
    BY <1>2 DEF AddTag
  <2>2. <<FlvTag(raws[1])>> = [i \in 1 .. 1 |-> FlvTag(raws[i])]
    OBVIOUS
  <2> QED
    BY <2>1, <2>2, <1>2, FeedType
<1>3. ASSUME MuxInit
      PROVE  \/ settings' = settings
             \/ settings = None /\ settings'.framerate \in Nat \ {0}
  <2>1. PICK video \in VideoHeader, audio \in AudioHeader :
             IF InitErrors(video, audio) = {}
             THEN settings' = Settings(video, audio) ELSE settings' = settings
    BY <1>3 DEF MuxInit
  <2>2. InitErrors(video, audio) = {} => Framerate(video) \in Nat \ {0}
    BY CheckedFramerate, FramerateType
  <2>3. Settings(video, audio).framerate = Framerate(video)
    BY DEF Settings
  <2> QED
    BY <1>3, <2>1, <2>2, <2>3 DEF MuxInit
<1>4. ASSUME MuxInit \/ MuxNotYet \/ MuxNothing \/ UNCHANGED vars
      PROVE  tags' \in Seq(Tags) /\ fed' = fed /\ UNCHANGED <<traffic, outputs>>
  <2>1. CASE MuxInit
    BY <2>1 DEF MuxInit, TypeOK
  <2>2. CASE MuxNotYet
    BY <2>2, Zenon DEF MuxNotYet, TypeOK
  <2>3. CASE MuxNothing
    BY <2>3 DEF MuxNothing, TypeOK
  <2>4. CASE UNCHANGED vars
    BY <2>4 DEF vars, outputs, TypeOK
  <2> QED
    BY <1>4, <2>1, <2>2, <2>3, <2>4
<1>5. ASSUME MuxNotYet \/ MuxNothing \/ UNCHANGED vars
      PROVE  settings' = settings
  BY <1>5, Zenon DEF MuxNotYet, MuxNothing, vars
<1> QED
  BY <1>1, <1>2, <1>3, <1>4, <1>5, Zenon DEF Next, Demux, AddTag, TypeOK

---------------------------------------------------------------------------
(* Types.                                                                  *)

\* A new Transmuxer has the types.
LEMMA TypeInit == Init => TypeOK
<1> SUFFICES ASSUME Init PROVE TypeOK
  OBVIOUS
<1>1. traffic.first \in Seq(RawTags)
  BY TrafficAssumption DEF Init
<1>2. \A i \in DOMAIN traffic.first : FlvTag(traffic.first[i]) \in Tags
  BY <1>1 DEF Tags
<1>3. tags \in Seq(Tags)
  BY <1>1, <1>2 DEF Init
<1> QED
  BY <1>3 DEF Init, TypeOK

\* Every call keeps the types.
LEMMA TypeStep == TypeOK /\ [Next]_vars => TypeOK'
<1> SUFFICES ASSUME TypeOK, [Next]_vars PROVE TypeOK'
  OBVIOUS
<1>1. CASE MuxMedia
  <2>1. PICK tag \in Tags : SendAudio(tag) \/ SendVideo(tag)
    BY <1>1, MediaStep
  <2>2. tags' \in Seq(Tags) /\ UNCHANGED <<traffic, fed>>
    BY <1>1, MediaStep
  <2>3. settings.framerate \in Nat \ {0} /\ settings' = settings /\ tag.timestamp_ms \in Nat
    BY <2>1, TagFacts DEF SendAudio, SendVideo, TypeOK
  <2>4. CASE SendAudio(tag)
    <3>1. Segment(tag, 1024, audio_duration) \in Segments
      BY <2>3, SegmentType DEF TypeOK
    <3> QED
      BY <2>2, <2>3, <2>4, <3>1 DEF SendAudio, TypeOK
  <2>5. CASE SendVideo(tag)
    <3>1. Duration(tag) \in Nat
      BY <2>3, DurationType DEF TypeOK
    <3>2. Segment(tag, Duration(tag), video_duration) \in Segments
      BY <2>3, <3>1, SegmentType DEF TypeOK
    <3> QED
      BY <2>2, <2>3, <2>5, <3>1, <3>2 DEF SendVideo, TypeOK
  <2> QED
    BY <2>1, <2>4, <2>5
<1>2. CASE ~MuxMedia
  BY <1>2, IdleStep, Zenon DEF TypeOK, outputs
<1> QED
  BY <1>1, <1>2

\* Every counter and history keeps its type, and a transmuxer with settings has
\* a frame rate to scale by, whatever tags are fed (mux, init_sequence).
THEOREM TypeCorrect == Spec => []TypeOK
<1> QED
  BY TypeInit, TypeStep, PTL DEF Spec

---------------------------------------------------------------------------
(* The timeline.                                                           *)

\* A segment that begins where the track ends keeps it without a gap.
LEMMA AppendContiguous ==
  ASSUME NEW sent \in Seq(Segments), NEW total \in Nat, NEW segment \in Segments,
         segment.timestamp = total, Contiguous(sent, total)
  PROVE  Contiguous(Append(sent, segment), total + segment.duration)
<1> DEFINE more == Append(sent, segment)
<1>1. /\ Len(more) = Len(sent) + 1 /\ DOMAIN more = 1 .. Len(sent) + 1
      /\ more[Len(sent) + 1] = segment /\ \A i \in 1 .. Len(sent) : more[i] = sent[i]
  OBVIOUS
<1>2. ASSUME NEW i \in DOMAIN more
      PROVE  more[i].timestamp = IF i = 1 THEN 0 ELSE End(more[i - 1])
  <2>1. CASE i <= Len(sent)
    BY <1>1, <2>1 DEF Contiguous
  <2>2. CASE i = Len(sent) + 1
    <3>1. CASE sent = <<>>
      BY <1>1, <2>2, <3>1 DEF Contiguous
    <3>2. CASE sent # <<>>
      BY <1>1, <2>2, <3>2 DEF Contiguous
    <3> QED
      BY <3>1, <3>2
  <2> QED
    BY <1>1, <2>1, <2>2
<1>3. total + segment.duration = End(more[Len(more)])
  BY <1>1 DEF End
<1>4. more # <<>>
  BY <1>1
<1> QED
  BY <1>2, <1>3, <1>4, SMTT(20) DEF Contiguous

Increasing(sent) ==
  \A i, j \in DOMAIN sent : i < j => sent[i].sequence_number < sent[j].sequence_number

\* A segment adds its own number to a track.
LEMMA AppendNumbers ==
  ASSUME NEW sent \in Seq(Segments), NEW segment
  PROVE  Numbers(Append(sent, segment)) = Numbers(sent) \cup {segment.sequence_number}
<1>1. DOMAIN Append(sent, segment) = DOMAIN sent \cup {Len(sent) + 1}
  OBVIOUS
<1> QED
  BY <1>1 DEF Numbers

\* A segment with a number above all others keeps the numbers in order.
LEMMA AppendIncreasing ==
  ASSUME NEW sent \in Seq(Segments), NEW segment \in Segments, Increasing(sent),
         \A n \in Numbers(sent) : n < segment.sequence_number
  PROVE  Increasing(Append(sent, segment))
<1> DEFINE more == Append(sent, segment)
<1>1. /\ DOMAIN more = 1 .. Len(sent) + 1 /\ DOMAIN sent = 1 .. Len(sent)
      /\ more[Len(sent) + 1] = segment /\ \A i \in 1 .. Len(sent) : more[i] = sent[i]
  OBVIOUS
<1>2. \A i \in 1 .. Len(sent) : sent[i].sequence_number < segment.sequence_number
  BY <1>1 DEF Numbers
<1> QED
  BY <1>1, <1>2 DEF Increasing

\* The fields of a segment that are copied as they are.
LEMMA SegmentFields ==
  ASSUME NEW tag, NEW duration, NEW start
  PROVE  LET segment == Segment(tag, duration, start)
         IN  /\ segment.sequence_number = sequence_number
             /\ segment.timestamp = start /\ segment.duration = duration
             /\ segment.timestamp_ms = tag.timestamp_ms
  BY DEF Segment

\* Every call keeps both tracks contiguous and their numbers apart.
LEMMA TimelineStep ==
  ASSUME TypeOK, TimelineIsContiguous, [Next]_vars
  PROVE  TimelineIsContiguous'
<1> USE DEF TypeOK
<1>1. CASE MuxMedia
  <2>1. PICK tag \in Tags : SendAudio(tag) \/ SendVideo(tag)
    BY <1>1, MediaStep
  <2>2. settings.framerate \in Nat \ {0} /\ Duration(tag) \in Nat
    BY <2>1, DurationType DEF SendAudio, SendVideo
  <2>3. \A n \in Numbers(sent_video) \cup Numbers(sent_audio) :
          n \in Nat /\ n < sequence_number
    BY DEF TimelineIsContiguous
  <2>4. 1 .. (sequence_number + 1) - 1 = 1 .. sequence_number - 1 \cup {sequence_number}
    OBVIOUS
  <2>5. Increasing(sent_video) /\ Increasing(sent_audio)
    BY DEF TimelineIsContiguous, Increasing
  <2>6. CASE SendAudio(tag)
    <3> DEFINE segment == Segment(tag, 1024, audio_duration)
    <3>1. segment \in Segments
      BY <2>2, SegmentType
    <3>2. segment.sequence_number = sequence_number
          /\ segment.timestamp = audio_duration /\ segment.duration = 1024
      BY SegmentFields
    <3> HIDE DEF segment
    <3>3. sent_audio' = Append(sent_audio, segment)
      BY <2>6 DEF SendAudio, segment
    <3>4. Contiguous(sent_audio', audio_duration')
      <4>1. audio_duration' = audio_duration + segment.duration
        BY <2>6, <3>2 DEF SendAudio
      <4>2. Contiguous(sent_audio, audio_duration)
        BY DEF TimelineIsContiguous
      <4>3. Contiguous(Append(sent_audio, segment), audio_duration + segment.duration)
        BY <3>1, <3>2, <4>2, AppendContiguous
      <4> QED
        BY <3>3, <4>1, <4>3, Zenon
    <3>5. Increasing(sent_audio')
      BY <2>3, <2>5, <3>1, <3>2, <3>3, AppendIncreasing
    <3>6. Numbers(sent_audio') = Numbers(sent_audio) \cup {sequence_number}
      BY <3>2, <3>3, AppendNumbers
    <3>7. UNCHANGED <<sent_video, video_duration>> /\ sequence_number' = sequence_number + 1
      BY <2>6 DEF SendAudio
    <3>8. /\ Numbers(sent_video') \cup Numbers(sent_audio') = 1 .. sequence_number' - 1
          /\ Numbers(sent_video') \cap Numbers(sent_audio') = {}
      BY <2>3, <2>4, <3>6, <3>7 DEF TimelineIsContiguous
    <3> QED
      BY <2>5, <3>4, <3>5, <3>7, <3>8 DEF TimelineIsContiguous, Increasing
  <2>7. CASE SendVideo(tag)
    <3> DEFINE segment == Segment(tag, Duration(tag), video_duration)
    <3>1. segment \in Segments
      BY <2>2, SegmentType
    <3>2. segment.sequence_number = sequence_number
          /\ segment.timestamp = video_duration /\ segment.duration = Duration(tag)
      BY SegmentFields
    <3> HIDE DEF segment
    <3>3. sent_video' = Append(sent_video, segment)
      BY <2>7 DEF SendVideo, segment
    <3>4. Contiguous(sent_video', video_duration')
      <4>1. video_duration' = video_duration + segment.duration
        BY <2>7, <3>2 DEF SendVideo
      <4>2. Contiguous(sent_video, video_duration)
        BY DEF TimelineIsContiguous
      <4>3. Contiguous(Append(sent_video, segment), video_duration + segment.duration)
        BY <3>1, <3>2, <4>2, AppendContiguous
      <4> QED
        BY <3>3, <4>1, <4>3, Zenon
    <3>5. Increasing(sent_video')
      BY <2>3, <2>5, <3>1, <3>2, <3>3, AppendIncreasing
    <3>6. Numbers(sent_video') = Numbers(sent_video) \cup {sequence_number}
      BY <3>2, <3>3, AppendNumbers
    <3>7. UNCHANGED <<sent_audio, audio_duration>> /\ sequence_number' = sequence_number + 1
      BY <2>7 DEF SendVideo
    <3>8. /\ Numbers(sent_video') \cup Numbers(sent_audio') = 1 .. sequence_number' - 1
          /\ Numbers(sent_video') \cap Numbers(sent_audio') = {}
      BY <2>3, <2>4, <3>6, <3>7 DEF TimelineIsContiguous
    <3> QED
      BY <2>5, <3>4, <3>5, <3>7, <3>8 DEF TimelineIsContiguous, Increasing
  <2> QED
    BY <2>1, <2>6, <2>7
<1>2. CASE ~MuxMedia
  <2>1. UNCHANGED <<sequence_number, audio_duration, video_duration, sent_video, sent_audio>>
    BY <1>2, IdleStep DEF outputs
  <2> QED
    BY <2>1 DEF TimelineIsContiguous
<1> QED
  BY <1>1, <1>2

\* Each track is without gaps and overlaps, and the sequence numbers of both
\* together are 1, 2, 3, ..., for every traffic (mux).
THEOREM TimelineCorrect == Spec => []TimelineIsContiguous
<1>1. Init => TimelineIsContiguous
  BY DEF Init, TimelineIsContiguous, Contiguous, Numbers
<1> QED
  BY <1>1, TypeInit, TypeStep, TimelineStep, PTL DEF Spec

---------------------------------------------------------------------------
(* No media is lost.                                                       *)

\* What is left of fed is the queue.
QueueInv ==
  /\ Len(tags) <= Len(fed)
  /\ \A i \in 1 .. Len(tags) : tags[i] = fed[Taken + i]

MediaInv ==
  /\ QueueInv
  /\ InOrder(sent_video, fed, {p \in 1 .. Taken : IsVideo(fed[p])})
  /\ InOrder(sent_audio, fed, {p \in 1 .. Taken : IsAudio(fed[p])})

\* The invariant says what is promised.
LEMMA QueueSays ==
  ASSUME TypeOK, QueueInv
  PROVE  tags = SubSeq(fed, Taken + 1, Len(fed))
<1>1. tags \in Seq(Tags) /\ fed \in Seq(Tags)
  BY DEF TypeOK
<1>2. PICK t : t = Taken
  BY Zenon
<1>3. t = Len(fed) - Len(tags) /\ t \in Nat /\ Len(fed) \in Nat
  BY <1>1, <1>2 DEF Taken, QueueInv
<1> DEFINE rest == SubSeq(fed, t + 1, Len(fed))
<1>4. rest \in Seq(Tags) /\ Len(rest) = Len(tags) /\ \A i \in 1 .. Len(tags) : rest[i] = fed[t + i]
  BY <1>1, <1>3
<1>5. \A i \in 1 .. Len(tags) : tags[i] = rest[i]
  BY <1>2, <1>4 DEF QueueInv
<1> HIDE DEF rest
<1>6. tags = rest
  BY <1>1, <1>4, <1>5
<1> QED
  BY <1>2, <1>6 DEF rest

\* A track is in order in any list that has the same tags at its places.
LEMMA SameOrder ==
  ASSUME NEW sent, NEW a, NEW b, NEW places, InOrder(sent, a, places),
         \A p \in places : b[p] = a[p]
  PROVE  InOrder(sent, b, places)
<1>1. PICK at \in [DOMAIN sent -> places] :
         /\ \A i, j \in DOMAIN sent : i < j => at[i] < at[j]
         /\ \A p \in places : \E i \in DOMAIN sent : at[i] = p
         /\ \A i \in DOMAIN sent : Payload(sent[i]) = Payload(a[at[i]])
  BY Zenon DEF InOrder
<1>2. ASSUME NEW i \in DOMAIN sent PROVE Payload(sent[i]) = Payload(b[at[i]])
  <2>1. b[at[i]] = a[at[i]]
    BY <1>1
  <2> QED
    BY <1>1, <2>1, Zenon
<1> QED
  BY <1>1, <1>2, Zenon DEF InOrder

\* A segment of a tag behind all others of its track keeps the track in order.
LEMMA AppendOrder ==
  ASSUME NEW sent \in Seq(Segments), NEW segment, NEW from, NEW places \in SUBSET Nat,
         NEW n \in Nat, InOrder(sent, from, places), \A p \in places : p < n,
         Payload(segment) = Payload(from[n])
  PROVE  InOrder(Append(sent, segment), from, places \cup {n})
<1> DEFINE more == Append(sent, segment)
           last == Len(sent) + 1
<1>1. PICK at \in [DOMAIN sent -> places] :
         /\ \A i, j \in DOMAIN sent : i < j => at[i] < at[j]
         /\ \A p \in places : \E i \in DOMAIN sent : at[i] = p
         /\ \A i \in DOMAIN sent : Payload(sent[i]) = Payload(from[at[i]])
  BY Zenon DEF InOrder
<1>2. /\ DOMAIN more = 1 .. last /\ DOMAIN sent = 1 .. Len(sent) /\ Len(sent) \in Nat
      /\ more[last] = segment /\ \A i \in DOMAIN sent : more[i] = sent[i]
  OBVIOUS
<1> HIDE DEF more
<1> DEFINE to == [i \in 1 .. last |-> IF i = last THEN n ELSE at[i]]
<1>3. to \in [DOMAIN more -> places \cup {n}]
  BY <1>1, <1>2
<1>4. to[last] = n /\ \A i \in DOMAIN sent : to[i] = at[i]
  BY <1>2
<1> HIDE DEF to
<1>5. \A i, j \in DOMAIN more : i < j => to[i] < to[j]
  <2> SUFFICES ASSUME NEW i \in 1 .. last, NEW j \in 1 .. last, i < j PROVE to[i] < to[j]
    BY <1>2
  <2>1. i \in DOMAIN sent /\ at[i] \in places
    BY <1>1, <1>2
  <2>2. CASE j = last
    BY <1>4, <2>1, <2>2, Zenon
  <2>3. CASE j # last
    BY <1>1, <1>2, <1>4, <2>1, <2>3, SMTT(20), Z3T(20)
  <2> QED
    BY <2>2, <2>3
<1>6. \A p \in places \cup {n} : \E i \in DOMAIN more : to[i] = p
  <2> SUFFICES ASSUME NEW p \in places \cup {n} PROVE \E i \in 1 .. last : to[i] = p
    BY <1>2, Zenon
  <2>1. CASE p = n
    BY <1>2, <1>4, <2>1
  <2>2. CASE p # n
    <3>1. PICK i \in DOMAIN sent : at[i] = p
      BY <1>1, <2>2, Zenon
    <3> QED
      BY <1>2, <1>4, <3>1
  <2> QED
    BY <2>1, <2>2
<1>7. \A i \in DOMAIN more : Payload(more[i]) = Payload(from[to[i]])
  <2> SUFFICES ASSUME NEW i \in 1 .. last PROVE Payload(more[i]) = Payload(from[to[i]])
    BY <1>2
  <2>1. CASE i = last
    BY <1>2, <1>4, <2>1
  <2>2. CASE i # last
    <3>1. i \in DOMAIN sent
      BY <1>2, <2>2
    <3>2. more[i] = sent[i] /\ to[i] = at[i] /\ Payload(sent[i]) = Payload(from[at[i]])
      BY <1>1, <1>2, <1>4, <3>1
    <3> QED
      BY <3>2, Zenon
  <2> QED
    BY <2>1, <2>2
<1> QED
  BY <1>3, <1>5, <1>6, <1>7, Zenon DEF InOrder, more

\* Tags added to the queue do not touch what was taken.
LEMMA PushKeeps ==
  ASSUME TypeOK, MediaInv, NEW new \in Seq(Tags), Push(new), UNCHANGED <<sent_video, sent_audio>>
  PROVE  MediaInv'
<1>1. tags \in Seq(Tags) /\ fed \in Seq(Tags) /\ tags' = tags \o new /\ fed' = fed \o new
  BY DEF TypeOK, Push
<1>2. /\ Len(tags') = Len(tags) + Len(new) /\ Len(fed') = Len(fed) + Len(new)
      /\ Len(tags) \in Nat /\ Len(fed) \in Nat /\ Len(new) \in Nat
  BY <1>1
<1>3. Taken' = Taken /\ Taken \in Nat /\ Taken + Len(tags) = Len(fed)
  BY <1>2 DEF Taken, MediaInv, QueueInv
<1>4. \A p \in 1 .. Len(fed) : fed'[p] = fed[p]
  BY <1>1
<1>5. QueueInv'
  <2>1. \A i \in 1 .. Len(tags) : tags'[i] = fed'[Taken + i]
    BY <1>1, <1>2, <1>3, <1>4 DEF MediaInv, QueueInv
  <2>2. \A i \in Len(tags) + 1 .. Len(tags) + Len(new) : tags'[i] = fed'[Taken + i]
    <3> SUFFICES ASSUME NEW i \in Len(tags) + 1 .. Len(tags) + Len(new) PROVE tags'[i] = fed'[Taken + i]
      OBVIOUS
    <3>1. tags'[i] = new[i - Len(tags)]
      BY <1>1, <1>2
    <3>2. fed'[Taken + i] = new[Taken + i - Len(fed)]
      BY <1>1, <1>2, <1>3
    <3> QED
      BY <1>2, <1>3, <3>1, <3>2, SMTT(20), Z3T(20)
  <2> QED
    BY <1>2, <1>3, <2>1, <2>2 DEF MediaInv, QueueInv
<1>6. \A p \in 1 .. Taken : fed'[p] = fed[p]
  BY <1>2, <1>3, <1>4
<1>7. InOrder(sent_video, fed, {p \in 1 .. Taken : IsVideo(fed[p])})'
  <2>1. {p \in 1 .. Taken : IsVideo(fed[p])}' = {p \in 1 .. Taken : IsVideo(fed[p])}
    BY <1>3, <1>6
  <2> QED
    BY <1>6, <2>1, SameOrder, Zenon DEF MediaInv
<1>8. InOrder(sent_audio, fed, {p \in 1 .. Taken : IsAudio(fed[p])})'
  <2>1. {p \in 1 .. Taken : IsAudio(fed[p])}' = {p \in 1 .. Taken : IsAudio(fed[p])}
    BY <1>3, <1>6
  <2> QED
    BY <1>6, <2>1, SameOrder, Zenon DEF MediaInv
<1> QED
  BY <1>5, <1>7, <1>8, Zenon DEF MediaInv

\* The first n tags are taken, of which only the last may be media.
Take(n) ==
  /\ n \in DOMAIN tags
  /\ \A m \in 1 .. n - 1 : ~IsAudio(tags[m]) /\ ~IsVideo(tags[m])
  /\ tags' = SubSeq(tags, n + 1, Len(tags))
  /\ fed' = fed

\* Taking tags adds the place of the last to those of its track.
LEMMA TakePlaces ==
  ASSUME TypeOK, QueueInv, NEW n, Take(n)
  PROVE  /\ QueueInv' /\ Taken \in Nat /\ Taken' = Taken + n /\ fed[Taken + n] = tags[n]
         /\ {p \in 1 .. Taken' : IsVideo(fed'[p])}
              = {p \in 1 .. Taken : IsVideo(fed[p])} \cup IF IsVideo(tags[n]) THEN {Taken + n} ELSE {}
         /\ {p \in 1 .. Taken' : IsAudio(fed'[p])}
              = {p \in 1 .. Taken : IsAudio(fed[p])} \cup IF IsAudio(tags[n]) THEN {Taken + n} ELSE {}
<1>1. /\ tags \in Seq(Tags) /\ fed \in Seq(Tags) /\ Len(tags) \in Nat /\ Len(fed) \in Nat
      /\ n \in 1 .. Len(tags)
  BY DEF TypeOK, Take
<1>2. Len(tags') = Len(tags) - n /\ \A i \in 1 .. Len(tags') : tags'[i] = tags[n + i]
  <2>1. tags' = SubSeq(tags, n + 1, Len(tags))
    BY DEF Take
  <2>2. /\ Len(SubSeq(tags, n + 1, Len(tags))) = Len(tags) - n
        /\ \A i \in 1 .. Len(tags) - n : SubSeq(tags, n + 1, Len(tags))[i] = tags[n + i]
    BY <1>1
  <2> QED
    BY <2>1, <2>2, Zenon
<1>3. Taken \in Nat /\ Taken' = Taken + n
  <2>1. fed' = fed
    BY DEF Take
  <2> QED
    BY <1>1, <1>2, <2>1 DEF Taken, QueueInv
<1>4. \A i \in 1 .. Len(tags) : tags[i] = fed[Taken + i]
  BY DEF QueueInv
<1>5. QueueInv'
  <2>1. ASSUME NEW i \in 1 .. Len(tags') PROVE tags'[i] = fed'[Taken' + i]
    <3>1. n + i \in 1 .. Len(tags) /\ Taken' + i = Taken + (n + i)
      BY <1>1, <1>2, <1>3
    <3> QED
      BY <1>2, <1>4, <3>1, SMTT(20) DEF Take
  <2>2. Len(tags') <= Len(fed')
    BY <1>1, <1>2 DEF QueueInv, Take
  <2> QED
    BY <2>1, <2>2 DEF QueueInv
<1>6. \A p \in Taken + 1 .. Taken + n - 1 : ~IsAudio(fed[p]) /\ ~IsVideo(fed[p])
  <2> SUFFICES ASSUME NEW p \in Taken + 1 .. Taken + n - 1 PROVE ~IsAudio(fed[p]) /\ ~IsVideo(fed[p])
    OBVIOUS
  <2>1. p - Taken \in 1 .. n - 1 /\ p - Taken \in 1 .. Len(tags) /\ Taken + (p - Taken) = p
    BY <1>1, <1>3
  <2> QED
    BY <1>4, <2>1 DEF Take
<1>7. fed[Taken + n] = tags[n]
  BY <1>1, <1>4
<1>8. \A p : p \in 1 .. Taken + n
         <=> p \in 1 .. Taken \/ p \in Taken + 1 .. Taken + n - 1 \/ p = Taken + n
  BY <1>1, <1>3
<1>9. {p \in 1 .. Taken + n : IsVideo(fed[p])}
        = {p \in 1 .. Taken : IsVideo(fed[p])} \cup IF IsVideo(tags[n]) THEN {Taken + n} ELSE {}
  BY <1>6, <1>7, <1>8, Zenon
<1>10. {p \in 1 .. Taken + n : IsAudio(fed[p])}
        = {p \in 1 .. Taken : IsAudio(fed[p])} \cup IF IsAudio(tags[n]) THEN {Taken + n} ELSE {}
  BY <1>6, <1>7, <1>8, Zenon
<1> QED
  BY <1>3, <1>5, <1>7, <1>9, <1>10, Zenon DEF Take

\* Every call keeps the invariant.
LEMMA MediaKept ==
  ASSUME TypeOK, MediaInv, [Next]_vars
  PROVE  MediaInv'
<1>1. CASE MuxMedia
  <2>1. PICK n \in DOMAIN tags : /\ \A m \in 1 .. n - 1 : ~IsAudio(tags[m]) /\ ~IsVideo(tags[m])
                                 /\ MuxAudio(tags[n]) \/ MuxVideo(tags[n])
                                 /\ tags' = SubSeq(tags, n + 1, Len(tags))
    BY <1>1, Zenon DEF MuxMedia
  <2>2. Take(n)
    BY <1>1, <2>1, Zenon DEF MuxMedia, Take
  <2>3. PICK v : v = {p \in 1 .. Taken : IsVideo(fed[p])}
    BY Zenon
  <2>4. PICK a : a = {p \in 1 .. Taken : IsAudio(fed[p])}
    BY Zenon
  <2>5. PICK t \in Nat : t = Taken
    BY <2>2, TakePlaces DEF MediaInv
  <2>6. /\ QueueInv' /\ fed' = fed /\ fed[t + n] = tags[n] /\ t + n \in Nat
        /\ {p \in 1 .. Taken : IsVideo(fed[p])}' = v \cup IF IsVideo(tags[n]) THEN {t + n} ELSE {}
        /\ {p \in 1 .. Taken : IsAudio(fed[p])}' = a \cup IF IsAudio(tags[n]) THEN {t + n} ELSE {}
    <3>1. n \in Nat /\ fed' = fed
      BY <2>1, <2>2 DEF TypeOK, Take
    <3>2. /\ QueueInv' /\ fed[Taken + n] = tags[n]
          /\ {p \in 1 .. Taken : IsVideo(fed[p])}'
               = {p \in 1 .. Taken : IsVideo(fed[p])} \cup IF IsVideo(tags[n]) THEN {Taken + n} ELSE {}
          /\ {p \in 1 .. Taken : IsAudio(fed[p])}'
               = {p \in 1 .. Taken : IsAudio(fed[p])} \cup IF IsAudio(tags[n]) THEN {Taken + n} ELSE {}
      BY <2>2, TakePlaces, Zenon DEF MediaInv
    <3>3. t + n \in Nat
      BY <2>5, <3>1
    <3> QED
      BY <2>3, <2>4, <2>5, <3>1, <3>2, <3>3, Zenon
  <2>7. /\ v \in SUBSET Nat /\ a \in SUBSET Nat
        /\ (\A p \in v : p < t + n) /\ (\A p \in a : p < t + n)
    BY <2>1, <2>3, <2>4, <2>5, SMTT(20), Z3T(20) DEF TypeOK
  <2>8. InOrder(sent_video, fed, v) /\ InOrder(sent_audio, fed, a)
    BY <2>3, <2>4, Zenon DEF MediaInv
  <2>9. CASE MuxAudio(tags[n])
    <3> DEFINE segment == Segment(tags[n], 1024, audio_duration)
    <3>1. sent_audio' = Append(sent_audio, segment) /\ sent_video' = sent_video
      BY <2>9 DEF MuxAudio
    <3>2. IsAudio(tags[n]) /\ ~IsVideo(tags[n])
      BY <2>9, SMTT(20), Z3T(20) DEF MuxAudio, IsAudio, IsVideo, VideoMedia
    <3>3. Payload(segment) = Payload(fed[t + n])
      BY <2>6 DEF Payload, Segment
    <3> HIDE DEF segment
    <3>4. InOrder(Append(sent_audio, segment), fed, a \cup {t + n})
      BY <2>6, <2>7, <2>8, <3>3, AppendOrder, Zenon DEF TypeOK
    <3> QED
      BY <2>6, <2>8, <3>1, <3>2, <3>4, Zenon DEF MediaInv
  <2>10. CASE MuxVideo(tags[n])
    <3> DEFINE segment == Segment(tags[n], Duration(tags[n]), video_duration)
    <3>1. sent_video' = Append(sent_video, segment) /\ sent_audio' = sent_audio
      BY <2>10, Zenon DEF MuxVideo
    <3>2. IsVideo(tags[n]) /\ ~IsAudio(tags[n])
      BY <2>10, SMTT(20), Z3T(20) DEF MuxVideo, IsAudio, IsVideo, VideoMedia
    <3>3. Payload(segment) = Payload(fed[t + n])
      BY <2>6 DEF Payload, Segment
    <3> HIDE DEF segment
    <3>4. InOrder(Append(sent_video, segment), fed, v \cup {t + n})
      BY <2>6, <2>7, <2>8, <3>3, AppendOrder, Zenon DEF TypeOK
    <3> QED
      BY <2>6, <2>8, <3>1, <3>2, <3>4, Zenon DEF MediaInv
  <2> QED
    BY <2>1, <2>9, <2>10
<1>2. CASE MuxNothing
  <2>1. CASE tags = <<>>
    <3>1. tags' = tags /\ fed' = fed /\ UNCHANGED <<sent_video, sent_audio>>
      BY <1>2, <2>1 DEF MuxNothing, outputs
    <3> QED
      BY <3>1, Zenon DEF MediaInv, QueueInv, Taken
  <2>2. CASE tags # <<>>
    <3>1. PICK n : n = Len(tags)
      BY Zenon
    <3>2. n \in Nat \ {0} /\ DOMAIN tags = 1 .. n /\ tags' = <<>> /\ SubSeq(tags, n + 1, n) = <<>>
      BY <1>2, <2>2, <3>1 DEF TypeOK, MuxNothing
    <3>3. fed' = fed /\ UNCHANGED <<sent_video, sent_audio>>
          /\ \A m \in DOMAIN tags : ~IsAudio(tags[m]) /\ ~IsVideo(tags[m])
      BY <1>2 DEF MuxNothing, outputs
    <3>4. Take(n)
      BY <3>1, <3>2, <3>3 DEF Take
    <3>5. n \in DOMAIN tags
      BY <3>2
    <3>6. ~IsAudio(tags[n]) /\ ~IsVideo(tags[n])
      BY <3>3, <3>5
    <3>7. /\ QueueInv'
          /\ {p \in 1 .. Taken : IsVideo(fed[p])}' = {p \in 1 .. Taken : IsVideo(fed[p])}
          /\ {p \in 1 .. Taken : IsAudio(fed[p])}' = {p \in 1 .. Taken : IsAudio(fed[p])}
      BY <3>4, <3>6, TakePlaces, Zenon DEF MediaInv
    <3> QED
      BY <3>3, <3>7, Zenon DEF MediaInv
  <2> QED
    BY <2>1, <2>2
<1>3. ASSUME NEW raws \in traffic.calls, NEW n \in 0 .. Len(raws),
             Push([i \in 1 .. n |-> FlvTag(raws[i])]), UNCHANGED outputs
      PROVE  MediaInv'
  <2>1. [i \in 1 .. n |-> FlvTag(raws[i])] \in Seq(Tags)
    <3>1. traffic \in Traffic /\ raws \in Seq(RawTags)
      BY TrafficAssumption DEF TypeOK
    <3>2. \A i \in 1 .. n : FlvTag(raws[i]) \in Tags
      BY <3>1 DEF Tags
    <3> QED
      BY <3>1, <3>2
  <2> QED
    BY <1>3, <2>1, PushKeeps DEF outputs
<1>4. ASSUME NEW raws \in traffic.calls, Demux(raws) PROVE MediaInv'
  BY <1>3, <1>4, Zenon DEF Demux
<1>5. ASSUME NEW raws \in traffic.calls, Len(raws) = 1, AddTag(raws[1]) PROVE MediaInv'
  <2>1. Push(<<FlvTag(raws[1])>>) /\ UNCHANGED outputs
    BY <1>5 DEF AddTag
  <2>2. <<FlvTag(raws[1])>> = [i \in 1 .. 1 |-> FlvTag(raws[i])]
    OBVIOUS
  <2>3. 1 \in 0 .. Len(raws)
    BY <1>5
  <2> QED
    BY <1>3, <2>1, <2>2, <2>3, Zenon
<1>6. CASE MuxInit \/ MuxNotYet \/ UNCHANGED vars
  <2>1. tags' = tags /\ fed' = fed /\ UNCHANGED <<sent_video, sent_audio>>
    BY <1>6, Zenon DEF MuxInit, MuxNotYet, vars, outputs
  <2> QED
    BY <2>1, Zenon DEF MediaInv, QueueInv, Taken
<1> QED
  BY <1>1, <1>2, <1>4, <1>5, <1>6, Zenon DEF Next

\* Every media tag that leaves the queue is sent on its track, once and in the
\* order the tags were fed, for every traffic (mux).
THEOREM MediaCorrect == Spec => []MediaIsConserved
<1>1. ASSUME TypeOK, Init PROVE MediaInv
  <2>1. /\ tags = fed /\ Len(tags) \in Nat /\ Taken = 0 /\ 1 .. 0 = {}
        /\ sent_video = <<>> /\ sent_audio = <<>>
    BY <1>1 DEF Init, TypeOK, Taken
  <2>2. QueueInv
    BY <2>1 DEF QueueInv
  <2>3. InOrder(<<>>, fed, {})
    <3>1. [i \in {} |-> 0] \in [{} -> {}]
      OBVIOUS
    <3>2. DOMAIN <<>> = {}
      OBVIOUS
    <3> QED
      BY <3>1, <3>2, Zenon DEF InOrder
  <2>4. /\ {p \in 1 .. Taken : IsVideo(fed[p])} = {}
        /\ {p \in 1 .. Taken : IsAudio(fed[p])} = {}
    BY <2>1
  <2> QED
    BY <2>1, <2>2, <2>3, <2>4, Zenon DEF MediaInv
<1>2. TypeOK /\ MediaInv => MediaIsConserved
  BY QueueSays DEF MediaInv, MediaIsConserved
<1> QED
  BY <1>1, <1>2, TypeInit, TypeStep, MediaKept, PTL DEF Spec

---------------------------------------------------------------------------
(* The video clock.                                                        *)

\* last_video_timestamp is the timestamp of the last frame sent, and nothing is
\* sent before the init segment.
ClockInv ==
  /\ TypeOK /\ TimelineIsContiguous
  /\ settings = None => sent_video = <<>>
  /\ sent_video = <<>> => last_video_timestamp = 0
  /\ sent_video # <<>> => last_video_timestamp = sent_video[Len(sent_video)].timestamp_ms

\* What a step does to the clock: nothing, or one more frame.
Frame(tag) ==
  /\ settings # None /\ settings' = settings
  /\ tag \in Tags /\ Duration(tag) \in Nat
  /\ video_duration' = video_duration + Duration(tag)
  /\ \E segment \in Segments :
       /\ segment.timestamp = video_duration /\ segment.duration = Duration(tag)
       /\ segment.timestamp_ms = tag.timestamp_ms
       /\ sent_video' = Append(sent_video, segment)

NoFrame ==
  /\ UNCHANGED <<video_duration, sent_video>>
  /\ settings' = settings \/ sent_video = <<>>

\* A step writes one frame of video, or none.
LEMMA ClockStep ==
  ASSUME ClockInv, [Next]_vars
  PROVE  NoFrame \/ \E tag \in Tags : Frame(tag)
<1> USE DEF TypeOK, ClockInv
<1>1. CASE MuxMedia
  <2>1. PICK tag \in Tags : SendAudio(tag) \/ SendVideo(tag)
    BY <1>1, MediaStep
  <2>2. settings.framerate \in Nat \ {0} /\ Duration(tag) \in Nat
    BY <2>1, DurationType DEF SendAudio, SendVideo
  <2>3. SendAudio(tag) => NoFrame
    BY DEF SendAudio, NoFrame
  <2>4. SendVideo(tag) => Frame(tag)
    <3> DEFINE segment == Segment(tag, Duration(tag), video_duration)
    <3>1. segment \in Segments
      BY <2>2, SegmentType
    <3>2. /\ segment.timestamp = video_duration /\ segment.duration = Duration(tag)
          /\ segment.timestamp_ms = tag.timestamp_ms
      BY SegmentFields
    <3> QED
      BY <2>2, <3>1, <3>2, Zenon DEF SendVideo, Frame
  <2> QED
    BY <2>1, <2>3, <2>4
<1>2. CASE ~MuxMedia
  BY <1>2, IdleStep DEF outputs, NoFrame
<1> QED
  BY <1>1, <1>2

\* The clock starts at 0 with nothing sent.
LEMMA ClockInit == Init => ClockInv
<1>1. Init => TimelineIsContiguous
  BY DEF Init, TimelineIsContiguous, Contiguous, Numbers
<1> QED
  BY <1>1, TypeInit DEF Init, ClockInv

\* Every call keeps the clock of the video at the end of its track.
LEMMA ClockInductive == ClockInv /\ [Next]_vars => ClockInv'
<1> SUFFICES ASSUME ClockInv, [Next]_vars PROVE ClockInv'
  OBVIOUS
<1>1. TypeOK' /\ TimelineIsContiguous'
  BY TypeStep, TimelineStep DEF ClockInv
<1>2. CASE MuxMedia
  <2>1. PICK tag \in Tags : SendAudio(tag) \/ SendVideo(tag)
    BY <1>2, MediaStep DEF ClockInv
  <2>2. CASE SendAudio(tag)
    BY <1>1, <2>2 DEF SendAudio, ClockInv
  <2>3. CASE SendVideo(tag)
    <3> DEFINE segment == Segment(tag, Duration(tag), video_duration)
    <3>1. /\ sent_video \in Seq(Segments) /\ sent_video' = Append(sent_video, segment)
          /\ last_video_timestamp' = tag.timestamp_ms /\ settings' # None
      BY <2>3 DEF SendVideo, ClockInv, TypeOK
    <3>2. segment.timestamp_ms = tag.timestamp_ms
      BY SegmentFields
    <3> HIDE DEF segment
    <3>3. Len(sent_video') # 0 /\ sent_video'[Len(sent_video')] = segment
      BY <3>1
    <3>4. sent_video' # <<>>
      BY <3>3
    <3> QED
      BY <1>1, <3>1, <3>2, <3>3, <3>4 DEF ClockInv
  <2> QED
    BY <2>1, <2>2, <2>3
<1>3. CASE ~MuxMedia
  BY <1>1, <1>3, IdleStep DEF ClockInv, outputs
<1> QED
  BY <1>2, <1>3

\* A product distributes over a sum.
LEMMA Distribute == \A a, b, f \in Int : (a + b) * f = a * f + b * f
  OBVIOUS

\* A clock at `end` that is within `bound` of a source at `scaled`, counted from
\* `start`, is within bound + f after a step in which they differ by at most f.
LEMMA OneMore ==
  ASSUME NEW start \in Int, NEW end \in Int, NEW scaled \in Int, NEW bound \in Int,
         NEW d \in Int, NEW s \in Int, NEW f \in Int, d - s <= f, s - d <= f,
         NEW drift, drift = end - start - scaled, drift <= bound, -drift <= bound,
         NEW next_drift, next_drift = (end + d) - start - (scaled + s)
  PROVE  next_drift <= bound + f /\ -next_drift <= bound + f
  OBVIOUS

\* One frame: in a steady step the duration is within the frame rate, which is
\* one millisecond in ticks, of the scaled difference of the timestamps.
LEMMA DurationDrift ==
  ASSUME NEW tag \in Tags, settings.framerate \in Nat \ {0}, last_video_timestamp \in Nat,
         0 < last_video_timestamp, last_video_timestamp <= tag.timestamp_ms,
         (tag.timestamp_ms - last_video_timestamp) * settings.framerate <= U32Max
  PROVE  LET scaled == (tag.timestamp_ms - last_video_timestamp) * settings.framerate
         IN  /\ Duration(tag) - scaled <= settings.framerate
             /\ scaled - Duration(tag) <= settings.framerate
<1> DEFINE scaled == (tag.timestamp_ms - last_video_timestamp) * settings.framerate
<1>1. tag.timestamp_ms \in Nat
  BY TagFacts
<1>2. scaled \in Nat
  BY <1>1
<1>3. \/ /\ Duration(tag) = 1000
         /\ scaled - 1000 <= settings.framerate /\ 1000 - scaled <= settings.framerate
      \/ Duration(tag) = Saturate(scaled, 0, U32Max)
  BY <1>1 DEF Duration
<1> HIDE DEF scaled
<1>4. scaled <= U32Max => Saturate(scaled, 0, U32Max) = scaled
  BY <1>2, U32Assumption, SMTT(20), Z3T(20) DEF Saturate
<1> QED
  BY <1>2, <1>3, <1>4 DEF scaled

\* DriftBounded over any list of frames.
Scaled(sent, f, m, n) == (sent[n].timestamp_ms - sent[m].timestamp_ms) * f
Drift(sent, f, m, n) == End(sent[n]) - End(sent[m]) - Scaled(sent, f, m, n)

SteadyStep(sent, f, i) ==
  /\ 0 < sent[i - 1].timestamp_ms
  /\ sent[i - 1].timestamp_ms <= sent[i].timestamp_ms
  /\ Scaled(sent, f, i - 1, i) <= U32Max

DriftWithin(sent, f) ==
  \A m \in DOMAIN sent : \A n \in m .. Len(sent) :
    (\A i \in m + 1 .. n : SteadyStep(sent, f, i)) =>
      /\ Drift(sent, f, m, n) <= (n - m) * f
      /\ -Drift(sent, f, m, n) <= (n - m) * f

\* A frame whose duration is off by less than one keeps the drift of every
\* stretch within its bound.
LEMMA AppendDrift ==
  ASSUME NEW sent \in Seq(Segments), NEW f \in Nat, NEW segment \in Segments,
         DriftWithin(sent, f),
         sent # <<>> => segment.timestamp = End(sent[Len(sent)]),
         LET more == Append(sent, segment)
             scaled == Scaled(more, f, Len(sent), Len(sent) + 1)
         IN  sent # <<>> /\ SteadyStep(more, f, Len(sent) + 1) =>
               segment.duration - scaled <= f /\ scaled - segment.duration <= f
  PROVE  DriftWithin(Append(sent, segment), f)
<1> DEFINE more == Append(sent, segment)
           N == Len(sent)
<1>1. /\ Len(more) = N + 1 /\ DOMAIN more = 1 .. N + 1 /\ DOMAIN sent = 1 .. N /\ N \in Nat
      /\ more[N + 1] = segment /\ \A i \in 1 .. N : more[i] = sent[i]
  BY SMTT(20), Z3T(20)
<1>2. /\ \A i \in 1 .. N + 1 : /\ more[i].timestamp_ms \in Nat /\ more[i].timestamp \in Nat
                               /\ more[i].duration \in Nat /\ End(more[i]) \in Nat
      /\ \A i \in 1 .. N : sent[i].timestamp_ms \in Nat /\ End(sent[i]) \in Nat
  <2>1. \A s \in Segments : /\ s.timestamp_ms \in Nat /\ s.timestamp \in Nat
                            /\ s.duration \in Nat /\ End(s) \in Nat
    BY DEF Segments, End
  <2>2. \A i \in 1 .. N + 1 : more[i] \in Segments
    BY <1>1
  <2> QED
    BY <1>1, <2>1, <2>2, SMTT(20), Z3T(20)
<1> SUFFICES ASSUME NEW m \in 1 .. N + 1, NEW n \in m .. N + 1,
                    \A i \in m + 1 .. n : SteadyStep(more, f, i)
             PROVE  /\ Drift(more, f, m, n) <= (n - m) * f
                    /\ -Drift(more, f, m, n) <= (n - m) * f
  BY <1>1, SMTT(20) DEF DriftWithin
<1>3. \/ sent = <<>>
      \/ /\ segment.timestamp = End(sent[N])
         /\ LET scaled == Scaled(more, f, N, N + 1)
            IN  SteadyStep(more, f, N + 1) =>
                  segment.duration - scaled <= f /\ scaled - segment.duration <= f
  OBVIOUS
<1>4. sent # <<>> <=> N # 0
  OBVIOUS
<1> HIDE DEF more, N
<1>5. ASSUME NEW k \in 1 .. N, m <= k, k <= n
      PROVE  /\ Drift(more, f, m, k) <= (k - m) * f
             /\ -Drift(more, f, m, k) <= (k - m) * f
  <2>1. m \in DOMAIN sent /\ k \in m .. N
    BY <1>1, <1>5
  <2>2. ASSUME NEW i \in m + 1 .. k
        PROVE  SteadyStep(sent, f, i)
    <3>1. i \in m + 1 .. n /\ i \in 1 .. N /\ i - 1 \in 1 .. N
      BY <1>1, <1>5, <2>2
    <3>2. SteadyStep(more, f, i) /\ more[i] = sent[i] /\ more[i - 1] = sent[i - 1]
      BY <1>1, <3>1
    <3> QED
      BY <3>2, Zenon DEF SteadyStep, Scaled
  <2>3. more[m] = sent[m] /\ more[k] = sent[k]
    BY <1>1, <2>1
  <2>4. Drift(more, f, m, k) = Drift(sent, f, m, k)
    BY <2>3, Zenon DEF Drift, Scaled
  <2>5. /\ Drift(sent, f, m, k) <= (k - m) * f
        /\ -Drift(sent, f, m, k) <= (k - m) * f
    BY <2>1, <2>2 DEF DriftWithin, N
  <2> QED
    BY <2>4, <2>5
<1>6. CASE n <= N
  BY <1>1, <1>5, <1>6
<1>7. CASE m = N + 1
  <2>1. n = m
    BY <1>1, <1>7
  <2>2. 0 * f = 0 /\ \A x \in Int : x - x = 0
    OBVIOUS
  <2>3. more[m].timestamp_ms \in Int /\ End(more[m]) \in Int /\ m \in Int
    BY <1>1, <1>2
  <2>4. Drift(more, f, m, m) = 0 - 0
    BY <2>2, <2>3, SMTT(20) DEF Drift, Scaled
  <2> QED
    BY <2>1, <2>2, <2>3, <2>4
<1>8. CASE m <= N /\ n = N + 1
  <2>1. sent # <<>> /\ N \in 1 .. N /\ m \in 1 .. N /\ SteadyStep(more, f, N + 1)
    BY <1>1, <1>4, <1>8
  <2> DEFINE last == Scaled(more, f, N, N + 1)
             before == Scaled(more, f, m, N)
  <2>2. segment.duration - last <= f /\ last - segment.duration <= f
    BY <1>3, <2>1
  <2>3. End(more[N + 1]) = End(more[N]) + segment.duration
    BY <1>1, <1>3, <2>1 DEF End
  <2> DEFINE a == more[N].timestamp_ms - more[m].timestamp_ms
             b == more[N + 1].timestamp_ms - more[N].timestamp_ms
  <2>4. a \in Int /\ b \in Int /\ more[N + 1].timestamp_ms - more[m].timestamp_ms = a + b
    <3>1. /\ more[m].timestamp_ms \in Int /\ more[N].timestamp_ms \in Int
          /\ more[N + 1].timestamp_ms \in Int
      BY <1>1, <1>2, <2>1, SMTT(20), Z3T(20)
    <3>2. \A x, y, z \in Int : y - x \in Int /\ z - y \in Int /\ z - x = (y - x) + (z - y)
      OBVIOUS
    <3> QED
      BY <3>1, <3>2, Zenon
  <2>5. Scaled(more, f, m, N + 1) = before + last
    <3>1. (a + b) * f = a * f + b * f
      <4> HIDE DEF a, b
      <4> QED
        BY <2>4, Distribute
    <3>2. Scaled(more, f, m, N + 1) = (a + b) * f
      BY <2>4, Zenon DEF Scaled
    <3> QED
      BY <3>1, <3>2, Zenon DEF Scaled
  <2>6. before \in Int /\ last \in Int
    <3>1. before = a * f /\ last = b * f
      BY DEF Scaled
    <3> QED
      BY <2>4, <3>1
  <2> DEFINE product == (N - m) * f
  <2>7. n = N + 1 /\ (n - m) * f = product + f
    <3>1. N - m \in Int /\ n = N + 1 /\ n - m = (N - m) + 1 /\ 1 * f = f
      BY <1>1, <1>8, <2>1, SMTT(20), Z3T(20)
    <3> QED
      BY <3>1, Distribute
  <2>8. /\ segment.duration \in Int /\ product \in Int
        /\ End(more[N]) \in Int /\ End(more[m]) \in Int
    BY <1>1, <1>2, <2>1, SMTT(20), Z3T(20)
  <2>9. /\ Drift(more, f, m, N) <= product
        /\ -Drift(more, f, m, N) <= product
    BY <1>1, <1>5, <1>8, <2>1
  <2> HIDE DEF last, before, product, a, b
  <2>10. Drift(more, f, m, N) = End(more[N]) - End(more[m]) - before
    BY Zenon DEF Drift, before
  <2>11. Drift(more, f, m, N + 1) = (End(more[N]) + segment.duration) - End(more[m]) - (before + last)
    BY <2>3, <2>5, Zenon DEF Drift
  <2>12. /\ Drift(more, f, m, N + 1) <= product + f
         /\ -Drift(more, f, m, N + 1) <= product + f
    <3>1. f \in Int
      OBVIOUS
    <3> QED
      BY <2>2, <2>6, <2>8, <2>9, <2>10, <2>11, <3>1, OneMore, Zenon
  <2>13. Drift(more, f, m, n) = Drift(more, f, m, N + 1)
    BY <2>7
  <2> QED
    BY <2>7, <2>12, <2>13, Zenon
<1> QED
  BY <1>1, <1>6, <1>7, <1>8, SMTT(20), Z3T(20)

\* DriftBounded, with the track and the frame rate as parameters.
LEMMA DriftForms == DriftBounded <=> DriftWithin(sent_video, settings.framerate)
  BY DEF DriftBounded, DriftWithin, Steady, SteadyStep, Drift, Scaled

\* Every call keeps the drift within its bound.
LEMMA DriftStep ==
  ASSUME ClockInv, DriftBounded, [Next]_vars
  PROVE  DriftBounded'
<1>1. CASE NoFrame
  <2>1. CASE settings' = settings
    BY <1>1, <2>1 DEF NoFrame, DriftBounded, Steady
  <2>2. CASE sent_video = <<>>
    BY <1>1, <2>2, SMTT(20), Z3T(20) DEF NoFrame, DriftBounded
  <2> QED
    BY <1>1, <2>1, <2>2 DEF NoFrame
<1>2. ASSUME NEW tag \in Tags, Frame(tag)
      PROVE  DriftBounded'
  <2> DEFINE f == settings.framerate
             N == Len(sent_video)
  <2>1. PICK segment \in Segments :
          /\ segment.timestamp = video_duration /\ segment.duration = Duration(tag)
          /\ segment.timestamp_ms = tag.timestamp_ms
          /\ sent_video' = Append(sent_video, segment)
    BY <1>2 DEF Frame
  <2>2. /\ f \in Nat \ {0} /\ settings' = settings /\ sent_video \in Seq(Segments)
        /\ last_video_timestamp \in Nat
    BY <1>2 DEF Frame, ClockInv, TypeOK
  <2>3. DriftWithin(sent_video, f)
    BY DriftForms, SMTT(20), Z3T(20)
  <2>4. sent_video # <<>> => segment.timestamp = End(sent_video[N])
    BY <2>1 DEF ClockInv, TimelineIsContiguous, Contiguous
  <2> DEFINE more == Append(sent_video, segment)
  <2>5. ASSUME sent_video # <<>>, SteadyStep(more, f, N + 1)
        PROVE  LET scaled == Scaled(more, f, N, N + 1)
               IN  segment.duration - scaled <= f /\ scaled - segment.duration <= f
    <3>1. N \in Nat /\ N + 1 - 1 = N /\ more[N + 1] = segment /\ more[N] = sent_video[N]
      BY <2>2, <2>5
    <3>2. more[N].timestamp_ms = last_video_timestamp /\ more[N + 1].timestamp_ms = tag.timestamp_ms
      BY <2>1, <2>5, <3>1, Zenon DEF ClockInv
    <3>3. Scaled(more, f, N, N + 1) = (tag.timestamp_ms - last_video_timestamp) * f
      BY <3>2, Zenon DEF Scaled
    <3>4. /\ 0 < last_video_timestamp /\ last_video_timestamp <= tag.timestamp_ms
          /\ (tag.timestamp_ms - last_video_timestamp) * f <= U32Max
      <4>1. /\ 0 < more[N].timestamp_ms /\ more[N].timestamp_ms <= more[N + 1].timestamp_ms
            /\ Scaled(more, f, N, N + 1) <= U32Max
        <5> HIDE DEF more, N, f
        <5> QED
          BY <2>5, <3>1 DEF SteadyStep
      <4> QED
        BY <3>2, <3>3, <4>1, Zenon
    <3> QED
      BY <2>1, <2>2, <3>3, <3>4, DurationDrift
  <2>6. DriftWithin(more, f)
    BY <2>2, <2>3, <2>4, <2>5, AppendDrift
  <2>7. DriftWithin(sent_video', settings'.framerate)
    BY <2>1, <2>2, <2>6
  <2> QED
    BY <2>7 DEF DriftBounded, DriftWithin, Steady, SteadyStep, Drift, Scaled
<1> QED
  BY <1>1, <1>2, ClockStep

\* Rounding durations to the frame rate costs at most one millisecond a frame,
\* for every frame rate, traffic and width of a duration (mux).
THEOREM DriftCorrect == Spec => []DriftBounded
<1>1. Init => DriftBounded
  BY DEF Init, DriftBounded
<1> QED
  BY <1>1, ClockInit, ClockInductive, DriftStep, PTL DEF Spec

---------------------------------------------------------------------------
(* A constant frame rate.                                                  *)

\* GridIsExact over any list of frames, for every number the first may have.
GridAt(timestamp, f, at) ==
  0 <= 1000 * at - timestamp * f /\ 1000 * at - timestamp * f < f

AllOnGrid(sent, f, k) ==
  \A i \in DOMAIN sent : GridAt(sent[i].timestamp_ms, f, k + i - 1)

ExactGrid(sent, f, duration) ==
  \A k \in Nat : AllOnGrid(sent, f, k) => duration = 1000 * Len(sent)

GridInv == ExactGrid(sent_video, settings.framerate, video_duration)

\* Two frames that follow each other on the grid are 1000 ticks apart, give or
\* take less than a millisecond.
LEMMA GridDuration ==
  ASSUME NEW tag \in Tags, settings.framerate \in Nat \ {0}, last_video_timestamp \in Nat,
         NEW at \in Int,
         GridAt(last_video_timestamp, settings.framerate, at),
         GridAt(tag.timestamp_ms, settings.framerate, at + 1)
  PROVE  Duration(tag) = 1000
<1> DEFINE f == settings.framerate
           p == last_video_timestamp * f
           q == tag.timestamp_ms * f
           scaled == (tag.timestamp_ms - last_video_timestamp) * f
<1>1. tag.timestamp_ms \in Nat /\ -last_video_timestamp \in Int /\ f \in Int
  BY TagFacts
<1>2. p \in Int /\ q \in Int
  BY <1>1
<1>3. scaled = q - p
  <2>1. (tag.timestamp_ms + (-last_video_timestamp)) * f = q + (-last_video_timestamp) * f
    BY <1>1, Distribute
  <2> QED
    BY <1>1, <2>1
<1>4. scaled - 1000 <= f /\ 1000 - scaled <= f
  <2> HIDE DEF p, q, scaled
  <2>1. /\ 0 <= 1000 * at - p /\ 1000 * at - p < f
        /\ 0 <= 1000 * (at + 1) - q /\ 1000 * (at + 1) - q < f
    BY DEF p, q, GridAt
  <2> HIDE DEF f
  <2> QED
    BY <1>1, <1>2, <1>3, <2>1
<1> QED
  BY <1>4 DEF Duration

\* Every call keeps a track on the grid on it.
LEMMA GridStep ==
  ASSUME ClockInv, GridInv, [Next]_vars
  PROVE  GridInv'
<1>1. CASE NoFrame
  <2>1. CASE settings' = settings
    BY <1>1, <2>1 DEF NoFrame, GridInv
  <2>2. CASE sent_video = <<>>
    <3>1. AllOnGrid(sent_video, settings.framerate, 0)
      BY <2>2 DEF AllOnGrid
    <3>2. video_duration = 1000 * Len(sent_video)
      BY <3>1 DEF GridInv, ExactGrid
    <3> QED
      BY <1>1, <3>2 DEF NoFrame, GridInv, ExactGrid
  <2> QED
    BY <1>1, <2>1, <2>2 DEF NoFrame
<1>2. ASSUME NEW tag \in Tags, Frame(tag)
      PROVE  GridInv'
  <2> DEFINE f == settings.framerate
             N == Len(sent_video)
             more == sent_video'
  <2>1. PICK segment \in Segments :
          /\ segment.timestamp_ms = tag.timestamp_ms
          /\ sent_video' = Append(sent_video, segment)
    BY <1>2 DEF Frame
  <2>2. /\ f \in Nat \ {0} /\ settings' = settings /\ sent_video \in Seq(Segments)
        /\ last_video_timestamp \in Nat /\ video_duration \in Nat
        /\ video_duration' = video_duration + Duration(tag)
    BY <1>2 DEF Frame, ClockInv, TypeOK
  <2>3. /\ N \in Nat /\ Len(more) = N + 1 /\ DOMAIN more = 1 .. N + 1
        /\ DOMAIN sent_video = 1 .. N /\ more[N + 1] = segment
        /\ \A i \in 1 .. N : more[i] = sent_video[i]
    BY <2>1, <2>2
  <2> HIDE DEF more, N, f
  <2>4. SUFFICES ASSUME NEW k \in Nat, AllOnGrid(more, f, k)
                 PROVE  video_duration' = 1000 * (N + 1)
    <3>1. GridInv' = ExactGrid(more, f, video_duration')
      BY <2>2, ZenonT(40) DEF GridInv, more, f
    <3> QED
      BY <2>3, <3>1 DEF ExactGrid
  <2>5. \A i \in 1 .. N + 1 : GridAt(more[i].timestamp_ms, f, k + i - 1)
    BY <2>3, <2>4, Zenon DEF AllOnGrid
  <2>6. video_duration = 1000 * N
    <3>1. \A i \in 1 .. N : i \in 1 .. N + 1
      BY <2>3
    <3>2. AllOnGrid(sent_video, f, k)
      BY <2>3, <2>5, <3>1, Zenon DEF AllOnGrid
    <3> QED
      BY <3>2 DEF GridInv, ExactGrid, f, N
  <2>7. Duration(tag) = 1000
    <3>1. CASE N = 0
      BY <2>2, <3>1 DEF ClockInv, Duration, N
    <3>2. CASE N # 0
      <4>1. /\ N \in 1 .. N /\ N \in 1 .. N + 1 /\ N + 1 \in 1 .. N + 1
            /\ k + N - 1 \in Int /\ k + (N + 1) - 1 = (k + N - 1) + 1
        BY <2>3, <3>2
      <4>2. last_video_timestamp = sent_video[N].timestamp_ms
        BY <2>2, <3>2 DEF ClockInv, N
      <4>3. GridAt(last_video_timestamp, f, k + N - 1)
        <5>1. more[N] = sent_video[N]
          BY <2>3, <4>1
        <5> QED
          BY <2>5, <4>1, <4>2, <5>1, Zenon
      <4>4. GridAt(tag.timestamp_ms, f, (k + N - 1) + 1)
        <5>1. GridAt(more[N + 1].timestamp_ms, f, k + (N + 1) - 1)
          BY <2>5, <4>1, Zenon
        <5> QED
          BY <2>1, <2>3, <4>1, <5>1, Zenon
      <4>5. settings.framerate \in Nat \ {0} /\ last_video_timestamp \in Nat
        BY <2>2 DEF f
      <4>6. /\ GridAt(last_video_timestamp, settings.framerate, k + N - 1)
            /\ GridAt(tag.timestamp_ms, settings.framerate, (k + N - 1) + 1)
        BY <4>3, <4>4 DEF f
      <4>7. k + N - 1 \in Int
        BY <4>1
      <4> QED
        BY <4>5, <4>6, <4>7, GridDuration
    <3> QED
      BY <3>1, <3>2
  <2> QED
    BY <2>2, <2>3, <2>6, <2>7
<1> QED
  BY <1>1, <1>2, ClockStep

\* A track on the grid is exact.
LEMMA GridImplies == TypeOK /\ GridInv => GridIsExact
  BY DEF GridInv, ExactGrid, AllOnGrid, GridAt, GridIsExact, OnGrid, TypeOK

\* A source whose frames are on the grid of the frame rate of the settings gets
\* exactly 1000 ticks a frame, for every frame rate and first frame (mux).
THEOREM GridCorrect == Spec => []GridIsExact
<1>1. Init => GridInv
  BY DEF Init, GridInv, ExactGrid
<1>2. ClockInv => TypeOK
  BY DEF ClockInv
<1> QED
  BY <1>1, <1>2, ClockInit, ClockInductive, GridStep, GridImplies, PTL DEF Spec

\* The video clock follows the timestamps of the source, and exactly when they
\* are those of a constant frame rate, for every input (mux).
THEOREM ClockCorrect == Spec => []VideoClockIsTrue
  BY DriftCorrect, GridCorrect, PTL DEF VideoClockIsTrue

----------------------------------------------------------------------------
(* BitReader implements BitCursor.                                         *)

\* A reader in the middle of a byte has passed at least one, and is not past
\* the end.
ReaderInv ==
  /\ data \in Nat /\ bit_pos \in 0 .. 7 /\ current_byte \in 0 .. ByteCount
  /\ ~IsAligned => data \in 1 .. ByteCount

\* Rust's division by 8, and what rem_euclid makes of its remainder.
LEMMA Division ==
  ASSUME NEW n \in Int
  PROVE  /\ Quotient(n) \in Int /\ Remainder(n) \in -7 .. 7
         /\ n = 8 * Quotient(n) + Remainder(n)
         /\ Remainder(n) >= 0 => (8 + Remainder(n)) % 8 = Remainder(n)
         /\ Remainder(n) < 0 => (8 + Remainder(n)) % 8 = 8 + Remainder(n)
BY DEF Quotient, Remainder

\* Where a seek sends the cursor and the bit position is where it should go.
LEMMA SeekArithmetic ==
  ASSUME ReaderInv, NEW count \in Int
  PROVE  /\ ByteMove(count) \in Int /\ BitMove(count) \in 0 .. 7
         /\ (data + ByteMove(count)) * 8 + BitMove(count) = BitStreamPosition + count
<1> DEFINE q == Quotient(bit_pos + count)
           r == Remainder(bit_pos + count)
<1>1. bit_pos \in 0 .. 7 /\ data \in Nat /\ bit_pos + count \in Int
  BY DEF ReaderInv
<1>2. /\ q \in Int /\ r \in -7 .. 7 /\ bit_pos + count = 8 * q + r
      /\ r >= 0 => BitMove(count) = r
      /\ r < 0 => BitMove(count) = 8 + r
  BY <1>1, Division DEF BitMove
<1>3. ByteMove(count) = q - (IF IsAligned THEN 0 ELSE 1) - (IF r < 0 THEN 1 ELSE 0)
  BY DEF ByteMove
<1>4. BitStreamPosition = IF IsAligned THEN data * 8 ELSE (data - 1) * 8 + bit_pos
  BY <1>1 DEF BitStreamPosition
<1>5. IsAligned <=> bit_pos = 0
  BY DEF IsAligned
<1> HIDE DEF q, r
<1>6. QED
  BY <1>1, <1>2, <1>3, <1>4, <1>5

\* Taking a byte moves past it.
LEMMA UpdateByteInv ==
  ASSUME ReaderInv, NEW from \in Nat, UpdateByte(from)
  PROVE  data' \in 1 .. ByteCount /\ current_byte' \in 0 .. ByteCount
BY BytesAssumption DEF UpdateByte, ReaderInv

\* A seek by bits leaves the reader in a state it can be in.
LEMMA MovedInv ==
  ASSUME ReaderInv, NEW count \in Int, NEW unit \in Nat, Moved(count, unit)
  PROVE  ReaderInv'
<1>1. CASE data + ByteMove(count) < 0
  BY <1>1 DEF Moved, ReaderInv, IsAligned
<1>2. CASE data + ByteMove(count) >= 0 /\ BitMove(count) = 0
  BY <1>2, SeekArithmetic DEF Moved, ReaderInv, IsAligned
<1>3. CASE data + ByteMove(count) >= 0 /\ BitMove(count) # 0
  <2>1. data + ByteMove(count) \in Nat /\ UpdateByte(data + ByteMove(count))
    BY <1>3, SeekArithmetic DEF Moved, ReaderInv
  <2>2. QED
    BY <1>3, <2>1, UpdateByteInv, SeekArithmetic DEF Moved, ReaderInv, IsAligned
<1>4. QED
  BY <1>1, <1>2, <1>3, SeekArithmetic DEF ReaderInv

\* So does a seek to a byte.
LEMMA SeekAlignedInv ==
  ASSUME ReaderInv, NEW byte \in Int, SeekAligned(byte)
  PROVE  ReaderInv'
BY DEF SeekAligned, ReaderInv, IsAligned

\* So does every call.
LEMMA NextKeepsReaderInv == ReaderInv /\ [ReaderNext]_readerVars => ReaderInv'
<1> SUFFICES ASSUME ReaderInv, [ReaderNext]_readerVars PROVE ReaderInv'
  OBVIOUS
<1> USE BytesAssumption
<1>1. CASE ReadBit
  BY <1>1 DEF ReadBit, UpdateByte, ReaderInv, IsAligned
<1>2. CASE ReaderAlign
  BY <1>2 DEF ReaderAlign, ReaderInv, IsAligned
<1>3. ASSUME NEW count \in Counts, ReaderSeekBits(count) PROVE ReaderInv'
  <2>1. CASE count = 0
    BY <1>3, <2>1 DEF ReaderSeekBits, Told, ReaderInv, IsAligned
  <2>2. CASE count # 0
    BY <1>3, <2>2, MovedInv DEF ReaderSeekBits
  <2>3. QED
    BY <2>1, <2>2
<1>4. ASSUME NEW count \in Counts, SeekCurrent(count) PROVE ReaderInv'
  <2>1. CASE IsAligned
    <3>1. data + count \in Int
      BY DEF ReaderInv
    <3>2. QED
      BY <1>4, <2>1, <3>1, SeekAlignedInv DEF SeekCurrent
  <2>2. CASE ~IsAligned /\ count = 0
    BY <1>4, <2>2 DEF SeekCurrent, Told, ReaderInv, IsAligned
  <2>3. CASE ~IsAligned /\ count # 0
    <3>1. 8 * count \in Int /\ Moved(8 * count, 8)
      BY <1>4, <2>3 DEF SeekCurrent
    <3>2. QED
      BY <3>1, MovedInv
  <2>4. QED
    BY <2>1, <2>2, <2>3
<1>5. ASSUME NEW count \in Counts, SeekStart(count) PROVE ReaderInv'
  BY <1>5, SeekAlignedInv DEF SeekStart
<1>6. ASSUME NEW count \in Counts, SeekEnd(count) PROVE ReaderInv'
  <2>1. ByteCount + count \in Int
    OBVIOUS
  <2>2. QED
    BY <1>6, <2>1, SeekAlignedInv DEF SeekEnd
<1>7. CASE UNCHANGED readerVars
  BY <1>7 DEF readerVars, ReaderInv, IsAligned
<1>8. QED
  BY <1>1, <1>2, <1>3, <1>4, <1>5, <1>6, <1>7 DEF ReaderNext

---------------------------------------------------------------------------
(* Every step of the reader is one of the cursor *)

\* read_bit is the cursor's read, at the end and past a lost byte as well.
LEMMA ReadBitIsRead ==
  ASSUME ReaderInv, ReadBit
  PROVE  Cursor!Read \/ Cursor!ReadAtEnd \/ Cursor!ReadLost
<1> USE BytesAssumption DEF ReaderInv, BitStreamPosition, Stale, IsAligned
<1>1. CASE IsAligned /\ data < ByteCount
  BY <1>1 DEF ReadBit, UpdateByte, Cursor!Read, Cursor!End, Cursor!Bit
<1>2. CASE IsAligned /\ data >= ByteCount
  BY <1>2 DEF ReadBit, UpdateByte, Cursor!ReadAtEnd, Cursor!End, Cursor!Failed
<1>3. CASE ~IsAligned /\ current_byte = data
  BY <1>3 DEF ReadBit, Cursor!Read, Cursor!End, Cursor!Bit
<1>4. CASE ~IsAligned /\ current_byte # data
  <2>1. BitStreamPosition' = BitStreamPosition + 1 /\ Stale' = (BitStreamPosition' % 8 # 0)
    BY <1>4 DEF ReadBit
  <2>2. (current_byte - 1) * 8 + bit_pos \in -8 .. Cursor!End
    BY <1>4 DEF Cursor!End
  <2>3. Stale /\ told' = <<"bit", (current_byte - 1) * 8 + bit_pos>>
    BY <1>4 DEF ReadBit
  <2>4. QED
    BY <2>1, <2>2, <2>3 DEF Cursor!ReadLost, Cursor!Bit
<1>5. QED
  BY <1>1, <1>2, <1>3, <1>4

\* The rest of the byte is skipped by forgetting that it was begun.
LEMMA AlignedPosition ==
  ASSUME ReaderInv
  PROVE  Cursor!DivCeil(BitStreamPosition) = data
BY DEF ReaderInv, Cursor!DivCeil, BitStreamPosition, IsAligned

\* A seek by bits is the cursor's seek to where it should end.
LEMMA MovedIsSeekTo ==
  ASSUME ReaderInv, NEW count \in Int, NEW unit \in {1, 8}, Moved(count, unit)
  PROVE  Cursor!SeekTo(BitStreamPosition + count, (BitStreamPosition + count + unit - 1) \div unit)
<1> DEFINE at == data + ByteMove(count)
           bit == BitMove(count)
           n == BitStreamPosition + count
<1>1. at \in Int /\ bit \in 0 .. 7 /\ n = at * 8 + bit /\ n \in Int
  BY SeekArithmetic DEF ReaderInv
<1>2. /\ IF at < 0 THEN told' = <<"failed", 0>> /\ UNCHANGED <<data, bit_pos, current_byte>>
         ELSE /\ bit_pos' = bit
              /\ IF bit = 0 THEN data' = at /\ UNCHANGED current_byte ELSE UpdateByte(at)
              /\ told' = IF bit # 0 /\ at >= ByteCount THEN <<"failed", 0>>
                         ELSE <<"at", (at * 8 + bit + unit - 1) \div unit>>
  BY DEF Moved
<1> HIDE DEF at, bit, n
<1> USE BytesAssumption
<1>3. CASE at < 0
  BY <1>1, <1>2, <1>3 DEF Cursor!SeekTo, Cursor!Outside, Cursor!Failed, BitStreamPosition,
     Stale, IsAligned, n
<1>4. CASE at >= 0 /\ bit = 0
  <2>1. BitStreamPosition' = n /\ Stale' = FALSE
    BY <1>1, <1>2, <1>4 DEF BitStreamPosition, Stale, IsAligned
  <2>2. n >= 0 /\ n % 8 = 0
    BY <1>1, <1>4
  <2>3. QED
    BY <1>1, <1>2, <1>4, <2>1, <2>2
    DEF Cursor!SeekTo, Cursor!Lands, Cursor!Arrive, Cursor!At, n
<1>5. CASE at >= 0 /\ bit # 0 /\ at < ByteCount
  <2>1. BitStreamPosition' = n /\ Stale' = FALSE
    BY <1>1, <1>2, <1>5 DEF BitStreamPosition, Stale, IsAligned, UpdateByte
  <2>2. n >= 0 /\ n < ByteCount * 8
    BY <1>1, <1>5
  <2>3. QED
    BY <1>1, <1>2, <1>5, <2>1, <2>2
    DEF Cursor!SeekTo, Cursor!Lands, Cursor!Arrive, Cursor!At, Cursor!End, n
<1>6. CASE at >= 0 /\ bit # 0 /\ at >= ByteCount
  <2>1. BitStreamPosition' = ByteCount * 8 - 8 + bit /\ Stale' \in BOOLEAN
    BY <1>1, <1>2, <1>6 DEF BitStreamPosition, Stale, IsAligned, UpdateByte
  <2>2. n > ByteCount * 8 /\ n % 8 = bit
    BY <1>1, <1>6
  <2>3. told' = <<"failed", 0>>
    BY <1>1, <1>2, <1>6
  <2>4. QED
    BY <1>6, <2>1, <2>2, <2>3 DEF Cursor!SeekTo, Cursor!Astray, Cursor!End, Cursor!Failed, n
<1>7. QED
  BY <1>1, <1>3, <1>4, <1>5, <1>6

\* A seek to a byte is the cursor's.
LEMMA SeekAlignedIsSeekByte ==
  ASSUME ReaderInv, NEW byte \in Int, SeekAligned(byte)
  PROVE  Cursor!SeekByte(byte)
<1>1. BitStreamPosition' = data' * 8 /\ Stale' = FALSE
  BY DEF SeekAligned, BitStreamPosition, Stale, IsAligned, ReaderInv
<1>2. QED
  BY <1>1, AlignedPosition DEF SeekAligned, Cursor!SeekByte, Cursor!Arrive, Cursor!NoByte,
     Cursor!At, Cursor!Failed

\* Every call of the reader is a step of the cursor, or none.
LEMMA NextIsCursorNext ==
  ReaderInv /\ [ReaderNext]_readerVars => [Cursor!CursorNext]_Cursor!cursorVars
<1> SUFFICES ASSUME ReaderInv, [ReaderNext]_readerVars
             PROVE  [Cursor!CursorNext]_Cursor!cursorVars
  OBVIOUS
<1> USE BytesAssumption
<1>1. CASE ReadBit
  BY <1>1, ReadBitIsRead DEF Cursor!CursorNext
<1>2. CASE ReaderAlign
  <2>1. BitStreamPosition' = data * 8 /\ Stale' = FALSE /\ told' = told
    BY <1>2 DEF ReaderAlign, BitStreamPosition, Stale, IsAligned, ReaderInv
  <2>2. QED
    BY <2>1, AlignedPosition DEF Cursor!Align, Cursor!CursorNext
<1>3. ASSUME NEW count \in Counts, ReaderSeekBits(count) PROVE Cursor!SeekBits(count)
  <2>1. CASE count = 0
    BY <1>3, <2>1 DEF ReaderSeekBits, Told, Cursor!SeekBits, Cursor!Stay, Cursor!At,
       BitStreamPosition, Stale, IsAligned
  <2>2. CASE count # 0
    <3>1. BitStreamPosition + count \in Int
      BY DEF BitStreamPosition, ReaderInv
    <3>2. Cursor!SeekTo(BitStreamPosition + count, (BitStreamPosition + count + 1 - 1) \div 1)
      BY <1>3, <2>2, MovedIsSeekTo DEF ReaderSeekBits
    <3>3. (BitStreamPosition + count + 1 - 1) \div 1 = BitStreamPosition + count
      BY <3>1
    <3>4. QED
      BY <2>2, <3>2, <3>3, Zenon DEF Cursor!SeekBits
  <2>3. QED
    BY <2>1, <2>2
<1>4. ASSUME NEW count \in Counts, SeekCurrent(count) PROVE Cursor!SeekBytes(count)
  <2>1. CASE IsAligned
    <3>1. /\ BitStreamPosition = data * 8 /\ Stale = FALSE
          /\ BitStreamPosition' = data' * 8 /\ Stale' = FALSE
      BY <1>4, <2>1 DEF SeekCurrent, SeekAligned, BitStreamPosition, Stale, IsAligned, ReaderInv
    <3>2. /\ data + count \in Int /\ data * 8 + 8 * count = (data + count) * 8
          /\ ((data + count) * 8) % 8 = 0
          /\ Cursor!DivCeil((data + count) * 8) = data + count /\ Cursor!DivCeil(data * 8) = data
      BY DEF ReaderInv, Cursor!DivCeil
    <3>3. IF data + count < 0 THEN told' = <<"failed", 0>> /\ UNCHANGED data
          ELSE data' = data + count /\ told' = <<"at", data + count>>
      BY <1>4, <2>1 DEF SeekCurrent, SeekAligned
    <3>4. CASE data + count < 0
      <4>1. UNCHANGED <<BitStreamPosition, Stale>>
        BY <3>1, <3>3, <3>4, Zenon
      <4>2. count # 0 /\ BitStreamPosition + 8 * count < 0
        BY <3>1, <3>2, <3>4 DEF ReaderInv
      <4>3. told' = Cursor!Failed
        BY <3>3, <3>4 DEF Cursor!Failed
      <4>4. QED
        BY <4>1, <4>2, <4>3, Zenon DEF Cursor!SeekBytes, Cursor!SeekTo, Cursor!Outside
    <3>5. CASE data + count >= 0 /\ count # 0
      BY <3>1, <3>2, <3>3, <3>5 DEF Cursor!SeekBytes, Cursor!SeekTo, Cursor!Lands,
         Cursor!Arrive, Cursor!At
    <3>6. CASE count = 0
      <4>1. ~(data + count < 0) /\ data + count = data
        BY <3>6 DEF ReaderInv
      <4>2. UNCHANGED <<BitStreamPosition, Stale>>
        BY <3>1, <3>3, <4>1, Zenon
      <4>3. told' = Cursor!At(Cursor!DivCeil(BitStreamPosition))
        BY <3>1, <3>2, <3>3, <4>1, Zenon DEF Cursor!At
      <4>4. QED
        BY <3>6, <4>2, <4>3, Zenon DEF Cursor!SeekBytes, Cursor!StayBytes
    <3>7. QED
      BY <3>2, <3>4, <3>5, <3>6
  <2>2. CASE ~IsAligned /\ count = 0
    BY <1>4, <2>2 DEF SeekCurrent, Told, Cursor!SeekBytes, Cursor!StayBytes, Cursor!At,
       Cursor!DivCeil, BitStreamPosition, Stale, IsAligned
  <2>3. CASE ~IsAligned /\ count # 0
    <3>1. BitStreamPosition + 8 * count \in Int /\ 8 * count \in Int
      BY DEF BitStreamPosition, ReaderInv
    <3>2. Cursor!SeekTo(BitStreamPosition + 8 * count,
                        (BitStreamPosition + 8 * count + 8 - 1) \div 8)
      BY <1>4, <2>3, <3>1, MovedIsSeekTo DEF SeekCurrent
    <3>3. (BitStreamPosition + 8 * count + 8 - 1) \div 8
            = Cursor!DivCeil(BitStreamPosition + 8 * count)
      BY <3>1 DEF Cursor!DivCeil
    <3>4. QED
      BY <2>3, <3>2, <3>3, Zenon DEF Cursor!SeekBytes
  <2>4. QED
    BY <2>1, <2>2, <2>3
<1>5. ASSUME NEW count \in Counts, SeekStart(count) PROVE Cursor!SeekByte(count)
  BY <1>5, SeekAlignedIsSeekByte DEF SeekStart
<1>6. ASSUME NEW count \in Counts, SeekEnd(count) PROVE Cursor!SeekByte(ByteCount + count)
  <2>1. ByteCount + count \in Int
    OBVIOUS
  <2>2. QED
    BY <1>6, <2>1, SeekAlignedIsSeekByte DEF SeekEnd
<1>7. CASE UNCHANGED readerVars
  BY <1>7 DEF readerVars, Cursor!cursorVars, BitStreamPosition, Stale, IsAligned
<1>8. QED
  BY <1>1, <1>2, <1>3, <1>4, <1>5, <1>6, <1>7 DEF ReaderNext, Cursor!CursorNext

\* A BitReader reads the bits of its data in order from where it was sent, for
\* data of any length and seeks of any distance: it implements BitCursor
\* (bytes-util/src/bit_read.rs).
THEOREM ReaderImplementsCursor == ReaderSpec => ReaderIsCursor
<1>1. ReaderInit => ReaderInv
  BY BytesAssumption DEF ReaderInit, ReaderInv, IsAligned
<1>2. ReaderInit => Cursor!CursorInit
  BY DEF ReaderInit, Cursor!CursorInit, Cursor!At, BitStreamPosition, Stale, IsAligned
<1>3. QED
  BY <1>1, <1>2, NextKeepsReaderInv, NextIsCursorNext, PTL
  DEF ReaderSpec, ReaderIsCursor, Cursor!CursorSpec

============================================================================
