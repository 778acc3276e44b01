---------------------------- MODULE CodecStrings ----------------------------
(***************************************************************************)
(* The codecs strings of the transmuxer's settings (mp4/src/codec.rs):     *)
(* what is displayed of a codec and what is parsed.  A string is its first *)
(* part and the texts between the dots after it.  A character is a number: *)
(* 0 to 15 are digits, in small letters from 10 on, 26 to 31 are the       *)
(* capitals A to F, which are digits too, and then come H, L and M.        *)
(***************************************************************************)
EXTENDS SequenceHeaders

Digits(v, radix, width) ==
  LET n == Max({width} \cup {k \in 1 .. 7 : v >= radix ^ (k - 1)})
  IN  [i \in 1 .. n |-> (v \div radix ^ (n - i)) % radix]
Hex(v) == Digits(v, 16, 1)
Hex2(v) == Digits(v, 16, 2)
Dec(v) == Digits(v, 10, 1)
Dec2(v) == Digits(v, 10, 2)

\* from_str_radix, parse: no element, or the number.
Parsed(text, radix, type) ==
  LET digits == [i \in DOMAIN text |-> IF text[i] < 16 THEN text[i] ELSE text[i] - 16]
      v == FoldLeft(LAMBDA high, d : radix * high + d, 0, digits)
  IN  {n \in {v} : text # <<>> /\ (\A i \in DOMAIN text : digits[i] < radix) /\ n \in type}
Byte == 0 .. 255
Word == 0 .. 65535

Tier == [H |-> 40, L |-> 41, M |-> 42]
TierText(tier, low) == <<IF tier = 1 THEN Tier.H ELSE Tier[low]>>
Tiers(text, low) == {tier \in 0 .. 1 : text = TierText(tier, low)}
Binary(text) == {b \in 0 .. 1 : text = <<b>>}
SpaceText(space) == IF space \in 1 .. 3 THEN <<25 + space>> ELSE <<>>

---------------------------------------------------------------------------
(* VideoCodec and AudioCodec *)

AvcCodec(profile, constraint_set, level) ==
  [codec |-> "avc1", profile |-> profile, constraint_set |-> constraint_set, level |-> level]
HevcCodec(space, compatibility, profile, level, tier, constraint) ==
  [codec |-> "hev1", general_profile_space |-> space, profile_compatibility |-> compatibility,
   profile |-> profile, level |-> level, tier |-> tier, constraint_indicator |-> constraint]
Av1Codec(profile, level, tier, depth, mono, x, y, primaries, transfer, matrix, full) ==
  [codec |-> "av01", profile |-> profile, level |-> level, tier |-> tier, depth |-> depth,
   monochrome |-> mono, sub_sampling_x |-> x, sub_sampling_y |-> y, color_primaries |-> primaries,
   transfer_characteristics |-> transfer, matrix_coefficients |-> matrix, full_range_flag |-> full]
AacCodec(object_type) == [codec |-> "mp4a", object_type |-> object_type]
OpusCodec == [codec |-> "opus"]

Display(c) ==
  CASE c.codec = "avc1" -> <<Hex2(c.profile) \o Hex2(c.constraint_set) \o Hex2(c.level)>>
    [] c.codec = "hev1" ->
         <<SpaceText(c.general_profile_space) \o Hex(c.profile), Hex(c.profile_compatibility),
           TierText(c.tier, "L") \o Hex(c.level), Hex(c.constraint_indicator)>>
    [] c.codec = "av01" ->
         <<Dec(c.profile), Dec(c.level) \o TierText(c.tier, "M"), Dec2(c.depth), <<c.monochrome>>,
           <<c.sub_sampling_x, c.sub_sampling_y, c.monochrome>>, Dec2(c.color_primaries),
           Dec2(c.transfer_characteristics), Dec2(c.matrix_coefficients), <<c.full_range_flag>>>>
    [] c.codec = "mp4a" -> <<Dec(40), Dec(c.object_type)>>
    [] c.codec = "opus" -> <<>>

\* No element for an error.  A hev1 string of exactly five texts is indexed
\* past its end, by the code as here.
VideoFromStr(name, text) ==
  CASE name = "avc1" /\ Len(text) >= 1 ->
         LET Pair(i) == Parsed(SubSeq(text[1], i, i + 1), 16, Byte)
         IN  {AvcCodec(p, c, l) : p \in Pair(1), c \in Pair(3), l \in Pair(5)}
    [] name = "hev1" /\ Len(text) >= 5 ->
         {HevcCodec(space, compatibility, p, l, tier, constraint) :
            space \in {s \in 1 .. 3 : text[1] = SpaceText(s)}, p \in Parsed(text[2], 16, Byte),
            compatibility \in Parsed(text[3], 16, Nat), tier \in Tiers(text[4], "L"),
            l \in Parsed(text[5], 16, Byte), constraint \in Parsed(text[6], 16, Nat)}
    [] name = "av01" /\ Len(text) >= 11 ->
         {Av1Codec(p, l, tier, depth, mono, x, y, primaries, transfer, matrix, IF full = 1 THEN 1 ELSE 0) :
            p \in Parsed(text[1], 16, Byte), l \in Parsed(text[2], 16, Byte), tier \in Tiers(text[3], "M"),
            depth \in Parsed(text[4], 10, Byte), mono \in Binary(text[5]), x \in Binary(text[6]),
            y \in Binary(text[7]), primaries \in Parsed(text[8], 10, Byte),
            transfer \in Parsed(text[9], 10, Byte), matrix \in Parsed(text[10], 10, Byte),
            full \in Parsed(text[11], 10, Byte)}
    [] OTHER -> {}

AudioFromStr(name, text) ==
  CASE name = "mp4a" /\ Len(text) >= 2 -> {AacCodec(t) : t \in Parsed(text[2], 10, Word)}
    [] name = "opus" -> {OpusCodec}
    [] OTHER -> {}

---------------------------------------------------------------------------
(* The codec of the headers that were read *)

OneOf(v, n) == IF n \in DOMAIN v THEN v[n][1] ELSE 0
LastOf(v, n) == Last(v[n])

\* codec() of the sample entries
Avc1Codec(v) ==
  AvcCodec(OneOf(v, "profile_indication"), OneOf(v, "profile_compatibility"), OneOf(v, "level_indication"))
Hev1Codec(v) ==
  HevcCodec(OneOf(v, "general_profile_space"), OneOf(v, "general_profile_compatibility_flags"),
            OneOf(v, "general_profile_idc"), OneOf(v, "general_level_idc"),
            OneOf(v, "general_tier_flag"), OneOf(v, "general_constraint_indicator_flags"))
Av01Codec(v) ==
  Av1Codec(OneOf(v, "seq_profile"), OneOf(v, "seq_level_idx"), OneOf(v, "seq_tier"),
           LastOf(v, "bit_depth"), OneOf(v, "mono_chrome"), OneOf(v, "subsampling_x"),
           OneOf(v, "subsampling_y"), OneOf(v, "color_primaries"),
           OneOf(v, "transfer_characteristics"), OneOf(v, "matrix_coefficients"),
           OneOf(v, "full_color_range"))
ObjectType(v) ==
  IF OneOf(v, "audio_object_type") = 31 THEN 32 + OneOf(v, "extended_object_type")
  ELSE OneOf(v, "audio_object_type")
AudioCodec(v) == AacCodec(ObjectType(v))

VideoCodec(format, v) ==
  CASE format = "avc_config" -> Avc1Codec(v)
    [] format = "hevc_config" -> Hev1Codec(v)
    [] format = "sequence_header" -> Av01Codec(v)
============================================================================
