----------------------------- MODULE Standards -----------------------------
(***************************************************************************)
(* The sequence headers as the standards have them (ISO/IEC 14496-10 and   *)
(* 23008-2, the AV1 specification), against which the code's parsers are   *)
(* checked.  They are a reference, not a translation: fields that the code *)
(* does not return have no name, or one of Unread.                         *)
(***************************************************************************)
EXTENDS CodecStrings, Amf0

Ues(n) == [i \in 1 .. n |-> Ue("")]
Bits(n) == [i \in 1 .. n |-> U("", 1)]
Trailing == <<Lit(1, 1)>>

StandardColors ==
  Flag("video_signal_type", <<U("", 3), U("full_range", 1)>> \o Colors("colour_description"))
StandardAspect ==
  Flag("aspect_ratio", <<U("aspect_ratio_idc", 8),
                         If("aspect_ratio_idc", {255}, <<U("", 16), U("", 16)>>)>>)
  \o Flag("overscan_info", Bits(1))
StandardCrop == <<Ue("crop_left"), Ue("crop_right"), Ue("crop_top"), Ue("crop_bottom")>>

---------------------------------------------------------------------------
(* H.264: 7.3.2.1.1 and E.1.1 *)

StandardExtension264 ==
  <<Ue("chroma_format_idc"), If("chroma_format_idc", {3}, Bits(1)),
    Ue("bit_depth_luma_minus8"), Ue("bit_depth_chroma_minus8")>> \o Bits(1)
  \o Flag("scaling_matrix", <<Times("", 6, ScalingList(16)), Times("", 2, ScalingList(64)),
                              If("chroma_format_idc", {3}, <<Times("", 4, ScalingList(64))>>)>>)

StandardSps264 ==
  <<Lit(1, 0), U("", 2), Lit(5, 7), U("profile_idc", 8)>> \o Bits(6)
  \o <<U("", 2), U("level_idc", 8), Ue(""), If("profile_idc", HighProfiles, StandardExtension264),
       Ue(""), Ue("pic_order_cnt_type"), If("pic_order_cnt_type", {0}, Ues(1)),
       If("pic_order_cnt_type", {1},
          Bits(1) \o <<Se(""), Se(""), Ue("num_ref_frames"),
                       Times("num_ref_frames", 0, <<Se("")>>)>>),
       Ue(""), U("", 1), Ue("width"), Ue("height"), U("frame_mbs_only_flag", 1),
       If("frame_mbs_only_flag", {0}, Bits(1)), U("", 1)>>
  \o Flag("cropping", StandardCrop)
  \o Flag("vui", StandardAspect \o StandardColors \o Flag("chroma_loc_info", Ues(2))
                 \o Flag("timing_info", <<U("num_units_in_tick", 32), U("time_scale", 32)>> \o Bits(1))
                 \o Bits(4))
  \o Trailing

\* Cropping is in units of chroma samples, and of fields when there are any.
FieldCount(v) == 2 - v["frame_mbs_only_flag"][1]
CropUnit264(v) ==
  LET chroma == IF "chroma_format_idc" \in DOMAIN v THEN v["chroma_format_idc"][1] ELSE 1
  IN  <<SubWidthC(chroma), FieldCount(v) * SubHeightC(chroma)>>
StandardSize264(v) ==
  <<(v["width"][1] + 1) * 16 - CropUnit264(v)[1] * (Crop(v, "crop_left") + Crop(v, "crop_right")),
    FieldCount(v) * (v["height"][1] + 1) * 16
      - CropUnit264(v)[2] * (Crop(v, "crop_top") + Crop(v, "crop_bottom"))>>

---------------------------------------------------------------------------
(* H.265: 7.3.2.2, 7.3.3, 7.3.4, 7.3.7 and E.2.1 *)

StandardSize265(v) ==
  LET unit == <<<<1, 1>>, <<2, 2>>, <<2, 1>>, <<1, 1>>>>[v["chroma_format_idc"][1] + 1]
  IN  <<v["width"][1] - unit[1] * Crop(v, "crop_left") - unit[1] * Crop(v, "crop_right"),
        v["height"][1] - unit[2] * Crop(v, "crop_top") - unit[2] * Crop(v, "crop_bottom")>>

StandardProfile == <<U("", 2), U("", 1), U("", 5), U("", 32)>> \o Bits(4) \o <<U("", 43), U("", 1)>>

StandardLevels ==
  StandardProfile
  \o <<U("", 8),
       Times("max_sub_layers_minus1", 0, <<U("profile_present", 1), U("level_present", 1)>>)>>
  \o [k \in 1 .. 7 |-> If("max_sub_layers_minus1", {k}, Bits(2 * (8 - k)))]
  \o <<Times("max_sub_layers_minus1", 0,
             <<Set("layer", 0), IfAt("profile_present", "layer", {1}, StandardProfile),
               IfAt("level_present", "layer", {1}, <<U("", 8)>>)>>)>>

StandardRefPics ==
  <<Ue("num_negative_pics"), Ue("num_positive_pics"),
    Sum("num_delta_pocs", <<"num_negative_pics", "num_positive_pics">>),
    Times("num_negative_pics", 0, <<Ue(""), U("", 1)>>),
    Times("num_positive_pics", 0, <<Ue(""), U("", 1)>>)>>

StandardPredicted ==
  <<U("", 1), Ue(""), Set("zero", 0), Sum("of_reference", <<"num_delta_pocs", "zero">>),
    Set("num_delta_pocs", 0),
    Times("of_reference", 1,
          <<U("used_by_curr_pic", 1), If("used_by_curr_pic", {1}, <<Bump("num_delta_pocs")>>),
            If("used_by_curr_pic", {0}, Flag("use_delta", <<Bump("num_delta_pocs")>>))>>)>>

StandardSps265 ==
  <<Lit(1, 0), Lit(6, 33), U("", 6), U("", 3), U("", 4), U("max_sub_layers_minus1", 3), U("", 1)>>
  \o StandardLevels
  \o <<Ue(""), Ue("chroma_format_idc"), If("chroma_format_idc", {3}, Bits(1)),
       Ue("width"), Ue("height")>>
  \o Flag("conformance_window", StandardCrop)
  \o Ues(2) \o <<Ue("log2_max_poc_lsb_minus4")>>
  \o Flag("ordering_info", <<Times("max_sub_layers_minus1", 0, Ues(3))>>) \o Ues(3)
  \o Ues(6)
  \o Flag("scaling_list_enabled", Flag("scaling_list_data",
       <<Times("", 6, Matrix(<<>>, 16)), Times("", 6, Matrix(<<>>, 64)),
         Times("", 8, Matrix(<<Se("")>>, 64))>>))
  \o Bits(2)
  \o Flag("pcm_enabled", <<U("", 4), U("", 4), Ue(""), Ue(""), U("", 1)>>)
  \o <<Ue("num_short_term_sets"), If("num_short_term_sets", 1 .. 64, StandardRefPics),
       Times("num_short_term_sets", -1,
             <<U("inter_prediction", 1), If("inter_prediction", {1}, StandardPredicted),
               If("inter_prediction", {0}, StandardRefPics)>>)>>
  \o Flag("long_term", <<Ue("num_long_term"),
                         Times("num_long_term", 0, <<V("", "log2_max_poc_lsb_minus4", 4), U("", 1)>>)>>)
  \o Bits(2)
  \o Flag("vui", StandardAspect \o StandardColors \o Flag("chroma_loc_info", Ues(2)) \o Bits(3)
                 \o Flag("default_display_window", Ues(4))
                 \o Flag("timing_info", <<U("num_units_in_tick", 32), U("time_scale", 32)>> \o Bits(2))
                 \o Bits(1))
  \o Bits(1) \o Trailing

---------------------------------------------------------------------------
(* AV1: 5.3.2, 5.5.1 to 5.5.5 *)

StandardObuHeader ==
  <<Lit(1, 0), U("obu_type", 4), U("extension_flag", 1), U("has_size_field", 1), U("", 1),
    If("extension_flag", {1}, <<U("temporal_id", 3), U("spatial_id", 2), U("", 3)>>),
    If("has_size_field", {1}, <<Leb128("obu_size")>>)>>

StandardOperatingPoint ==
  <<U("idc", 12), U("seq_level_idx", 5), If("seq_level_idx", 0 .. 7, <<Set("seq_tier", 0)>>),
    If("seq_level_idx", 8 .. 31, <<U("seq_tier", 1)>>),
    If("decoder_model_info", {1},
       Flag("decoder_model_for_op",
            <<V("decoder_buffer_delay", "buffer_delay_length_minus_1", 1),
              V("encoder_buffer_delay", "buffer_delay_length_minus_1", 1),
              U("low_delay_mode_flag", 1)>>)),
    If("display_delay", {1}, Flag("display_delay_for_op", <<U("initial_display_delay_minus_1", 4)>>))>>

StandardTiming ==
  <<U("num_units_in_display_tick", 32), U("time_scale", 32), U("equal_picture_interval", 1),
    If("equal_picture_interval", {1}, <<Uvlc("num_ticks_per_picture_minus_1")>>),
    U("decoder_model_info", 1),
    If("decoder_model_info", {1},
       <<U("buffer_delay_length_minus_1", 5), U("num_units_in_decoding_tick", 32),
         U("buffer_removal_time_length_minus_1", 5),
         U("frame_presentation_time_length_minus_1", 5)>>)>>

StandardColorRange ==
  <<Set("identity", 0),
    If("matrix_coefficients", {0}, <<If("transfer_characteristics", {13},
       <<If("color_primaries", {1}, <<Set("identity", 1)>>)>>)>>),
    If("identity", {1}, <<Set("full_color_range", 1), Set("subsampling_x", 0), Set("subsampling_y", 0)>>),
    If("identity", {0},
       <<U("full_color_range", 1),
         If("seq_profile", {0}, <<Set("subsampling_x", 1), Set("subsampling_y", 1)>>),
         If("seq_profile", {1}, <<Set("subsampling_x", 0), Set("subsampling_y", 0)>>),
         If("seq_profile", {2},
            <<If("bit_depth", {8, 10}, <<Set("subsampling_x", 1), Set("subsampling_y", 0)>>),
              If("bit_depth", {12},
                 <<U("subsampling_x", 1), If("subsampling_x", {0}, <<Set("subsampling_y", 0)>>),
                   If("subsampling_x", {1}, <<U("subsampling_y", 1)>>)>>)>>)>>)>>

StandardColorConfig ==
  <<U("high_bitdepth", 1), If("high_bitdepth", {0}, <<Set("bit_depth", 8)>>),
    If("high_bitdepth", {1},
       <<Set("bit_depth", 10), If("seq_profile", {2}, Flag("twelve_bit", <<Set("bit_depth", 12)>>))>>),
    If("seq_profile", {1}, <<Set("mono_chrome", 0)>>),
    If("seq_profile", {0, 2}, <<U("mono_chrome", 1)>>)>>
  \o Colors("color_description")
  \o <<If("mono_chrome", {1}, <<U("full_color_range", 1)>> \o Subsampling(1, 1)),
       If("mono_chrome", {0},
          StandardColorRange
          \o <<If("subsampling_x", {1},
                  <<If("subsampling_y", {1}, <<U("chroma_sample_position", 2)>>)>>),
               U("separate_uv_delta_q", 1)>>)>>

StandardTools ==
  [i \in 1 .. 4 |-> U(<<"enable_interintra_compound", "enable_masked_compound",
                       "enable_warped_motion", "enable_dual_filter">>[i], 1)]
  \o Flag("enable_order_hint", <<U("enable_jnt_comp", 1), U("enable_ref_frame_mvs", 1)>>)
  \o <<U("choose_screen_content_tools", 1),
       If("choose_screen_content_tools", {1}, <<Set("force_screen_content_tools", 2)>>),
       If("choose_screen_content_tools", {0}, <<U("force_screen_content_tools", 1)>>),
       Set("choose_integer_mv", 1),
       If("force_screen_content_tools", {1, 2}, <<U("choose_integer_mv", 1)>>),
       If("choose_integer_mv", {0}, <<U("force_integer_mv", 1)>>),
       If("choose_integer_mv", {1}, <<Set("force_integer_mv", 2)>>),
       If("enable_order_hint", {1}, <<U("order_hint_bits_minus_1", 3)>>)>>

StandardSequenceHeader ==
  <<U("seq_profile", 3), U("still_picture", 1), U("reduced", 1),
    If("reduced", {1}, <<U("seq_level_idx", 5)>>),
    If("reduced", {0},
       <<U("timing_info", 1), Set("decoder_model_info", 0),
         If("timing_info", {1}, StandardTiming), U("display_delay", 1),
         U("operating_points_cnt_minus_1", 5),
         Times("operating_points_cnt_minus_1", 1, StandardOperatingPoint)>>),
    U("frame_width_bits_minus_1", 4), U("frame_height_bits_minus_1", 4),
    V("max_frame_width_minus_1", "frame_width_bits_minus_1", 1),
    V("max_frame_height_minus_1", "frame_height_bits_minus_1", 1),
    If("reduced", {0}, Flag("frame_ids", <<U("delta_frame_id_length_minus_2", 4),
                                           U("additional_frame_id_length_minus_1", 3)>>)),
    U("use_128x128_superblock", 1), U("enable_filter_intra", 1), U("enable_intra_edge_filter", 1),
    If("reduced", {0}, StandardTools),
    U("enable_superres", 1), U("enable_cdef", 1), U("enable_restoration", 1)>>
  \o StandardColorConfig \o <<U("film_grain_params_present", 1)>> \o Trailing

---------------------------------------------------------------------------

(* AMF0 as another implementation may write it: also long strings, arrays  *)
(* with or without the mark at their end, and values that have no reader.  *)

PeerArms ==
  EncodeArms
  @@ (6 :> <<Lit(8, 6)>>)
  @@ (8 :> <<Lit(8, 8), U("count", 32), Times("count", 0, EncodeKey \o <<Call("peer_value")>>),
             Let("open"), If("open", {0}, <<Lit(24, ObjectEnd)>>)>>)
  @@ (12 :> <<Lit(8, 12), U("long_length", 32), Slice("string", "long_length")>>)
PeerValue == <<Let("marker"), Match("marker", (3 :> <<Lit(8, 3), Call("peer_properties")>>) @@ PeerArms)>>
PeerProperties ==
  <<Let("property"),
    Match("property", (0 :> <<Lit(24, ObjectEnd)>>)
                      @@ (1 :> EncodeKey \o <<Call("peer_value"), Call("peer_properties")>>))>>
PeerAll == <<Let("again"), If("again", {1}, <<Call("peer_value"), Call("peer")>>)>>

---------------------------------------------------------------------------

Format(write, read, escaped) == [write |-> write, read |-> read, escaped |-> escaped]
HeaderFormats ==
  [avc_config |-> Format(AvcConfigMux, AvcConfigDemux, FALSE),
   hevc_config |-> Format(HevcConfigMux, HevcConfigDemux, FALSE),
   av1_config |-> Format(Av1ConfigMux, Av1ConfigDemux, FALSE),
   av1_descriptor |-> Format(Av1DescriptorMux, Av1DescriptorDemux, FALSE),
   aac |-> Format(StandardAacConfig, AacConfigParse, FALSE),
   sps264 |-> Format(StandardSps264, Sps264Parse, TRUE),
   sps265 |-> Format(StandardSps265, Sps265Parse, TRUE),
   obu |-> Format(StandardObuHeader, ObuHeaderParse, FALSE),
   sequence_header |-> Format(StandardSequenceHeader, SequenceHeaderParse, FALSE),
   amf_value |-> Format(Encode0, Decode0, FALSE),
   amf_properties |-> Format(EncodeProperties, ReadProperties, FALSE),
   amf0 |-> Format(EncodeAll, DecodeAll, FALSE),
   peer_value |-> Format(PeerValue, <<>>, FALSE),
   peer_properties |-> Format(PeerProperties, <<>>, FALSE),
   peer |-> Format(PeerAll, DecodeAll, FALSE),
   script |-> Format(<<Call("peer_value"), Call("peer")>>, ScriptDemux, FALSE)]

---------------------------------------------------------------------------
(* Properties *)

Records == {"avc_config", "hevc_config", "av1_config", "amf0"}
Over == {"done", "short", "refused", "panicked", "torn"}

Has(n, in) == n \in DOMAIN written /\ Last(written[n]) \in in
\* Some value of a name, of all the ones it was given, is among these.
Some(values, n, in) == n \in DOMAIN values /\ \E i \in DOMAIN values[n] : values[n][i] \in in
Holds(n, in) == Some(header.values, n, in)
Exceeds(values, n, w) == n \in DOMAIN values /\ \E i \in DOMAIN values[n] : values[n][i] >= 2 ^ w
Amf == {"amf0", "peer", "script"}

\* A length or a count that was cast, and is not what was written after it.
CastOverflows ==
  \/ \E n \in {"sps_length", "pps_length", "sps_ext_length", "nal_unit_length", "num_nalus", "key_length"} :
       Exceeds(written, n, 16)
  \/ Exceeds(written, "num_of_arrays", 8)

\* A count or a length that write_bits or encode_string has refused.
Unfit ==
  \/ Exceeds(header.values, "sps_len", 5) \/ Exceeds(header.values, "length", 16)
  \/ \E n \in {"pps_len", "ext_len"} : Exceeds(header.values, n, 8)

\* An array without an end mark that was read with one: it is the mark of what
\* the array is in, or a number whose first bytes are 00 09.
TakesMark ==
  /\ "open" \in DOMAIN written \cap DOMAIN env
  /\ \E i \in DOMAIN written["open"] \cap DOMAIN env["open"] :
        written["open"][i] = 1 /\ env["open"][i] = 0
MarkMayFollow ==
  Some(written, "property", {1}) \/ Some(written, "open", {0}) \/ Some(written, "number_high", {ObjectEnd})

\* Headers that the code reads otherwise than they were written.  Of H.265:
\* a sub-layer without a profile, which is skipped over all the same; the
\* ordering of one layer, which is not read; long-term pictures, of which a
\* fixed-length field is read as Exp-Golomb; and a predicted set, of which the
\* last picture is not read.
Deviates ==
  CASE header.format = "avc_config" ->
         CastOverflows \/ (Has("extended_config", {1}) /\ Has("profile_indication", NoExtension))
    [] header.format = "hevc_config" -> CastOverflows
    [] header.format \in {"av1_config", "av1_descriptor"} -> Has("hdr_wcg_idc", 1 .. 3)
    [] header.format = "sps265" ->
         \/ Some(written, "profile_present", {0}) \/ Has("ordering_info", {0})
         \/ Has("num_long_term", 1 .. 32) \/ Some(written, "inter_prediction", {1})
    [] header.format \in Amf -> CastOverflows \/ TakesMark
    [] OTHER -> FALSE

\* Frames of H.264 that are cropped in units other than 2 by 2.
OtherUnits ==
  header.format = "sps264" /\ Has("cropping", {1}) /\ CropUnit264(written) # <<2, 2>>

\* Headers that the code refuses.
Refusable ==
  CASE header.format = "aac" -> Has("index", {13, 14})
    [] header.format = "av1_descriptor" -> ~Has("tag", {128}) \/ ~Has("descriptor_length", {4})
    [] header.format = "sequence_header" -> Has("reduced", {1}) /\ Has("still_picture", {0})
    [] header.format \in {"sps264", "sps265"} ->
         Has("num_units_in_tick", {0}) \/ (header.format = "sps265" /\ Has("chroma_format_idc", {4}))
    [] header.format = "amf0" -> Holds("marker", {ObjectEnd, 12})
    [] header.format = "peer" -> Holds("marker", {6}) \/ Holds("string", {NotUtf8}) \/ Holds("key", {NotUtf8})
    [] header.format = "script" -> header.values["marker"][1] # 2 \/ Holds("marker", {6})
    [] OTHER -> FALSE

\* Names that only steer the writer.
Unread == {"profile_present", "log2_max_poc_lsb_minus4", "identity", "tag", "descriptor_length"}

\* The fields that were read have the values that were written.
Agree == /\ DOMAIN written \ Unread \subseteq DOMAIN env
         /\ \A n \in DOMAIN env \cap DOMAIN written : env[n] = written[n]
\* Of data that was cut short, what is there.
AgreeSoFar == \A n \in (DOMAIN env \cap DOMAIN written) \ {"again"} : IsPrefix(env[n], written[n])

RecordSize(values) ==
  CASE header.format = "avc_config" -> AvcConfigSize(values)
    [] header.format = "hevc_config" -> HevcConfigSize(values)
    [] header.format = "av1_config" -> Av1ConfigSize(values)

FrameSizeAgrees ==
  /\ header.format = "sps264" => Sps264Size(env) = StandardSize264(written)
  /\ header.format = "sps265" => Sps265Size(env) = StandardSize265(written)

RecordsRoundTrip ==
  header.format \in Records =>
    /\ phase = "write" /\ todo = <<>> /\ header.format # "amf0" => bits = 8 * RecordSize(env)
    /\ phase = "too_large" => Unfit
    /\ phase \in Over =>
         /\ Refusable => phase = "refused"
         /\ (phase = "done" /\ env = written) <=> ~Refusable /\ ~Deviates

StandardsAreRead ==
  header.format \notin Records /\ phase \in Over =>
    /\ ~Deviates =>
         /\ phase = "done" => ~Refusable /\ (FrameSizeAgrees <=> ~OtherUnits)
                             /\ IF header.tail < 0 THEN AgreeSoFar ELSE Agree
         /\ phase = "short" => header.tail < IF Formats[header.format].escaped THEN 3 ELSE 0
         /\ phase = "panicked" => header.tail < 0
         /\ phase = "refused" => Refusable
         /\ phase # "torn"
    /\ Deviates => ~(phase = "done" /\ Agree)
    /\ TakesMark => MarkMayFollow

CodecStringsAgree ==
  phase = "done" /\ header.tail >= 0 =>
    /\ header.format \in {"avc_config", "hevc_config", "sequence_header"} =>
         LET codec == VideoCodec(header.format, env)
         IN  VideoFromStr(codec.codec, Display(codec)) = IF codec.codec = "avc1" THEN {codec} ELSE {}
    /\ header.format = "aac" =>
         \A codec \in {AudioCodec(env), OpusCodec} : AudioFromStr(codec.codec, Display(codec)) = {codec}

\* A decoder configuration record (avcC, hvcC, av1C) that the code writes is as
\* long as its size() says, from which the enclosing boxes take their lengths.
\* It is read back as it was written, and AMF0 values are, however objects are
\* nested and whatever their keys and values look like, unless, and exactly
\* when not: a length or count was cast and did not fit (a parameter set, NAL
\* unit or key of 2^16 bytes, 2^16 NAL units or 2^8 arrays of them), an avcC
\* has the extension and a profile that is read without, or an av1C an
\* hdr_wcg_idc; what has no encoding is refused.
\* A sequence header or audio config of the standard is read field by field as
\* it was written, however many optional parts, nested loops and
\* variable-length fields it has, to the same frame size unless an H.264 frame
\* is cropped in units other than 2 by 2: the parsers never lose their place
\* in it, refuse only what they mean to refuse, and find it too short only
\* where the loop that takes out emulation prevention bytes has dropped the
\* last bytes of a NAL unit that had none to spare.  The four forms of the
\* H.265 header that Deviates lists are never read as they were written.
\* The same holds for AMF0 data of other writers, with arrays and long strings,
\* unless an array without an end mark is followed by the mark of what it is
\* in, or by a number that begins like one; of data that was cut short a prefix
\* is decoded, or an error given, or a string read past the end.
\* The codecs string that is displayed for what was read is parsed back to the
\* same codec, for avc1, mp4a and opus; a hev1 or av01 string, which the parser
\* expects in another form, is refused and never read as some other codec.
HeadersAgree == RecordsRoundTrip /\ StandardsAreRead /\ CodecStringsAgree
============================================================================
