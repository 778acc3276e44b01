------------------------------ MODULE Headers ------------------------------
(***************************************************************************)
(* The headers of the codecs: decoder configuration records, which the     *)
(* code writes and reads, and sequence headers, which encoders write as    *)
(* the standards have them and the code only reads.  What the code reads   *)
(* and does not return has no name.                                        *)
(***************************************************************************)
EXTENDS BitSyntax

\* A count and as many elements, and a length and as many bytes.  write_bits
\* refuses a count that it has no room for; the lengths, and the counts of the
\* HEVC record, are cast to their width, and what they count is written whole.
Several(n, w, steps) == <<U(n, w), Times(n, 0, steps)>>
Counted(n, w, steps) == <<Wrapped(n, w), Times(n, 0, steps)>>
Block(len, n) == <<Wrapped(len, 16), Bytes(n, len)>>

---------------------------------------------------------------------------
(* AVCDecoderConfigurationRecord *)

NoExtension == {66, 77, 88}

AvcConfigMux ==
  <<U("configuration_version", 8), U("profile_indication", 8), U("profile_compatibility", 8),
    U("level_indication", 8), Lit(6, 63), U("length_size_minus_one", 2), Lit(3, 7)>>
  \o Several("sps_len", 5, Block("sps_length", "sps"))
  \o Several("pps_len", 8, Block("pps_length", "pps"))
  \o <<Let("extended_config"),
       If("extended_config", {1},
          <<Lit(6, 63), U("chroma_format", 2), Lit(5, 31), U("bit_depth_luma_minus8", 3),
            Lit(5, 31), U("bit_depth_chroma_minus8", 3)>>
          \o Several("ext_len", 8, Block("sps_ext_length", "sps_ext")))>>

AvcConfigDemux ==
  <<U("configuration_version", 8), U("profile_indication", 8), U("profile_compatibility", 8),
    U("level_indication", 8), Skip(6), U("length_size_minus_one", 2), Skip(3)>>
  \o Several("sps_len", 5, Block("sps_length", "sps"))
  \o Several("pps_len", 8, Block("pps_length", "pps"))
  \o <<If("profile_indication", NoExtension, <<Set("extended_config", 0)>>),
       If("profile_indication", 0 .. 255 \ NoExtension,
          <<More("extended_config"),
            If("extended_config", {1},
               <<Skip(6), U("chroma_format", 2), Skip(5), U("bit_depth_luma_minus8", 3),
                 Skip(5), U("bit_depth_chroma_minus8", 3)>>
               \o Several("ext_len", 8, Block("sps_ext_length", "sps_ext")))>>)>>

Sizes(values, n, each) ==
  IF n \in DOMAIN values THEN FoldFunction(LAMBDA len, sum : sum + each + len, 0, values[n]) ELSE 0

AvcConfigSize(v) ==
  1 + 1 + 1 + 1 + 1 + 1 + Sizes(v, "sps_length", 2) + 1 + Sizes(v, "pps_length", 2)
  + (IF v["extended_config"] = <<1>> THEN 1 + 1 + 1 + 1 + Sizes(v, "sps_ext_length", 2) ELSE 0)

---------------------------------------------------------------------------
(* HEVCDecoderConfigurationRecord *)

HevcConfigMux ==
  <<U("configuration_version", 8), U("general_profile_space", 2), U("general_tier_flag", 1),
    U("general_profile_idc", 5), U("general_profile_compatibility_flags", 32),
    U("general_constraint_indicator_flags", 48), U("general_level_idc", 8),
    Lit(4, 15), U("min_spatial_segmentation_idc", 12), Lit(6, 63), U("parallelism_type", 2),
    Lit(6, 63), U("chroma_format_idc", 2), Lit(5, 31), U("bit_depth_luma_minus8", 3),
    Lit(5, 31), U("bit_depth_chroma_minus8", 3), U("avg_frame_rate", 16),
    U("constant_frame_rate", 2), U("num_temporal_layers", 3), U("temporal_id_nested", 1),
    U("length_size_minus_one", 2)>>
  \o Counted("num_of_arrays", 8,
       <<U("array_completeness", 1), Lit(1, 0), U("nal_unit_type", 6)>>
       \o Counted("num_nalus", 16, Block("nal_unit_length", "nalu")))

HevcConfigDemux ==
  <<U("configuration_version", 8), U("general_profile_space", 2), U("general_tier_flag", 1),
    U("general_profile_idc", 5), U("general_profile_compatibility_flags", 32),
    U("general_constraint_indicator_flags", 48), U("general_level_idc", 8),
    Skip(4), U("min_spatial_segmentation_idc", 12), Skip(6), U("parallelism_type", 2),
    Skip(6), U("chroma_format_idc", 2), Skip(5), U("bit_depth_luma_minus8", 3),
    Skip(5), U("bit_depth_chroma_minus8", 3), U("avg_frame_rate", 16),
    U("constant_frame_rate", 2), U("num_temporal_layers", 3), U("temporal_id_nested", 1),
    U("length_size_minus_one", 2)>>
  \o Counted("num_of_arrays", 8,
       <<U("array_completeness", 1), Skip(1), U("nal_unit_type", 6)>>
       \o Counted("num_nalus", 16, Block("nal_unit_length", "nalu")))

HevcConfigSize(v) ==
  1 + 1 + 4 + 6 + 1 + 2 + 1 + 1 + 1 + 1 + 2 + 1 + 1
  + Sizes([v EXCEPT !["num_of_arrays"] = [i \in 1 .. v["num_of_arrays"][1] |-> 0]],
          "num_of_arrays", 1 + 2)
  + Sizes(v, "nal_unit_length", 2)

---------------------------------------------------------------------------
(* AV1CodecConfigurationRecord, and the descriptor around it *)

Av1Record ==
  <<U("seq_profile", 3), U("seq_level_idx_0", 5), U("seq_tier_0", 1), U("high_bitdepth", 1),
    U("twelve_bit", 1), U("monochrome", 1), U("chroma_subsampling_x", 1),
    U("chroma_subsampling_y", 1), U("chroma_sample_position", 2)>>

\* The three reserved bits are 0, although two of them are the hdr_wcg_idc.
Av1ConfigMux ==
  <<Lit(1, 1), Lit(7, 1)>> \o Av1Record
  \o <<Let("hdr_wcg_idc"), Lit(2, 0), Lit(1, 0), U("delay_present", 1),
       If("delay_present", {1}, <<U("initial_presentation_delay_minus_one", 4)>>),
       If("delay_present", {0}, <<Lit(4, 0)>>), Remaining("config_obu")>>

Av1ConfigDemux ==
  <<Expect(1, {1}), Expect(7, {1})>> \o Av1Record
  \o <<U("hdr_wcg_idc", 2), Skip(1), U("delay_present", 1),
       If("delay_present", {1}, <<U("initial_presentation_delay_minus_one", 4)>>),
       If("delay_present", {0}, <<Skip(4)>>), Remaining("config_obu")>>

Av1ConfigSize(v) == 1 + 1 + 1 + 1 + v["config_obu"][1]

Av1DescriptorDemux == <<Expect(8, {128}), Expect(8, {4})>> \o Av1ConfigDemux
Av1DescriptorMux == <<U("tag", 8), U("descriptor_length", 8)>> \o Av1ConfigMux

---------------------------------------------------------------------------
(* PartialAudioSpecificConfig *)

SampleFrequency ==
  <<96000, 88200, 64000, 48000, 44100, 32000, 24000, 22050, 16000, 12000, 11025, 8000, 7350>>

Frequency == [i \in 1 .. 13 |-> If("index", {i - 1}, <<Set("sampling_frequency", SampleFrequency[i])>>)]

AacConfigParse ==
  <<U("audio_object_type", 5), If("audio_object_type", {31}, <<U("extended_object_type", 6)>>),
    U("index", 4), If("index", {15}, <<U("sampling_frequency", 24)>>)>> \o Frequency
  \o <<Must("index", 0 .. 15 \ {13, 14}), U("channel_configuration", 4)>>

StandardAacConfig ==
  <<U("audio_object_type", 5), If("audio_object_type", {31}, <<U("extended_object_type", 6)>>),
    U("index", 4)>> \o Frequency
  \o <<If("index", {15}, <<U("sampling_frequency", 24)>>), U("channel_configuration", 4)>>
============================================================================
