-------------------------- MODULE SequenceHeaders --------------------------
(***************************************************************************)
(* The sequence headers that the code reads: Sps::parse of crates/h264 and *)
(* h265, ObuHeader::parse and SequenceHeaderObu::parse of crates/av1.      *)
(***************************************************************************)
EXTENDS Headers

Unspecified ==
  <<Set("color_primaries", 2), Set("transfer_characteristics", 2), Set("matrix_coefficients", 2)>>
ColorDescription ==
  <<U("color_primaries", 8), U("transfer_characteristics", 8), U("matrix_coefficients", 8)>>

\* A description, or the values that stand for none.
Colors(flag) ==
  <<U(flag, 1), If(flag, {1}, ColorDescription), If(flag, {0}, Unspecified)>>

---------------------------------------------------------------------------
(* H.264 *)

HighProfiles == {100, 110, 122, 244, 44, 83, 86, 118, 128, 138, 139, 134, 135}

ScalingList(size) == Flag("list_present", <<Scaling(size)>>)

SpsExtendedParse ==
  <<Ue("chroma_format_idc"), If("chroma_format_idc", {3}, <<U("", 1)>>),
    Ue("bit_depth_luma_minus8"), Ue("bit_depth_chroma_minus8"), U("", 1)>>
  \o Flag("scaling_matrix", <<Times("", 6, ScalingList(16)), Times("", 2, ScalingList(64)),
                              If("chroma_format_idc", {3}, <<Times("", 4, ScalingList(64))>>)>>)

\* frame_rate is time_scale / (2 * num_units_in_tick).
Vui264Parse ==
  Flag("aspect_ratio", <<U("aspect_ratio_idc", 8),
                         If("aspect_ratio_idc", {255}, <<Skip(16), Skip(16)>>)>>)
  \o Flag("overscan_info", <<Skip(1)>>)
  \o Flag("video_signal_type", <<Skip(3), U("full_range", 1)>> \o Colors("colour_description"))
  \o Flag("chroma_loc_info", <<Ue(""), Ue("")>>)
  \o Flag("timing_info", <<U("num_units_in_tick", 32), U("time_scale", 32),
                           Never("num_units_in_tick", {0})>>)

Sps264Parse ==
  <<Expect(1, {0}), Skip(2), Expect(5, {7}), U("profile_idc", 8), Skip(8), U("level_idc", 8),
    Ue(""), If("profile_idc", HighProfiles, SpsExtendedParse),
    Ue(""), Ue("pic_order_cnt_type"), If("pic_order_cnt_type", {0}, <<Ue("")>>),
    If("pic_order_cnt_type", {1},
       <<Skip(1), Se(""), Se(""), Ue("num_ref_frames"), Times("num_ref_frames", 0, <<Se("")>>)>>),
    Ue(""), U("", 1), Ue("width"), Ue("height"), U("frame_mbs_only_flag", 1),
    If("frame_mbs_only_flag", {0}, <<Skip(1)>>), Skip(1)>>
  \o Flag("cropping", <<Ue("crop_left"), Ue("crop_right"), Ue("crop_top"), Ue("crop_bottom")>>)
  \o Flag("vui", Vui264Parse)

Crop(v, n) == IF n \in DOMAIN v THEN v[n][1] ELSE 0

Sps264Size(v) ==
  <<(v["width"][1] + 1) * 16 - Crop(v, "crop_right") * 2 - Crop(v, "crop_left") * 2,
    (2 - v["frame_mbs_only_flag"][1]) * (v["height"][1] + 1) * 16
      - Crop(v, "crop_bottom") * 2 - Crop(v, "crop_top") * 2>>

---------------------------------------------------------------------------
(* H.265 *)

ProfileTierLevelParse ==
  <<Skip(2 + 1 + 5 + 32 + 1 + 1 + 1 + 1 + 43 + 1 + 8),
    Times("max_sub_layers_minus1", 0, <<Skip(1), U("level_present", 1)>>)>>
  \o [k \in 1 .. 7 |-> If("max_sub_layers_minus1", {k}, <<Skip(2 * (8 - k))>>)]
  \o <<Times("max_sub_layers_minus1", 0,
             <<Set("layer", 0), Skip(2 + 1 + 5 + 32 + 1 + 1 + 1 + 1 + 43 + 1),
               IfAt("level_present", "layer", {1}, <<Skip(8)>>)>>)>>

Coefficients(n) == <<Times("", n, <<Se("")>>)>>
Matrix(dc, n) == <<U("pred_mode_flag", 1), If("pred_mode_flag", {0}, <<Ue("")>>),
                   If("pred_mode_flag", {1}, dc \o Coefficients(n))>>

ScalingListDataParse ==
  <<Times("", 6, Matrix(<<>>, 16)), Times("", 6, Matrix(<<>>, 64)),
    Times("", 6, Matrix(<<Se("")>>, 64)), Times("", 2, Matrix(<<Se("")>>, 64))>>

\* The pictures of a set that is given in full.
RefPicSet ==
  <<Ue("num_negative_pics"), Ue("num_positive_pics"),
    Sum("num_delta_pocs", <<"num_negative_pics", "num_positive_pics">>),
    Times("num_negative_pics", 0, <<Ue(""), Skip(1)>>),
    Times("num_positive_pics", 0, <<Ue(""), Skip(1)>>)>>

\* One that is predicted from the set before it.
PredictedSetParse ==
  <<Skip(1), Ue(""), Set("zero", 0), Sum("of_reference", <<"num_delta_pocs", "zero">>),
    Set("num_delta_pocs", 0),
    Times("of_reference", 0,
          <<U("used_by_curr_pic", 1),
            If("used_by_curr_pic", {1}, <<Bump("num_delta_pocs")>>),
            If("used_by_curr_pic", {0}, Flag("use_delta", <<Bump("num_delta_pocs")>>))>>)>>

ShortTermParse ==
  <<Ue("num_short_term_sets"), If("num_short_term_sets", 1 .. 64, RefPicSet),
    Times("num_short_term_sets", -1,
          <<U("inter_prediction", 1), If("inter_prediction", {1}, PredictedSetParse),
            If("inter_prediction", {0}, RefPicSet)>>)>>

\* frame_rate is time_scale / num_units_in_tick.
Vui265Parse ==
  Flag("aspect_ratio", <<U("aspect_ratio_idc", 8),
                         If("aspect_ratio_idc", {255}, <<Skip(16), Skip(16)>>)>>)
  \o Flag("overscan_info", <<Skip(1)>>)
  \o Flag("video_signal_type", <<Skip(3), U("full_range", 1)>> \o Colors("colour_description"))
  \o Flag("chroma_loc_info", <<Ue(""), Ue("")>>)
  \o <<Skip(1), Skip(1), Skip(1)>>
  \o Flag("default_display_window", <<Ue(""), Ue(""), Ue(""), Ue("")>>)
  \o Flag("timing_info", <<U("num_units_in_tick", 32), U("time_scale", 32),
                           Never("num_units_in_tick", {0})>>)

Sps265Parse ==
  <<Expect(1, {0}), Expect(6, {33}), Skip(6 + 3 + 4), U("max_sub_layers_minus1", 3), Skip(1)>>
  \o ProfileTierLevelParse
  \o <<Ue(""), Ue("chroma_format_idc"), If("chroma_format_idc", {3}, <<U("", 1)>>),
       Ue("width"), Ue("height")>>
  \o Flag("conformance_window",
          <<Ue("crop_left"), Ue("crop_right"), Ue("crop_top"), Ue("crop_bottom")>>)
  \o <<Must("chroma_format_idc", 0 .. 3), Ue(""), Ue(""), Ue("")>>
  \o Flag("ordering_info",
          <<Times("max_sub_layers_minus1", 1, <<Ue(""), Ue(""), Ue("")>>)>>)
  \o <<Ue(""), Ue(""), Ue(""), Ue(""), Ue(""), Ue("")>>
  \o Flag("scaling_list_enabled", Flag("scaling_list_data", ScalingListDataParse))
  \o <<Skip(1), Skip(1)>>
  \o Flag("pcm_enabled", <<Skip(4), Skip(4), Ue(""), Ue(""), Skip(1)>>)
  \o ShortTermParse
  \o Flag("long_term", <<Ue("num_long_term"), Times("num_long_term", 0, <<Ue(""), Skip(1)>>)>>)
  \o <<Skip(1), Skip(1)>>
  \o Flag("vui", Vui265Parse)

SubWidthC(chroma) == IF chroma \in {1, 2} THEN 2 ELSE 1
SubHeightC(chroma) == IF chroma = 1 THEN 2 ELSE 1

Sps265Size(v) ==
  LET chroma == v["chroma_format_idc"][1]
  IN  <<v["width"][1] - SubWidthC(chroma) * (Crop(v, "crop_left") + Crop(v, "crop_right")),
        v["height"][1] - SubHeightC(chroma) * (Crop(v, "crop_top") + Crop(v, "crop_bottom"))>>

---------------------------------------------------------------------------
(* AV1 *)

ObuHeaderParse ==
  <<Expect(1, {0}), U("obu_type", 4), U("extension_flag", 1), U("has_size_field", 1), U("", 1),
    If("extension_flag", {1}, <<U("temporal_id", 3), U("spatial_id", 2), U("", 3)>>),
    If("has_size_field", {1}, <<Leb128("obu_size")>>)>>

TimingInfoParse ==
  <<U("num_units_in_display_tick", 32), U("time_scale", 32)>>
  \o Flag("equal_picture_interval", <<Uvlc("num_ticks_per_picture_minus_1")>>)

DecoderModelInfoParse ==
  <<U("buffer_delay_length_minus_1", 5), U("num_units_in_decoding_tick", 32),
    U("buffer_removal_time_length_minus_1", 5), U("frame_presentation_time_length_minus_1", 5)>>

OperatingParametersParse ==
  <<V("decoder_buffer_delay", "buffer_delay_length_minus_1", 1),
    V("encoder_buffer_delay", "buffer_delay_length_minus_1", 1), U("low_delay_mode_flag", 1)>>

OperatingPointParse ==
  <<U("idc", 12), U("seq_level_idx", 5), If("seq_level_idx", 8 .. 31, <<U("seq_tier", 1)>>),
    If("seq_level_idx", 0 .. 7, <<Set("seq_tier", 0)>>),
    If("decoder_model_info", {1}, Flag("decoder_model_for_op", OperatingParametersParse)),
    If("display_delay", {1}, Flag("display_delay_for_op", <<U("initial_display_delay_minus_1", 4)>>))>>

Subsampling(x, y) == <<Set("subsampling_x", x), Set("subsampling_y", y)>>

ColorRangeParse ==
  <<Set("srgb", 0),
    If("color_primaries", {1}, <<If("transfer_characteristics", {13},
       <<If("matrix_coefficients", {0}, <<Set("srgb", 1)>>)>>)>>),
    If("srgb", {1}, <<Set("full_color_range", 1)>> \o Subsampling(0, 0)),
    If("srgb", {0},
       <<U("full_color_range", 1), If("seq_profile", {0}, Subsampling(1, 1)),
         If("seq_profile", {1}, Subsampling(0, 0)),
         If("seq_profile", 2 .. 7,
            <<If("bit_depth", {12},
                 <<U("subsampling_x", 1), If("subsampling_x", {1}, <<U("subsampling_y", 1)>>),
                   If("subsampling_x", {0}, <<Set("subsampling_y", 0)>>)>>),
              If("bit_depth", {8, 10}, Subsampling(1, 0))>>)>>)>>

BitDepthParse ==
  <<U("high_bitdepth", 1), If("high_bitdepth", {0}, <<Set("bit_depth", 8)>>),
    If("high_bitdepth", {1},
       <<Set("bit_depth", 10),
         If("seq_profile", {2}, Flag("twelve_bit", <<Set("bit_depth", 12)>>))>>)>>

ColorConfigParse ==
  BitDepthParse
  \o <<If("seq_profile", {1}, <<Set("mono_chrome", 0)>>),
       If("seq_profile", 0 .. 7 \ {1}, <<U("mono_chrome", 1)>>)>>
  \o Colors("color_description")
  \o <<If("mono_chrome", {1}, <<U("full_color_range", 1)>> \o Subsampling(1, 1)),
       If("mono_chrome", {0},
          ColorRangeParse
          \o <<If("subsampling_x", {1},
                  <<If("subsampling_y", {1}, <<U("chroma_sample_position", 2)>>)>>),
               U("separate_uv_delta_q", 1)>>)>>

\* What only a header that is not reduced has, before and after the frame size.
FullHeaderParse ==
  <<U("timing_info", 1), Set("decoder_model_info", 0),
    If("timing_info", {1}, TimingInfoParse \o Flag("decoder_model_info", DecoderModelInfoParse)),
    U("display_delay", 1), U("operating_points_cnt_minus_1", 5),
    Times("operating_points_cnt_minus_1", 1, OperatingPointParse)>>

ToolsParse ==
  <<U("enable_interintra_compound", 1), U("enable_masked_compound", 1),
    U("enable_warped_motion", 1), U("enable_dual_filter", 1)>>
  \o Flag("enable_order_hint", <<U("enable_jnt_comp", 1), U("enable_ref_frame_mvs", 1)>>)
  \o <<U("choose_screen_content_tools", 1),
       If("choose_screen_content_tools", {1}, <<Set("force_screen_content_tools", 2)>>),
       If("choose_screen_content_tools", {0}, <<U("force_screen_content_tools", 1)>>),
       Set("choose_integer_mv", 1),
       If("force_screen_content_tools", {1, 2}, <<U("choose_integer_mv", 1)>>),
       If("choose_integer_mv", {1}, <<Set("force_integer_mv", 2)>>),
       If("choose_integer_mv", {0}, <<U("force_integer_mv", 1)>>),
       If("enable_order_hint", {1}, <<U("order_hint_bits_minus_1", 3)>>)>>

SequenceHeaderParse ==
  <<U("seq_profile", 3), U("still_picture", 1), U("reduced", 1),
    If("still_picture", {0}, <<Must("reduced", {0})>>),
    If("reduced", {1}, <<U("seq_level_idx", 5)>>), If("reduced", {0}, FullHeaderParse),
    U("frame_width_bits_minus_1", 4), U("frame_height_bits_minus_1", 4),
    V("max_frame_width_minus_1", "frame_width_bits_minus_1", 1),
    V("max_frame_height_minus_1", "frame_height_bits_minus_1", 1),
    If("reduced", {0},
       Flag("frame_ids", <<U("delta_frame_id_length_minus_2", 4),
                           U("additional_frame_id_length_minus_1", 3)>>)),
    U("use_128x128_superblock", 1), U("enable_filter_intra", 1), U("enable_intra_edge_filter", 1),
    If("reduced", {0}, ToolsParse),
    U("enable_superres", 1), U("enable_cdef", 1), U("enable_restoration", 1)>>
  \o ColorConfigParse \o <<U("film_grain_params_present", 1)>>
============================================================================
