----------------------------- MODULE MCHeaders -----------------------------
(***************************************************************************)
(* Headers for TLC: each optional part present and absent, loops of no,    *)
(* one and several turns, and the values at which widths and branches      *)
(* change.                                                                 *)
(* A name that is not given is 0.                                          *)
(***************************************************************************)
EXTENDS Standards

Input(format, tails, values) == {[format |-> format, values |-> v, tail |-> tail] : v \in values, tail \in tails}
Only(v) == <<v>>
Same(n, v) == [i \in 1 .. n |-> v]

\* Values of some flags, given by the set of those that are 1.
Flags1(names, on) == [n \in names |-> Only(IF n \in on THEN 1 ELSE 0)]
Switches(names) == {Flags1(names, on) : on \in SUBSET names}

Lengths == {<<>>, <<0>>, <<3, 0>>}
Long == {<<65535>>, <<65536>>, <<1, 65537>>, <<65537, 1>>}
Blocks1(n, len, lengths) == (n :> Only(Len(lengths))) @@ (len :> lengths)

AvcInputs ==
  Input("avc_config", {0},
    {Blocks1("sps_len", "sps_length", sps) @@ Blocks1("pps_len", "pps_length", pps)
       @@ Blocks1("ext_len", "sps_ext_length", ext)
       @@ [profile_indication |-> Only(profile), extended_config |-> Only(extended),
           length_size_minus_one |-> Only(3), chroma_format |-> Only(extended)] :
       sps \in Lengths, pps \in Lengths, ext \in Lengths, profile \in {66, 100}, extended \in 0 .. 1}
    \cup {[profile_indication |-> Only(profile), profile_compatibility |-> Only(set), level_indication |-> Only(level)] :
            profile \in {9, 244}, set \in {0, 192}, level \in {10, 255}}
    \cup {[sps_len |-> Only(32)], [pps_len |-> Only(256)],
          [profile_indication |-> Only(100), extended_config |-> Only(1), ext_len |-> Only(256)]}
    \cup {Blocks1(set[1], set[2], len) @@ [profile_indication |-> Only(100), extended_config |-> Only(1)] :
            set \in {<<"sps_len", "sps_length">>, <<"pps_len", "pps_length">>, <<"ext_len", "sps_ext_length">>},
            len \in Long})

HevcInputs ==
  Input("hevc_config", {0},
    {[num_of_arrays |-> Only(Len(nalus)), num_nalus |-> nalus, nal_unit_length |-> lengths,
      nal_unit_type |-> <<32, 33, 63>>, general_level_idc |-> Only(93), num_temporal_layers |-> Only(5)] :
       nalus \in {<<>>, <<0>>, <<1, 2>>, <<1, 1, 1>>}, lengths \in Lengths}
    \cup {[num_of_arrays |-> Only(1), num_nalus |-> Only(Len(len)), nal_unit_length |-> len] : len \in Long}
    \cup {[num_of_arrays |-> Only(arrays)] : arrays \in {255, 256}}
    \cup {[general_profile_space |-> Only(space), general_tier_flag |-> Only(tier), general_level_idc |-> Only(level),
           general_profile_idc |-> Only(profile), general_profile_compatibility_flags |-> Only(96)] :
            space \in 0 .. 3, tier \in 0 .. 1, profile \in {1, 31}, level \in {9, 153}})

Av1Inputs ==
  Input("av1_config", {0},
    {[hdr_wcg_idc |-> Only(hdr), delay_present |-> Only(delay), seq_level_idx_0 |-> Only(31),
      initial_presentation_delay_minus_one |-> Only(9), config_obu |-> Only(obus)] :
       hdr \in 0 .. 1, delay \in 0 .. 1, obus \in {0, 5}})
  \cup Input("av1_descriptor", {0},
    {[tag |-> Only(tag), descriptor_length |-> Only(len), config_obu |-> Only(2)] :
       tag \in {128, 3}, len \in {4, 6}})

AacInputs ==
  Input("aac", {0},
    {[audio_object_type |-> Only(type), extended_object_type |-> Only(11), index |-> Only(index),
      sampling_frequency |-> Only(16777215), channel_configuration |-> Only(2)] :
       type \in {2, 31}, index \in 0 .. 15})

---------------------------------------------------------------------------

\* Sizes and crops, some of which the code gets wrong.
Frame ==
  {[width |-> Only(119), height |-> Only(67), cropping |-> Only(crop), conformance_window |-> Only(crop),
    crop_right |-> Only(2), crop_bottom |-> Only(4), crop_top |-> Only(1)] : crop \in 0 .. 1}

Vui == {"aspect_ratio", "overscan_info", "video_signal_type", "colour_description",
        "chroma_loc_info", "timing_info"}
VuiInputs ==
  {Flags1(Vui, on) @@ [vui |-> Only(1), aspect_ratio_idc |-> Only(idc), color_primaries |-> Only(9),
                             num_units_in_tick |-> Only(ticks), time_scale |-> Only(60)] :
          on \in {{}, Vui} \cup {Vui \ {n} : n \in Vui}, idc \in {1, 255}, ticks \in 0 .. 1}
  \cup {[vui |-> Only(0)]}

Avc264 ==
  {[profile_idc |-> Only(profile), level_idc |-> Only(31), chroma_format_idc |-> Only(chroma),
    pic_order_cnt_type |-> Only(poc), num_ref_frames |-> Only(2), frame_mbs_only_flag |-> Only(mbs),
    scaling_matrix |-> Only(scaling), list_present |-> <<0, 1, 0, 0, 0, 0, 1, 0, 0, 1, 0, 0>>] @@ frame :
     profile \in {66, 100}, chroma \in 0 .. 3, poc \in 0 .. 2, mbs \in 0 .. 1, scaling \in {0},
     frame \in Frame}
Scaled264 ==
  {[profile_idc |-> Only(100), chroma_format_idc |-> Only(chroma), scaling_matrix |-> Only(1),
    list_present |-> <<0, 1, 0, 0, 0, 0, last, 0, 0, 1, 0, 0>>, frame_mbs_only_flag |-> Only(1)] :
     chroma \in {0, 3}, last \in 0 .. 1}

Sps264Inputs ==
  Input("sps264", {0, 3}, Avc264 \cup Scaled264 \cup {[level_idc |-> Only(40)] @@ vui : vui \in VuiInputs})

---------------------------------------------------------------------------

Layers ==
  {[max_sub_layers_minus1 |-> Only(n), profile_present |-> profiles, level_present |-> levels] :
     n \in {0, 1, 3}, profiles \in {<<1, 1, 1>>, <<1, 0, 1>>}, levels \in {<<0, 0, 0>>, <<1, 0, 1>>}}
RefSets ==
  {[num_short_term_sets |-> Only(n), inter_prediction |-> predicted, num_negative_pics |-> <<2, 0, 1>>,
    num_positive_pics |-> <<0, 1, 0>>, used_by_curr_pic |-> <<1, 0, 0>>, use_delta |-> <<1, 0>>] :
     n \in {0, 1, 3}, predicted \in {<<0, 0>>, <<1, 0>>, <<0, 1>>}}
Optional265 == {"scaling_list_enabled", "scaling_list_data", "pcm_enabled", "long_term"}

Hevc(values) == {v @@ [ordering_info |-> Only(1), chroma_format_idc |-> Only(1)] : v \in values}
Sps265Inputs ==
  Input("sps265", {0, 3},
    Hevc(Layers) \cup Hevc(RefSets) \cup Hevc({vui : vui \in VuiInputs})
    \cup Hevc({Flags1(Optional265, on) @@ [num_long_term |-> Only(long), pred_mode_flag |-> Same(20, 1)] :
                 on \in {{}, Optional265, {"pcm_enabled"}, {"long_term"}}, long \in 0 .. 1})
    \cup Hevc({Flags1(Optional265, Optional265 \ {"long_term"}) @@ [pred_mode_flag |-> <<1, 0, 0, 0, 0, 0, 1, 0, 0, 0, 0, 0, 1>>]})
    \cup {[ordering_info |-> Only(ordering), chroma_format_idc |-> Only(chroma),
           max_sub_layers_minus1 |-> Only(1), profile_present |-> Only(1)] @@ frame :
            ordering \in 0 .. 1, chroma \in 0 .. 4, frame \in Frame})

---------------------------------------------------------------------------

ObuInputs ==
  Input("obu", {0},
    {[obu_type |-> Only(1), extension_flag |-> Only(extension), has_size_field |-> Only(sized),
      temporal_id |-> Only(2), spatial_id |-> Only(1), obu_size |-> Only(size)] :
       extension \in 0 .. 1, sized \in 0 .. 1, size \in {0, 127, 128, 16384}})

Sequence(values) ==
  {v @@ [frame_width_bits_minus_1 |-> Only(10), frame_height_bits_minus_1 |-> Only(9),
         max_frame_width_minus_1 |-> Only(1919), max_frame_height_minus_1 |-> Only(1000)] : v \in values}
SequenceInputs ==
  Input("sequence_header", {0},
    Sequence({[still_picture |-> Only(still), reduced |-> Only(reduced)] : still \in 0 .. 1, reduced \in 0 .. 1})
    \cup Sequence({[timing_info |-> Only(timing), equal_picture_interval |-> Only(equal),
                    num_ticks_per_picture_minus_1 |-> Only(6), decoder_model_info |-> <<model>>,
                    buffer_delay_length_minus_1 |-> Only(11), display_delay |-> Only(display),
                    operating_points_cnt_minus_1 |-> Only(points), idc |-> <<1, 2, 3>>,
                    seq_level_idx |-> <<7, 8, 31>>, seq_tier |-> Same(3, 1),
                    decoder_model_for_op |-> <<1, 0, 1>>, decoder_buffer_delay |-> <<5, 6>>,
                    display_delay_for_op |-> <<0, 1>>, initial_display_delay_minus_1 |-> Only(9)] :
                     timing \in 0 .. 1, equal \in 0 .. 1, model \in 0 .. 1, display \in 0 .. 1,
                     points \in {0, 2}})
    \cup Sequence({Flags1({"frame_ids", "enable_order_hint", "choose_screen_content_tools"}, on)
                   @@ [force_screen_content_tools |-> Only(force), choose_integer_mv |-> <<0, integer>>] :
                     on \in SUBSET {"frame_ids", "enable_order_hint", "choose_screen_content_tools"},
                     force \in 0 .. 1, integer \in 0 .. 1})
    \cup Sequence({[seq_profile |-> Only(profile), mono_chrome |-> Only(mono), high_bitdepth |-> Only(high),
                    twelve_bit |-> Only(twelve), color_description |-> Only(described),
                    color_primaries |-> Only(1), transfer_characteristics |-> Only(transfer),
                    subsampling_x |-> Only(x), subsampling_y |-> Only(1)] :
                     profile \in 0 .. 2, mono \in 0 .. 1, high \in 0 .. 1, twelve \in 0 .. 1,
                     described \in 0 .. 1, transfer \in {1, 13}, x \in 0 .. 1}))

\* AMF0 values: the markers in the order in which they are written, with as many
\* values at the top as `again` says.
Values0(again, markers, properties) ==
  {[again |-> Same(again, 1), marker |-> m, property |-> p, number |-> <<7, 8, 9>>,
    number_high |-> <<9, 16368>>, boolean |-> <<1, 0>>,
    key_length |-> key, length |-> len, string |-> <<4, 5>>, key |-> <<1, 2, 3>>] :
     m \in markers, p \in properties, key \in {<<0, 1, 65535>>, <<2, 65537>>}, len \in {<<0, 3>>, <<65535, 9>>, <<65536>>}}

Scalars == {0, 1, 2, 5}
AmfShapes ==
  Values0(1, {<<m>> : m \in Scalars \cup {ObjectEnd, 12}}, {<<>>})
  \cup Values0(2, Scalars \X Scalars, {<<>>})
  \cup Values0(1, {<<3>>}, {<<>>}) \cup Values0(1, {<<3, m>> : m \in Scalars \cup {12}}, {<<1>>})
  \cup Values0(2, {<<3, 3, m, k, 2>> : m \in Scalars, k \in {0, 3}}, {<<1, 1, 0, 1>>, <<1, 1, 1>>})

Arrays0(shapes) ==
  {[count |-> counts, open |-> open, long_length |-> <<70000>>] @@ v :
     v \in shapes, counts \in {<<0>>, <<1, 1>>, <<2, 0>>}, open \in {<<0, 1>>, <<1, 0>>}}
PeerShapes ==
  Arrays0(Values0(2, {<<8, m, k, 0>> : m \in {0, 2, 3, 8, 12}, k \in {0, 5}}, {<<>>})
          \cup Values0(1, {<<3, 8, 2, 8, 1>>}, {<<1, 1>>, <<1>>}))
  \cup Values0(1, {<<3, 6>>, <<0>>}, {<<1>>})
  \cup {[string |-> Only(NotUtf8), length |-> <<3>>] @@ v : v \in Values0(1, {<<2>>}, {<<>>})}
  \cup {[key |-> <<4, NotUtf8>>] @@ v : v \in Values0(1, {<<3, 0, 0>>}, {<<1, 1>>})}

AmfInputs ==
  Input("amf0", {0}, AmfShapes) \cup Input("peer", {0}, PeerShapes)
  \cup Input("peer", {-1, -3}, Values0(3, {<<0, 2, 5>>, <<2, 5, 3>>, <<5, 3, 2>>, <<2, 1, 5>>}, {<<>>, <<1>>}))
  \cup Input("script", {0, -1}, Values0(2, {<<2, 3, 0, 5>>, <<5, 0, 2>>, <<2, 6, 0>>}, {<<1>>}))

MCInputs ==
  AvcInputs \cup HevcInputs \cup Av1Inputs \cup AacInputs \cup Sps264Inputs \cup Sps265Inputs
  \cup ObuInputs \cup SequenceInputs \cup AmfInputs
============================================================================
