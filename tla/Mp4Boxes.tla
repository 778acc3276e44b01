------------------------------ MODULE Mp4Boxes ------------------------------
(***************************************************************************)
(* The boxes of crates/mp4/src/boxes/types.                                *)
(*                                                                         *)
(* Each kind of box is a definition of its own, named after it: the fields *)
(* its demux and primitive_mux handle, in their order, the boxes it holds, *)
(* and the bytes its primitive_size counts for version 0 and version 1     *)
(* without options, table rows and inner boxes.  Bytes that no property    *)
(* tells apart, and that the transmuxer never varies, are one Fixed field. *)
(***************************************************************************)
EXTENDS Mp4

---------------------------------------------------------------------------
(* The movie: what an init segment holds *)

Ftyp == Record(<<Num("major_brand", 4), Fixed(4), Rest("compatible_brands")>>, 4 + 4)
Mdat == Record(<<Rest("data")>>, 0)
Moov == Container(<<One("mvhd"), Many("trak"), Opt("mvex"), Others>>)
Mvhd == Kind("full", <<Time("creation_time"), Time("modification_time"), Num("timescale", 4),
                       Time("duration"), Fixed(76), Num("next_track_id", 4)>>, <<>>, <<>>,
             4 + (4 + 4 + 4 + 4) + (4 + 2 + 2) + 4 * 2 + 4 * 9 + 4 * 6 + 4,
             4 + (8 + 8 + 4 + 8) + (4 + 2 + 2) + 4 * 2 + 4 * 9 + 4 * 6 + 4)
Trak == Container(<<One("tkhd"), Opt("edts"), One("mdia"), Others>>)
Tkhd == Kind("full", <<Time("creation_time"), Time("modification_time"), Num("track_id", 4),
                       Fixed(4), Time("duration"), Fixed(12), Num("volume", 2), Fixed(38),
                       Num("width", 4), Num("height", 4)>>, <<>>, <<>>,
             4 + (4 + 4 + 4 + 4 + 4) + 4 * 2 + 2 + 2 + 2 + 2 + 4 * 9 + 4 + 4,
             4 + (8 + 8 + 4 + 4 + 8) + 4 * 2 + 2 + 2 + 2 + 2 + 4 * 9 + 4 + 4)
Mdia == Container(<<One("mdhd"), One("hdlr"), One("minf"), Others>>)
Mdhd == Kind("full", <<Time("creation_time"), Time("modification_time"), Num("timescale", 4),
                       Time("duration"), Fixed(4)>>, <<>>, <<>>,
             4 + (4 + 4 + 4 + 4) + 2 + 2, 4 + (8 + 8 + 4 + 8) + 2 + 2)
\* The transmuxer's handler names have 12 characters and a terminator.
Hdlr == Leaf(<<Fixed(4), Num("handler_type", 4), Fixed(12), Num("name", 13)>>,
             4 + 4 + 4 + 3 * 4 + 12 + 1)
Minf == Container(<<Opt("vmhd"), Opt("smhd"), Opt("hmhd"), Opt("nmhd"), One("dinf"),
                    One("stbl"), Others>>)
Vmhd == Leaf(<<Fixed(2), Fixed(6)>>, 4 + 2 + 2 * 3)
Smhd == Leaf(<<Fixed(2), Fixed(2)>>, 4 + 2 + 2)
Dinf == Container(<<One("dref"), Others>>)
Dref == Kind("full", <<Count>>, <<>>, <<Many("any")>>, 4 + 4, 4 + 4)
Url == Leaf(<<>>, 4)
Stbl == Container(<<One("stsd"), One("stts"), Opt("ctts"), One("stsc"), Opt("stsz"),
                    Opt("stz2"), One("stco"), Opt("co64"), Opt("stss"), Opt("stsh"),
                    Opt("padb"), Opt("stdp"), Opt("sdtp"), Opt("sbgp"), Opt("subs"), Others>>)
Stsd == Kind("full", <<Count>>, <<>>, <<Many("any")>>, 4 + 4, 4 + 4)
Stts == Table(<<Count>>, <<Num("sample_count", 4), Num("sample_delta", 4)>>, 4 + 4)
Stsc == Table(<<Count>>, <<Num("first_chunk", 4), Num("samples_per_chunk", 4),
                           Num("sample_description_index", 4)>>, 4 + 4)
Stco == Table(<<Count>>, <<Num("chunk_offset", 4)>>, 4 + 4)
\* With sample_size 0, as the transmuxer writes it.
Stsz == Table(<<Fixed(4), Count>>, <<Num("size", 4)>>, 4 + 8)
Mvex == Container(<<Many("trex"), Opt("mehd"), Others>>)
Trex == Leaf(<<Num("track_id", 4), Fixed(4), Fixed(4), Fixed(4), Fixed(4)>>,
             4 + 4 + 4 + 4 + 4 + 4)

---------------------------------------------------------------------------
(* The sample entries *)

SampleEntry == <<Fixed(6), Fixed(2)>>
VisualSampleEntry == SampleEntry \o <<Fixed(16), Num("width", 2), Num("height", 2), Fixed(50)>>
AudioSampleEntry == SampleEntry \o
  <<Fixed(8), Num("channel_count", 2), Num("sample_size", 2), Fixed(4),
    Field("sample_rate", 4, 4, "", "rate")>>
VisualSize == 6 + 2 + 2 + 2 + 4 + 4 + 4 + 2 + 2 + 4 + 4 + 4 + 2 + 32 + 2 + 2
AudioSize == 6 + 2 + 4 + 4 + 2 + 2 + 2 + 2 + 4

Visual(config) ==
  Kind("box", VisualSampleEntry, <<>>,
       <<Opt("clap"), Opt("pasp"), Opt("colr"), One(config), Opt("btrt"), Others>>,
       VisualSize, VisualSize)
Avc1 == Visual("avcC")
Hev1 == Visual("hvcC")
Av01 == Visual("av1C")
Mp4a == Kind("box", AudioSampleEntry, <<>>, <<One("esds"), Opt("btrt"), Others>>,
             AudioSize, AudioSize)
Pasp == Record(<<Fixed(4), Fixed(4)>>, 4 + 4)
Colr == Record(<<Fixed(4), Fixed(7)>>, 4 + 2 + 2 + 2 + 1)    \* nclx
AvcC == Record(<<Rest("config")>>, 0)
HvcC == Record(<<Rest("config")>>, 0)
Av1C == Record(<<Rest("config")>>, 0)
Esds == Kind("full", <<>>, <<>>, <<One("es"), Others>>, 4, 4)

\* The flag byte of the ES descriptor follows its id: the two are one unit.
Es == Kind("es", <<Option("depends_on_es_id", 2, "stream_dependence"),
                   Option("ocr_es_id", 2, "ocr_stream")>>, <<>>,
           <<Opt("decoder_config"), Opt("sl_config"), Others>>, 2 + 1, 2 + 1)
DecoderConfig == Kind("descriptor", <<Fixed(1), Fixed(1), Fixed(3), Fixed(4), Fixed(4)>>, <<>>,
                      <<Opt("decoder_specific_info"), Others>>, 1 + 1 + 3 + 4 + 4,
                      1 + 1 + 3 + 4 + 4)
DecoderSpecificInfo == Kind("descriptor", <<Rest("data")>>, <<>>, <<>>, 0, 0)

---------------------------------------------------------------------------
(* The fragment: what a media segment holds *)

Moof == Container(<<One("mfhd"), Many("traf"), Others>>)
Mfhd == Leaf(<<Num("sequence_number", 4)>>, 4 + 4)
Traf == Container(<<One("tfhd"), Opt("sbgp"), Opt("subs"), Opt("tfdt"), Others, Opt("trun")>>)
Tfhd == Leaf(<<Num("track_id", 4),
               Option("base_data_offset", 8, "base_data_offset"),
               Option("sample_description_index", 4, "sample_description_index"),
               Option("default_sample_duration", 4, "default_sample_duration"),
               Option("default_sample_size", 4, "default_sample_size"),
               Option("default_sample_flags", 4, "default_sample_flags")>>, 4 + 4)
Tfdt == Kind("full", <<Time("base_media_decode_time")>>, <<>>, <<>>, 4 + 4, 4 + 8)
Trun == Table(<<Count, Option("data_offset", 4, "data_offset"),
                Option("first_sample_flags", 4, "first_sample_flags")>>,
              <<Option("duration", 4, "sample_duration"), Option("size", 4, "sample_size"),
                Option("flags", 4, "sample_flags"),
                Field("composition_time_offset", 4, 4, "sample_composition_time_offset",
                      "offset")>>, 4 + 4)

---------------------------------------------------------------------------
(* The boxes a transmuxer never writes, and a reader may meet *)

Edts == Container(<<Opt("elst"), Others>>)
Elst == Table(<<Count>>, <<Time("segment_duration"), Field("media_time", 4, 8, "", "signed"),
                           Num("media_rate_integer", 2), Num("media_rate_fraction", 2)>>, 4 + 4)
Hmhd == Leaf(<<Num("max_pdu_size", 2), Num("avg_pdu_size", 2), Num("max_bitrate", 4),
               Num("avg_bitrate", 4), Fixed(4)>>, 4 + 2 + 2 + 4 + 4 + 4)
Nmhd == Leaf(<<>>, 4)
Mehd == Kind("full", <<Time("fragment_duration")>>, <<>>, <<>>, 4 + 4, 4 + 8)
Clap == Record(<<Num("clean_aperture_width_n", 4), Num("clean_aperture_width_d", 4),
                 Num("clean_aperture_height_n", 4), Num("clean_aperture_height_d", 4),
                 Num("horiz_off_n", 4), Num("horiz_off_d", 4), Num("vert_off_n", 4),
                 Num("vert_off_d", 4)>>, 4 + 4 + 4 + 4 + 4 + 4 + 4 + 4)
Btrt == Record(<<Num("buffer_size_db", 4), Num("max_bitrate", 4), Num("avg_bitrate", 4)>>, 4 + 4 + 4)
Opus == Kind("box", AudioSampleEntry, <<>>, <<Opt("btrt"), Others>>, AudioSize, AudioSize)
SlConfig == Kind("descriptor", <<Num("predefined", 1), Rest("data")>>, <<>>, <<>>, 1, 1)

Ctts == Table(<<Count>>, <<Num("sample_count", 4),
                           Field("sample_offset", 4, 4, "", "offset")>>, 4 + 4)
Stss == Table(<<Count>>, <<Num("sample", 4)>>, 4 + 4)
Stsh == Table(<<Count>>, <<Num("shadowed_sample_count", 4), Num("sync_sample_number", 4)>>, 4 + 4)
Co64 == Table(<<Count>>, <<Num("chunk_offset", 4)>>, 4 + 4)       \* 4 bytes, not 8
Stdp == Table(<<>>, <<Num("sample", 2)>>, 4)
Sdtp == Table(<<>>, <<Field("sample", 1, 1, "", "pack")>>, 4)
\* A count of samples, of which two share a byte.
Padb == Table(<<Field("count", 4, 4, "", "padded_count")>>, <<Num("byte", 1)>>, 4 + 4)
\* The size counts the grouping type whether it is written or not.
Sbgp == Table(<<Option("grouping_type", 4, "version 1"), Count>>,
              <<Num("sample_count", 4), Num("group_description_index", 4)>>, 4 + 4 + 4)
Stz2 == Leaf(<<Fixed(3), Num("field_size", 1), Field("samples", 0, 0, "", "samples")>>, 4 + 8)
Subs == Leaf(<<Field("entries", 0, 0, "", "subsamples")>>, 4 + 4)

Layouts ==
  [ftyp |-> Ftyp, mdat |-> Mdat, moov |-> Moov, mvhd |-> Mvhd, trak |-> Trak, tkhd |-> Tkhd,
   mdia |-> Mdia, mdhd |-> Mdhd, hdlr |-> Hdlr, minf |-> Minf, vmhd |-> Vmhd, smhd |-> Smhd,
   dinf |-> Dinf, dref |-> Dref, url |-> Url, stbl |-> Stbl, stsd |-> Stsd, stts |-> Stts,
   stsc |-> Stsc, stco |-> Stco, stsz |-> Stsz, mvex |-> Mvex, trex |-> Trex, avc1 |-> Avc1,
   hev1 |-> Hev1, av01 |-> Av01, mp4a |-> Mp4a, pasp |-> Pasp, colr |-> Colr, avcC |-> AvcC,
   hvcC |-> HvcC, av1C |-> Av1C, esds |-> Esds, es |-> Es, decoder_config |-> DecoderConfig,
   decoder_specific_info |-> DecoderSpecificInfo, moof |-> Moof, mfhd |-> Mfhd,
   traf |-> Traf, tfhd |-> Tfhd, tfdt |-> Tfdt, trun |-> Trun, edts |-> Edts, elst |-> Elst,
   hmhd |-> Hmhd, nmhd |-> Nmhd, mehd |-> Mehd, clap |-> Clap, btrt |-> Btrt, opus |-> Opus,
   sl_config |-> SlConfig, ctts |-> Ctts, stss |-> Stss, stsh |-> Stsh, co64 |-> Co64,
   stdp |-> Stdp, sdtp |-> Sdtp, padb |-> Padb, sbgp |-> Sbgp, stz2 |-> Stz2, subs |-> Subs]

ASSUME LayoutsAssumption == Kinds = Layouts
=============================================================================
