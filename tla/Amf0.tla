------------------------------- MODULE Amf0 --------------------------------
(***************************************************************************)
(* AMF0 values (crates/amf0): the encoder and decoder of RTMP commands and *)
(* of FLV script data.  A value is given by its marker, and a string or a  *)
(* key by its length and by what is in it.  The properties of an object    *)
(* follow one another; `property` is 1 for each and 0 at the end.  An      *)
(* array is `open` when no mark ends it.  A number is its first two bytes  *)
(* and the other six.                                                      *)
(***************************************************************************)
EXTENDS BitSyntax

NotUtf8 == 255    \* what a string or key may hold that is not UTF-8

ObjectEnd == 9

---------------------------------------------------------------------------
(* encode.rs: long strings have no encoding, and the length of a key is    *)
(* cast to 16 bits.                                                        *)

Double == <<U("number_high", 16), U("number", 48)>>
EncodeString == <<U("length", 16), Slice("string", "length")>>
EncodeKey == <<Wrapped("key_length", 16), Slice("key", "key_length")>>

EncodeArms ==
  (0 :> <<Lit(8, 0)>> \o Double)
  @@ (1 :> <<Lit(8, 1), U("boolean", 8)>>)
  @@ (2 :> <<Lit(8, 2)>> \o EncodeString)
  @@ (3 :> <<Lit(8, 3), Call("amf_properties")>>)
  @@ (5 :> <<Lit(8, 5)>>)

Encode0 == <<Let("marker"), Match("marker", EncodeArms)>>

\* encode_object after the marker.
EncodeProperties ==
  <<Let("property"),
    Match("property", (0 :> <<Lit(24, ObjectEnd)>>)
                      @@ (1 :> EncodeKey \o <<Call("amf_value"), Call("amf_properties")>>))>>

\* Values one after the other.
EncodeAll == <<Let("again"), If("again", {1}, <<Call("amf_value"), Call("amf0")>>)>>

---------------------------------------------------------------------------
(* decode.rs *)

Text(n, len) == <<Slice(n, len), Never(n, {NotUtf8})>>
ReadString == <<U("length", 16)>> \o Text("string", "length")
ReadKey == <<U("key_length", 16)>> \o Text("key", "key_length")
ReadLongString == <<U("long_length", 32)>> \o Text("string", "long_length")

ReadProperties ==
  <<EndMark("property"),
    If("property", {1}, ReadKey \o <<Call("amf_value"), Call("amf_properties")>>)>>

\* The mark at the end may be missing: the array is then open, unless what
\* follows it looks like one.
ReadEcmaArray ==
  <<U("count", 32), Times("count", 0, ReadKey \o <<Call("amf_value")>>), EndMark("open")>>

\* All other markers are errors.
DecodeArms ==
  (0 :> Double)
  @@ (1 :> <<Bool("boolean")>>)
  @@ (2 :> ReadString)
  @@ (3 :> <<Call("amf_properties")>>)
  @@ (5 :> <<>>)
  @@ (8 :> ReadEcmaArray)
  @@ (12 :> ReadLongString)

Decode0 == <<U("marker", 8), Match("marker", DecodeArms)>>
DecodeWithType(marker) == <<U("marker", 8), Must("marker", {marker}), Match("marker", DecodeArms)>>
DecodeAll == <<More("again"), If("again", {1}, <<Call("amf_value"), Call("amf0")>>)>>

---------------------------------------------------------------------------

\* flv/src/script.rs: a name, and the data.
ScriptDemux == DecodeWithType(2) \o <<Call("amf0")>>
============================================================================
