--------------------------- MODULE MCWebTransport ---------------------------
(* An instance of WebTransport: each channel holds one element, so that two  *)
(* items of a kind fill it, and two sessions fill the channel of requests.   *)
EXTENDS WebTransport

CONSTANTS s1, s2, u1, u2, b1, d1

MCSession == {s1, s2}
MCItem    == {u1, u2, b1, d1}
MCKind    == [i \in Item |-> CASE i \in {u1, u2} -> "uni" [] i = d1 -> "dgram" [] OTHER -> "bidi"]
MCTo      == [i \in Item |-> s1]

\* streams for one session; a datagram for one of two
MCPlans == [opens : {{s1, u1, u2, b1}}, split : BOOLEAN] \cup [opens : {{s1, s2, d1}}, split : {FALSE}]
=============================================================================
