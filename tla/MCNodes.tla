------------------------------- MODULE MCNodes -------------------------------
(***************************************************************************)
(* Nodes for TLC: the packets on the serial line, with and without bytes    *)
(* that must be escaped.                                                    *)
(***************************************************************************)
EXTENDS Nodes

MCOctets == {"a", "b", "!", "?", "\n", "\r", "END", "ESC", "ESC_END", "ESC_ESC"}
MCPackets == {<<"b">>, <<"END">>, <<"ESC", "ESC_END">>, <<"a", "END", "b", "ESC">>}
MCFrames == {<<"!", "b">>, <<"?", "b">>, <<"b", "END">>, <<"b", "\n", "b">>, <<"ESC_ESC", "ESC", "ESC_END">>}
=============================================================================
