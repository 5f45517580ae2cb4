-------------------------- MODULE MCHeaderExchange --------------------------
(***************************************************************************)
(* Header fields for TLC: values on both sides of a byte, of MAX_LENGTH    *)
(* and of the width of a short.                                            *)
(***************************************************************************)
EXTENDS HeaderExchange

MCIds  == {-2, 0, 1, 255, 256, 1001, 2048, 2049}
MCLens == {0, 1, 45, 255, 256, 2047, 2048, 2049, 32767}

MCReplyIds   == {-1, 0, 1001, 32767, 32768, 70000}
MCReplySizes == {0, 1, 83, 255, 256, 32763, 32764, 32768, 65530, 65539}
=============================================================================
