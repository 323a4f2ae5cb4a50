---------------------------- MODULE MCGimbalLink ----------------------------
(* A small instance of GimbalLink: two gimbals at TCP, of which one speaks *)
(* DYT, and two at UDP, so that a UDP link may replace another one.        *)
EXTENDS GimbalLink
=============================================================================
