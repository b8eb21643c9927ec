---------------------------- MODULE MCScrapeFetch ----------------------------
(***************************************************************************)
(* Bounds out of order and repeated, and the header lines that matter: one *)
(* that is a sample to the parser, one that is not, one that is too long.  *)
(***************************************************************************)
EXTENDS ScrapeFetch

MCBounds  == <<4, 2, 4>>
MCSamples == {2, 5}
MCHeaders == {<<>>, <<Header("text"), Header("numeric")>>, <<Header("long")>>}
=============================================================================
