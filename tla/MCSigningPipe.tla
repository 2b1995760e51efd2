--------------------------- MODULE MCSigningPipe ----------------------------
(* A small transfer: four RRsets, the first of two records, with chunks of  *)
(* two records and sockets that hold one pointer.                           *)
EXTENDS SigningPipe

FourSets == <<"a", "a", "b", "c", "d">>
=============================================================================
