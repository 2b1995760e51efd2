------------------------ MODULE MCSlaveCommunicator -------------------------
(* Small instances of SlaveCommunicator: serials modulo 8 that start at 7,  *)
(* so that they wrap within the bounds.                                    *)
EXTENDS SlaveCommunicator

CONSTANT m1
OneMaster == <<m1>>
=============================================================================
