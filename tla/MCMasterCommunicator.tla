------------------------ MODULE MCMasterCommunicator ------------------------
(* Small instances of MasterCommunicator: the four attempts take four      *)
(* seconds in place of 34.  The master zone is served by IPv4 addresses,   *)
(* the slave zone by IPv6 ones.                                            *)
EXTENDS MasterCommunicator

MCDelay == <<1, 1, 1, 1>>
TwoChanges == [z \in Zones |-> IF z \in MasterZones THEN 2 ELSE 0]
ByFamily == [z \in Zones |-> IF z \in MasterZones THEN V4 ELSE V6]
=============================================================================
