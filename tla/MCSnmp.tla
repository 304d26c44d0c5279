-------------------------------- MODULE MCSnmp --------------------------------
(* The SNMP poll on three devices: the gateway and two that were guessed.     *)
EXTENDS SnmpPoll

\* Two communities are configured; a device may be set to one the list lacks.
MCCommunities == <<"a", "b">>
=============================================================================
