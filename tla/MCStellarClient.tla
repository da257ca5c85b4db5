-------------------------- MODULE MCStellarClient --------------------------
(* Three calls for two slots; a tick is about four minutes.                *)
EXTENDS StellarClient
=============================================================================
