--------------------------- MODULE MCConfigReload ---------------------------
(* Instances of ConfigReload.                                                *)
EXTENDS ConfigReload
=============================================================================
