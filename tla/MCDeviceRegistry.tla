--------------------------- MODULE MCDeviceRegistry ---------------------------
(* The instance of DeviceRegistry that TLC checks: all constants are model      *)
(* values or numbers, given in the configurations. No symmetry, because one of  *)
(* the properties is a liveness property.                                       *)
EXTENDS DeviceRegistry
=============================================================================
