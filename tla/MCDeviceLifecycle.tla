------------------------- MODULE MCDeviceLifecycle -------------------------
(* Small instances of DeviceLifecycle for TLC. *)
EXTENDS DeviceLifecycle
=============================================================================
