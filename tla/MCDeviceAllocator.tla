--------------------------- MODULE MCDeviceAllocator ---------------------------
(* Instance of DeviceAllocator: a memory of three units. *)
EXTENDS DeviceAllocator, TLC
CONSTANTS o1, o2, o3, o4
MCSize == (o1 :> 1) @@ (o2 :> 2) @@ (o3 :> 2) @@ (o4 :> 1)
================================================================================
