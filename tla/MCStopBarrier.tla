--------------------------- MODULE MCStopBarrier ---------------------------
(***************************************************************************)
(* A small instance of StopBarrier: one member behind one isolation path,  *)
(* two policies after one another, and a reboot of the receiver, a restart *)
(* of the member and a member opened again, in any order.  Inventories of  *)
(* any size are left to StopBarrierProofs.                                 *)
(***************************************************************************)
EXTENDS StopBarrier

CONSTANT k1

MCMembers == {k1}
MCPaths == {"network"}
=============================================================================
