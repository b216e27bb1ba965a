---------------------------- MODULE MCSensorClient ----------------------------
(***************************************************************************)
(* A sensor client for TLC: lengths of two bytes, messages of one and two. *)
(***************************************************************************)
EXTENDS SensorClient

SizeOf(message) == IF message.kind = "m" THEN 2 ELSE 1

=============================================================================
