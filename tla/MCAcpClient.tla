----------------------------- MODULE MCAcpClient -----------------------------
(* Instances of AcpClient for TLC.                                           *)
EXTENDS AcpClient

CONSTANTS r1, r2
=============================================================================
