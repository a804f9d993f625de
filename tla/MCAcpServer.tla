---------------------------- MODULE MCAcpServer -----------------------------
(***************************************************************************)
(* AcpServer on one session whose first turn makes up to two tool calls    *)
(* and whose second makes none.                                       *)
(***************************************************************************)
EXTENDS AcpServer

Calls == <<2, 0>>
=============================================================================
