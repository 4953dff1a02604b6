----------------------------- MODULE MCUartRing -----------------------------
(* A buffer of four places, three of them usable, that is filled and wraps   *)
(* several times over.                                                       *)
EXTENDS UartRing
=============================================================================
