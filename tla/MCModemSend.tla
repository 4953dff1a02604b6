---------------------------- MODULE MCModemSend -----------------------------
(* The protocols the runs of ModemSend use.                                  *)
EXTENDS ModemSend

Both == {"mqtt", "https"}
=============================================================================
