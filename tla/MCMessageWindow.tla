--------------------------- MODULE MCMessageWindow ---------------------------
(* Instance of MessageWindow for TLC. *)
EXTENDS MessageWindow

Messages == [view : 0 .. MaxView, sender : {1, 2}]
=============================================================================
