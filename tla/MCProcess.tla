------------------------------ MODULE MCProcess ------------------------------
(* Small instances of Process: channels and pipes of a line or two, so that *)
(* every sender has to wait for room.                                       *)
EXTENDS Process
=============================================================================
