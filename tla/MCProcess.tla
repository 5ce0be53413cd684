------------------------------ MODULE MCProcess ------------------------------
(* Both threads can be in the handler at once: two interrupts.              *)
EXTENDS Process
=============================================================================
