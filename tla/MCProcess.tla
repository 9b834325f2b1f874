----------------------------- MODULE MCProcess -----------------------------
(* Small instances of Process for TLC.                                     *)
EXTENDS Process

AllCalls == {"fork", "execmod", "waitpid", "kill", "signal"}
Family == {"fork", "waitpid"}
=============================================================================
