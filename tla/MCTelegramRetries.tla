-------------------------- MODULE MCTelegramRetries --------------------------
(* A small instance of TelegramRetries for TLC: post 1 links to a vacancy,  *)
(* post 2 is plain text, and post 3 is small talk.                          *)
EXTENDS TelegramRetries

MCLinksOf == [p \in Posts |-> IF p = 1 THEN Links ELSE {}]
NoOrder == [p \in Posts |-> {}]
==============================================================================
