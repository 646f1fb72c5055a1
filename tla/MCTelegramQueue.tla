--------------------------- MODULE MCTelegramQueue ---------------------------
(* A small instance of TelegramQueue for TLC: both posts link to the same   *)
(* two vacancies, in opposite orders, and one of them reads like a vacancy. *)
EXTENDS TelegramQueue

CONSTANTS l1, l2

MCLinksOf == [p \in Posts |-> Links]
MCLinkOrder == [p \in Posts |-> IF p = 1 THEN {<<l1, l2>>} ELSE {<<l2, l1>>}]
==============================================================================
