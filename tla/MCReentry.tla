----------------------------- MODULE MCReentry -----------------------------
(* Constants for the check of Reentry: two single-shot time triggers, one    *)
(* with a deadline and one with a reply, and two event triggers, one of them *)
(* recurring with a reply, that listen to the same chat.                     *)
EXTENDS Reentry

CONSTANTS a, b, d, e, chat

Often == [t \in Triggers |-> IF t = b THEN 2 ELSE 1]
OneChat == [t \in Triggers |-> IF t = a THEN {} ELSE {chat}]
=============================================================================
