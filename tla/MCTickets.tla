------------------------------- MODULE MCTickets -------------------------------
(* A small instance of Tickets: two tickets of two organisations. *)
EXTENDS Tickets, TLC

CONSTANTS t1, t2, o1, o2

MCTicket      == {t1, t2}
MCOrgOf       == (t1 :> o1) @@ (t2 :> o2)
MCStaffStatus == {"open", "resolved"}
=============================================================================
