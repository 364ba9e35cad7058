-------------------------- MODULE MCEmailCampaign --------------------------
(* One mailbox: a business writes to all its people, one of its staff to   *)
(* a client of theirs.                                                     *)
EXTENDS EmailCampaign, TLC

CONSTANTS business, staff, p1, p2

MCAddress  == p1 :> 1 @@ p2 :> 2
MCServedBy == business :> {p1, p2} @@ staff :> {p1}
=============================================================================
