--------------------------- MODULE MCAdminCommand ---------------------------
(* An instance of AdminCommand.  Command 1 is sent by first and sent again *)
(* by again; other is command 2.  Each command names the other one as its  *)
(* parent, so that a request locks both identities.                        *)
EXTENDS AdminCommand

CONSTANTS first, again, other, home

MCCommands == {1, 2}
MCCommandOf == [r \in Requests |-> IF r = other THEN 2 ELSE 1]
MCRelatedOf == [r \in Requests |-> {1, 2} \ {MCCommandOf[r]}]
MCIntentOf == [r \in Requests |-> "meant"]
MCSessionOf == [r \in Requests |-> home]
=============================================================================
