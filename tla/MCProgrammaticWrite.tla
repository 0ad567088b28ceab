------------------------ MODULE MCProgrammaticWrite ------------------------
(* Instances of ProgrammaticWrite: a relayed vault message with the        *)
(* cancellation of a queue, and two mass messages with the same audience   *)
(* and content.                                                            *)
EXTENDS ProgrammaticWrite

CONSTANTS relay, cancel, mass, again

MCKind ==
  [w \in Writes |->
     CASE w = relay -> "VAULT_RELAY_SEND"
       [] w = cancel -> "MASS_QUEUE_CANCEL"
       [] OTHER -> "MASS_QUEUE_CREATE"]
MCPayload == [w \in Writes |-> IF w \in {mass, again} THEN mass ELSE w]
=============================================================================
