-------------------------- MODULE MCTelegramDelivery --------------------------
EXTENDS TelegramDelivery

CONSTANTS first, second

MCMaxClaims == [i \in Intents |-> IF i = Task THEN 2 ELSE 1]
=============================================================================
