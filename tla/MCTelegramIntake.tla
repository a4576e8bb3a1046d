--------------------------- MODULE MCTelegramIntake ---------------------------
EXTENDS TelegramIntake
MCCost == [s \in Services |-> IF s = "voice" THEN 2 ELSE 1]
MCKindOf == [u \in Updates |-> u]
=============================================================================
