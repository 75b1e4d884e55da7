------------------------------ MODULE MCSession ------------------------------
EXTENDS Session

MCUiCrashes == [c \in Clients |-> IF c = "perception" THEN 0 ELSE 1]
MCManyCrashes == [c \in Clients |-> IF c = "perception" THEN 3 ELSE 4]
==============================================================================
