------------------------------ MODULE MCUiShell ------------------------------
EXTENDS UiShell

MCSpots == 0 .. 2
MCHome == [s \in MCSpots |-> IF s = 0 THEN "Clavier" ELSE IF s = 1 THEN "tile" ELSE "nothing"]
MCKeyboard == [s \in MCSpots |-> IF s = 1 THEN "Fermer" ELSE "key"]
MCLayout == [p \in Pages |-> IF p = "home" THEN MCHome ELSE MCKeyboard]
==============================================================================
