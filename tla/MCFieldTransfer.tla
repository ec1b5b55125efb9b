--------------------------- MODULE MCFieldTransfer ---------------------------
EXTENDS FieldTransfer

CONSTANTS e1, e2, e3, s1, s2, x, y

\* Two items with one content and a third with another
Twins == [e \in {e1, e2, e3} |-> IF e = e3 THEN y ELSE x]
=============================================================================
