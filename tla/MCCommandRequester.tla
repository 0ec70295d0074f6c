------------------------- MODULE MCCommandRequester -------------------------
\* A command of each type, and three administrators: one whose level allows
\* none of them, one who may slap, and one who may do everything.
EXTENDS CommandRequester

CONSTANTS a1, a2, a3, slap, vspawn, ban

MCTypeOf == [c \in Commands |-> IF c = slap THEN "answer"
                                ELSE IF c = ban THEN "reason" ELSE "none"]

MCCanUse == [a \in Admins |-> CASE a = a1 -> {}
                                [] a = a2 -> {slap}
                                [] OTHER -> Commands]
=============================================================================
