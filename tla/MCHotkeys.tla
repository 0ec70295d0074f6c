----------------------------- MODULE MCHotkeys -----------------------------
EXTENDS Hotkeys

\* One hotkey of two keys, one of the second of them
MCPool == <<"pair", "single">>
MCDefaultBind == [h \in {"pair", "single"} |-> IF h = "pair" THEN <<1, 2>> ELSE <<2, 0>>]
=============================================================================
