----------------------------- MODULE MCCheats ------------------------------
EXTENDS Cheats

VARIABLE drawing      \* bound: only the cheats that draw, or only those that
                      \* move the user, which share on_alogin alone

MCInit ==
  /\ Init /\ drawing \in BOOLEAN
  /\ ~drawing => wallhack_use /\ custom_render /\ \A l \in Limits : limit <= l

MCNext ==
  /\ \/ \E state \in BOOLEAN : SetAloginState(state)
     \/ drawing /\ Draws
     \/ ~drawing /\ (Points \/ Moves)
  /\ UNCHANGED drawing

MCSpec == MCInit /\ [][MCNext]_<<vars, drawing>>
=============================================================================
