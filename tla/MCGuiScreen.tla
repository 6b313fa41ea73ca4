---------------------------- MODULE MCGuiScreen -----------------------------
(* Commands of the other sources for TLC.                                  *)
EXTENDS GuiScreen

D == INSTANCE Applay

LoraMid == {D!Msg(D!TARGET_FAN, D!APPLAY_VAL_MID, D!SOURCE_LORA)}
=============================================================================
