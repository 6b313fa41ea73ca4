---------------------------- MODULE MCGuiFanPanel ----------------------------
(* Small instances of GuiFanPanel for TLC.                                 *)
EXTENDS GuiFanPanel

AutoAndLora == {Msg(TARGET_FAN, APPLAY_VAL_OFF, SOURCE_AUTO),
                Msg(TARGET_FAN, APPLAY_VAL_LOW, SOURCE_AUTO),
                Msg(TARGET_FAN, APPLAY_VAL_MID, SOURCE_LORA),
                Msg(TARGET_FAN, APPLAY_VAL_HI, SOURCE_LORA)}
=============================================================================
