---------------------------- MODULE MCEnvPipeline ----------------------------
(* Small instances of EnvPipeline for TLC.                                 *)
EXTENDS EnvPipeline

Dry == [err |-> {}, val |-> [temp |-> 20, humi |-> 50, co2 |-> 400, co |-> 20],
        wet |-> FALSE]

(* Two CO2 readings; with the second one the DHT11 has failed, and what its *)
(* fields hold must not count.                                             *)
OkOrFailed == {Dry, [err |-> {"DHT11"}, wet |-> TRUE,
                     val |-> [temp |-> 99, humi |-> 99, co2 |-> 900, co |-> 30]]}
=============================================================================
