-------------------------- MODULE MCFanArbitration --------------------------
(* Small instances of FanArbitration for TLC.                              *)
EXTENDS FanArbitration

Calm == [dht_ok |-> TRUE, temperature |-> 20, humidity |-> 60, rain |-> 3000,
         rain_status |-> 1, co2 |-> 1000, co |-> 200]

(* Both sides of every threshold, and failed sensors that look like alarms. *)
Thresholds ==
  {Calm,
   [Calm EXCEPT !.co2 = 1001], [Calm EXCEPT !.co2 = 4095], [Calm EXCEPT !.co2 = 4096],
   [Calm EXCEPT !.co = 201], [Calm EXCEPT !.co = 4096],
   [Calm EXCEPT !.humidity = 61], [Calm EXCEPT !.humidity = 100],
   [Calm EXCEPT !.dht_ok = FALSE, !.temperature = 0, !.humidity = 0],
   [Calm EXCEPT !.rain_status = 0], [Calm EXCEPT !.rain = 0, !.rain_status = 0]}

(* A failed sensor never raises the fan: what it read might as well have    *)
(* been calm.                                                              *)
ASSUME FailedSensorsStaySilent ==
  \A r \in Thresholds :
    LET failed(s, fields) == IF s \in read_error(r) THEN fields ELSE {}
        ignored == failed("DHT11", {"dht_ok", "temperature", "humidity"})
                     \cup failed("FC37", {"rain", "rain_status"})
                     \cup failed("MQ135", {"co2"}) \cup failed("MQ7", {"co"})
    IN  AutoCmd(r) = AutoCmd([f \in DOMAIN r |-> IF f \in ignored THEN Calm[f] ELSE r[f]])

CalmOrGas == {Calm, [Calm EXCEPT !.co2 = 1001]}

EveryTarget == {<<TARGET_FAN, 2>>, <<TARGET_HEAT, 1>>, <<TARGET_HUMID, 0>>}
FanOnly == {<<TARGET_FAN, 0>>}
=============================================================================
