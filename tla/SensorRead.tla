----------------------------- MODULE SensorRead -----------------------------
(***************************************************************************)
(* What sensor_data_get_task makes of one round of raw readings: which     *)
(* sensors count as failed (read_error) and which fan level the automatic  *)
(* decision asks for.  Constant-level definitions.                         *)
(*                                                                         *)
(* A reading is a record: dht_ok (DHT11_Read_Data returned 0),             *)
(* temperature and humidity (0 when the DHT11 read failed), rain (FC37     *)
(* analogue value), rain_status (1 = dry), co2 (MQ135_ReadCO2) and co      *)
(* (MQ7 analogue value).                                                   *)
(***************************************************************************)
EXTENDS Applay

CO2_SAFE_THRESHOLD == 1000
CO_SAFE_THRESHOLD  == 200

Sensors == {"DHT11", "FC37", "MQ135", "MQ7"}

DhtValid(r) ==
  /\ r.dht_ok
  /\ 0 < r.temperature /\ r.temperature < 50
  /\ 0 < r.humidity /\ r.humidity < 100

(* The range test shared by the rain, CO2 and CO channels.                 *)
AdcValid(v) == 0 < v /\ v < 4096

read_error(r) ==
  {s \in Sensors : CASE s = "DHT11" -> ~DhtValid(r)
                     [] s = "FC37"  -> ~AdcValid(r.rain)
                     [] s = "MQ135" -> ~AdcValid(r.co2)
                     [] s = "MQ7"   -> ~AdcValid(r.co)}

(* The decision: a failed sensor never raises the fan.                     *)
AutoCmd(r) ==
  LET ok(s) == s \notin read_error(r)
  IN  IF \/ ok("MQ135") /\ r.co2 > CO2_SAFE_THRESHOLD
         \/ ok("MQ7") /\ r.co > CO_SAFE_THRESHOLD        THEN APPLAY_VAL_HI
      ELSE IF ok("DHT11") /\ r.humidity > 60             THEN APPLAY_VAL_MID
      ELSE IF ok("FC37") /\ r.rain_status = 0            THEN APPLAY_VAL_LOW
      ELSE APPLAY_VAL_OFF
=============================================================================
