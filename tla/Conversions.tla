---------------------------- MODULE Conversions ----------------------------
(***************************************************************************)
(* The pure helpers of WyzeAPI that turn what the services report into     *)
(* what an accessory shows.  A property that may be undefined is a key     *)
(* that may be missing.                                                    *)
(***************************************************************************)
EXTENDS Integers

Has(obj, key) == key \in DOMAIN obj

\* Math.round(num / den) for den > 0
Round(num, den) == (2 * num + den) \div (2 * den)

-----------------------------------------------------------------------------
(* Device state *)

getDeviceState(params) ==
  IF Has(params, "power_switch")
  THEN IF params["power_switch"] = 1 THEN "on" ELSE "off"
  ELSE IF Has(params, "open_close_state")
       THEN IF params["open_close_state"] = 1 THEN "open" ELSE "closed"
       ELSE ""

getLockDoorState(state) == IF state >= 2 THEN 1 ELSE state
getLeakSensorState(state) == IF state >= 2 THEN 1 ELSE state
getLockState(state) == IF state = 2 THEN 0 ELSE 1

\* The battery of a device, as a set that is empty when it is not reported
checkBatteryVoltage(value) ==
  IF value = {} THEN 1
  ELSE LET x == CHOOSE x \in value : TRUE
       IN IF x >= 100 THEN 100 ELSE x

checkLowBattery(value, lowBatteryPercentage) ==
  IF checkBatteryVoltage(value) <= lowBatteryPercentage THEN 1 ELSE 0

\* The first of the fields that is there decides.
cameraIsOnline(device) ==
  IF Has(device, "conn_state") THEN device["conn_state"] = 1
  ELSE IF Has(device, "status") THEN device["status"] = 1
       ELSE Has(device, "is_online") /\ device["is_online"] # 0

-----------------------------------------------------------------------------
(* Ranges and units *)

Abs(n) == IF n < 0 THEN -n ELSE n

\* What num / den may become in the floating-point format fp, whose numbers
\* are counted in units of 1 / fp.unit and whose operations err by at most
\* one part in fp.precision.  JavaScript has unit 2^1074 and precision 2^53.
Floats(num, den, fp) == {x \in Int : fp.precision * Abs(x * den - num) <= Abs(num)}

rangeToFloat(value, min, max, fp) == Floats(fp.unit * (value - min), max - min, fp)

\* The product, the sum and the rounding to an integer
floatToRange(f, min, max, fp) ==
  {Round(sum, fp.unit) :
     sum \in UNION {Floats(product + fp.unit * min, 1, fp) :
                      product \in Floats(f * (max - min), 1, fp)}}

\* The quotient is a half or too far from one for its error to matter.
kelvinToMired(value) == Round(1000000, value)

WyzeColorTemp == 2700..6500      \* wyzeColorProperty
HomeKitColorTemp == 140..500     \* homeKitColorProperty

checkColorTemp(color) == IF color >= 500 THEN color ELSE 500

clamp(number, min, max) ==
  LET low == IF number <= max THEN number ELSE max
  IN IF min >= low THEN min ELSE low

-----------------------------------------------------------------------------
(* Vacuum modes *)

\* VacuumModeCodes, in the order in which parseVacuumMode() tries them
ModeNames ==
  <<"IDLE", "CLEANING", "PAUSED", "RETURNING_TO_CHARGE", "PAUSE",
    "FINISHED_RETURNING_TO_CHARGE", "DOCKED_NOT_COMPLETE",
    "FULL_FINISH_SWEEPING_ON_WAY_CHARGE", "SWEEPING", "BREAK_POINT",
    "QUICK_MAPPING_MAPPING", "QUICK_MAPPING_PAUSED",
    "QUICK_MAPPING_COMPLETED_RETURNING_TO_CHARGE",
    "QUICK_MAPPING_DOCKED_NOT_COMPLETE">>

VacuumModeCodes ==
  <<{0, 14, 29, 35, 40}, {1, 30, 1101, 1201, 1301, 1401},
    {4, 31, 1102, 1202, 1302, 1402}, {5}, {9, 27, 37},
    {10, 32, 1103, 1203, 1303, 1403}, {11, 33, 1104, 1204, 1304, 1404},
    {12, 26, 38}, {7, 25, 36}, {39}, {45}, {46}, {47}, {48}>>

Match(code) == {i \in 1..14 : code \in VacuumModeCodes[i]}

parseVacuumMode(code) ==
  IF Match(code) = {} THEN "null"
  ELSE ModeNames[CHOOSE i \in Match(code) : \A j \in Match(code) : i <= j]

\* info is the result of getVacuumInfo(), with the keys that could be had.
vacuumGetMode(info) == IF Has(info, "mode") THEN parseVacuumMode(info["mode"]) ELSE "null"
vacuumIsCharging(info) == Has(info, "chargeState") /\ info["chargeState"] # 0
vacuumIsCleaning(info) == vacuumGetMode(info) = "CLEANING"
vacuumIsDocked(info) == vacuumGetMode(info) = "IDLE" \/ vacuumIsCharging(info)
=============================================================================
