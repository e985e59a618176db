------------------------------ MODULE Commands ------------------------------
(***************************************************************************)
(* The device methods of WyzeAPI as programs: the requests that a method   *)
(* makes, in order, each with the way it travels and what it sets.  How a  *)
(* request is carried out, answered or lost is in module DeviceCalls.      *)
(***************************************************************************)
EXTENDS Naturals, Sequences, TLC

CONSTANT Value \* the value given to a method that takes one

Nothing == <<>>   \* a request that sets no property

\* A request.
\*   via    "cloud": request(), which checks the answer and retries once;
\*          "signed": built, signed and sent by the method, whose caller gets
\*          whatever the service answers; "bulb": to the bulb itself
\*   sets   the properties it sets, with their values
\*   gives  the fields of getVacuumInfo()'s result that it supplies
\*   safe   an error is logged and the method goes on
\*   finds  the method ends here when the device is not in the answer
\*   logs   when apiLogEnabled calls this.log as a function, which it is not:
\*          "before" the request, "after" its answer, or "never"
Ask(via, sets) ==
  [via |-> via, sets |-> sets, gives |-> {}, safe |-> FALSE, finds |-> FALSE,
   logs |-> "never"]

-----------------------------------------------------------------------------
(* How the methods talk to the services *)

setProperty(pid, value) == Ask("cloud", pid :> value)

\* What the service does with the action keys of the library (external).
Triggers ==
  [power_on  |-> "power" :> "on",  siren_on  |-> "siren" :> "on",
   power_off |-> "power" :> "off", siren_off |-> "siren" :> "off",
   garage_door_trigger |-> "garage" :> "toggle"]

runAction(key) ==
  Ask("cloud", IF key \in DOMAIN Triggers THEN Triggers[key] ELSE "action" :> key)

\* Anything but P3 itself also switches the device on.
runActionList(pid, value) ==
  Ask("cloud", IF pid = "P3" THEN pid :> value
               ELSE (pid :> value) @@ ("P3" :> "1"))

setIotProp(key, value) == Ask("signed", key :> value)
thermostatSetIotProp(key, value) == Ask("signed", key :> value)
controlLock(action) == Ask("signed", "lock" :> action)
iot3GetProperties == Ask("signed", Nothing)
iot3RunAction(action) == Ask("signed", "lock" :> action)
disableRemeAlarm == Ask("signed", "alarm" :> 0)
monitoringProfileActive(home, away) == Ask("signed", "profile" :> <<home, away>>)

_venusRequest(sets) == Ask("signed", sets)
vacuumControl(type, value) == _venusRequest("vacuum" :> <<type, value>>)

-----------------------------------------------------------------------------
(* Reading *)

getObjectList == Ask("cloud", Nothing)
getPropertyList == Ask("cloud", Nothing)
getLockInfo == Ask("signed", Nothing)
getIotProp == Ask("signed", Nothing)
getUserProfile == Ask("signed", Nothing)
getPlanBindingListByUser == Ask("signed", Nothing)
monitoringProfileStateStatus == Ask("signed", Nothing)
thermostatGetIotProp == Ask("signed", Nothing)

IrrigationRead == [Ask("signed", Nothing) EXCEPT !.logs = "before"]
IrrigationReads ==
  [irrigationGetIotProp |-> <<IrrigationRead>>,
   irrigationGetDeviceInfo |-> <<IrrigationRead>>,
   irrigationGetZones |-> <<IrrigationRead>>]
IrrigationRuns == [irrigationGetScheduleRuns |-> <<IrrigationRead>>]

\* Every lookup fetches the whole list anew.
Lookups ==
  [n \in {"getDeviceList", "getDeviceByName", "getDeviceByMac", "getDevicesByType",
          "getDevicesByModel", "getDeviceGroupsList", "getDeviceSortList"}
     |-> <<getObjectList>>]
  @@ [getDevicePID |-> <<getPropertyList>>]

getDeviceStatePID == <<getPropertyList>>

CameraLookups ==
  [n \in {"getCameras", "getOnlineCameras", "getCamera", "getCameraSnapshot",
          "getCameraSnapshotUrl", "getCameraSummaries"} |-> <<getObjectList>>]
OtherCameraLookups ==
  [n \in {"getCameraByName", "getOfflineCameras"} |-> <<getObjectList>>]

VacuumLookups ==
  [n \in {"getVacuumDeviceList", "getVacuum"} |-> <<getObjectList>>]

VacuumReads ==
  [n \in {"getVacuumIotProp", "getVacuumDeviceInfo", "getVacuumStatus",
          "getVacuumCurrentPosition", "getVacuumCurrentMap", "getVacuumMaps"}
     |-> <<_venusRequest(Nothing)>>]

SafeRead(fields) == [_venusRequest(Nothing) EXCEPT !.safe = TRUE, !.gives = fields]

\* The event flags of the status overwrite the fault code of the properties.
getVacuumInfo ==
  <<[getObjectList EXCEPT !.finds = TRUE], SafeRead({"mode", "fault"}),
    SafeRead({"settings"}), SafeRead({"fault"}),
    SafeRead({"position"}), SafeRead({"map"})>>

LockReads ==
  [lockInfo |-> <<getLockInfo>>, lockBoltV2GetProperties |-> <<iot3GetProperties>>,
   palmLockGetProperties |-> <<iot3GetProperties>>]

HmsReads == [getHmsID |-> <<getPlanBindingListByUser>>,
             getHmsUpdate |-> <<monitoringProfileStateStatus>>]

-----------------------------------------------------------------------------
(* Commands *)

CameraActions ==
  [cameraPrivacy |-> <<runAction(Value)>>, cameraSiren |-> <<runAction(Value)>>,
   cameraTurnOn |-> <<runAction("power_on")>>, cameraTurnOff |-> <<runAction("power_off")>>,
   garageDoor |-> <<runAction("garage_door_trigger")>>,
   cameraSirenOn |-> <<runAction("siren_on")>>, cameraSirenOff |-> <<runAction("siren_off")>>]

CameraLights ==
  [cameraFloodLight |-> <<setProperty("P1056", Value)>>,
   cameraFloodLightOn |-> <<setProperty("P1056", "1")>>,
   cameraFloodLightOff |-> <<setProperty("P1056", "2")>>,
   cameraSpotLight |-> <<setProperty("P1056", Value)>>,
   cameraSpotLightOn |-> <<setProperty("P1056", "1")>>,
   cameraSpotLightOff |-> <<setProperty("P1056", "2")>>]

CameraSettings ==
  [cameraMotionOn |-> <<setProperty("P1001", 1)>>,
   cameraMotionOff |-> <<setProperty("P1001", 0)>>,
   cameraSoundNotificationOn |-> <<setProperty("P1048", "1")>>,
   cameraSoundNotificationOff |-> <<setProperty("P1048", "0")>>,
   cameraNotifications |-> <<setProperty("P1", Value)>>,
   cameraNotificationsOn |-> <<setProperty("P1", "1")>>,
   cameraNotificationsOff |-> <<setProperty("P1", "0")>>,
   cameraMotionRecording |-> <<setProperty("P1047", Value)>>,
   cameraMotionRecordingOn |-> <<setProperty("P1047", "1")>>,
   cameraMotionRecordingOff |-> <<setProperty("P1047", "0")>>]

PlugsAndLights ==
  [plugPower |-> <<setProperty("P3", Value)>>, plugTurnOn |-> <<setProperty("P3", "1")>>,
   plugTurnOff |-> <<setProperty("P3", "0")>>,
   lightPower |-> <<setProperty("P3", Value)>>, lightTurnOn |-> <<setProperty("P3", "1")>>,
   lightTurnOff |-> <<setProperty("P3", "0")>>,
   setBrightness |-> <<setProperty("P1501", Value)>>,
   setColorTemperature |-> <<setProperty("P1502", Value)>>]

MeshPower == [turnMeshOn |-> <<runActionList("P3", "1")>>,
              turnMeshOff |-> <<runActionList("P3", "0")>>]

MeshLights ==
  [lightMeshPower |-> <<runActionList("P3", Value)>>,
   lightMeshOn |-> <<runActionList("P3", "1")>>,
   lightMeshOff |-> <<runActionList("P3", "0")>>,
   setMeshBrightness |-> <<runActionList("P1501", Value)>>,
   setMeshColorTemperature |-> <<runActionList("P1502", Value)>>,
   setMeshHue |-> <<runActionList("P1507", Value)>>,
   setMeshSaturation |-> <<runActionList("P1507", Value)>>]

WallSwitches ==
  [wallSwitchPower |-> <<setIotProp("switch-power", Value)>>,
   wallSwitchPowerOn |-> <<setIotProp("switch-power", TRUE)>>,
   wallSwitchPowerOff |-> <<setIotProp("switch-power", FALSE)>>,
   wallSwitchIot |-> <<setIotProp("switch-iot", Value)>>,
   wallSwitchIotOn |-> <<setIotProp("switch-iot", TRUE)>>,
   wallSwitchIotOff |-> <<setIotProp("switch-iot", FALSE)>>,
   wallSwitchLedStateOn |-> <<setIotProp("led_state", TRUE)>>,
   wallSwitchLedStateOff |-> <<setIotProp("led_state", FALSE)>>,
   wallSwitchVacationModeOn |-> <<setIotProp("vacation_mode", 0)>>,
   wallSwitchVacationModeOff |-> <<setIotProp("vacation_mode", 1)>>]

Locks ==
  [unlockLock |-> <<controlLock("remoteUnlock")>>, lockLock |-> <<controlLock("remoteLock")>>]
IoT3Locks ==
  [lockBoltV2Lock |-> <<iot3RunAction("lock::lock")>>,
   lockBoltV2Unlock |-> <<iot3RunAction("lock::unlock")>>]

\* irrigationQuickRun() and irrigationStop()
IrrigationCommand(water) == [Ask("signed", "water" :> water) EXCEPT !.logs = "after"]
IrrigationCommands == [irrigationQuickRun |-> <<IrrigationCommand("on")>>,
                       irrigationStop |-> <<IrrigationCommand("off")>>]

\* VacuumControlType and VacuumControlValue of src/types.js
VacuumControlType == [GLOBAL_SWEEPING |-> 0, RETURN_TO_CHARGING |-> 3]
VacuumControlValue == [STOP |-> 0, START |-> 1, PAUSE |-> 2]

Sweep(value) == <<vacuumControl(VacuumControlType.GLOBAL_SWEEPING, VacuumControlValue[value])>>
Dock(value) == <<vacuumControl(VacuumControlType.RETURN_TO_CHARGING, VacuumControlValue[value])>>

VacuumCommands ==
  [vacuumClean |-> Sweep("START"), vacuumPause |-> Sweep("PAUSE"),
   vacuumDock |-> Dock("START"), vacuumStop |-> Dock("STOP"), vacuumCancel |-> Dock("STOP"),
   vacuumSweepRooms |-> Sweep("START"),
   vacuumSetSuctionLevel |-> <<_venusRequest("suction" :> Value)>>]

VacuumSuctionLevel == [vacuumQuiet |-> 1, vacuumStandard |-> 2, vacuumStrong |-> 3]
VacuumShortcuts ==
  [vacuumStartCleaning |-> VacuumCommands.vacuumClean,
   vacuumPauseCleaning |-> VacuumCommands.vacuumPause,
   vacuumReturnToDock |-> VacuumCommands.vacuumDock,
   vacuumCleanRooms |-> VacuumCommands.vacuumSweepRooms,
   vacuumInfo |-> getVacuumInfo]
  @@ [n \in DOMAIN VacuumSuctionLevel |->
        <<_venusRequest("suction" :> VacuumSuctionLevel[n])>>]

VacuumRecords ==
  [setVacuumCurrentMap |-> <<_venusRequest("current_mapid" :> Value)>>,
   getVacuumSweepRecords |-> <<_venusRequest(Nothing)>>]

vacuumEventTracking == <<_venusRequest(Nothing)>>

\* localBulbCommand(): no login and no signature
localBulbCommand == <<Ask("bulb", "P3" :> Value)>>

\* setHMSState(): a mode it does not know does nothing
setHMSState ==
  [off  |-> <<disableRemeAlarm, monitoringProfileActive(0, 0)>>,
   away |-> <<monitoringProfileActive(0, 1)>>,
   home |-> <<monitoringProfileActive(1, 0)>>, other |-> <<>>]

-----------------------------------------------------------------------------
\* Every method with its program; the four modes of setHMSState() by name.
Methods ==
  Lookups @@ CameraLookups @@ OtherCameraLookups @@ VacuumLookups @@ VacuumReads
  @@ LockReads @@ HmsReads
  @@ IrrigationReads @@ IrrigationRuns @@ IrrigationCommands
  @@ CameraActions @@ CameraLights @@ CameraSettings @@ PlugsAndLights
  @@ MeshPower @@ MeshLights @@ WallSwitches @@ Locks @@ IoT3Locks
  @@ VacuumCommands @@ VacuumShortcuts @@ VacuumRecords @@ setHMSState
  @@ [getVacuumInfo |-> getVacuumInfo, localBulbCommand |-> localBulbCommand,
      vacuumEventTracking |-> vacuumEventTracking, getDeviceStatePID |-> getDeviceStatePID,
      getIotProp |-> <<getIotProp>>, getUserProfile |-> <<getUserProfile>>,
      thermostatGetIotProp |-> <<thermostatGetIotProp>>,
      thermostatSetIotProp |-> <<thermostatSetIotProp("mode_sys", Value)>>]
=============================================================================
