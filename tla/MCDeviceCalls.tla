--------------------------- MODULE MCDeviceCalls ---------------------------
(***************************************************************************)
(* DeviceCalls with programs of module Commands: one method for each shape *)
(* of program and each piece of the home that matters.                     *)
(***************************************************************************)
EXTENDS DeviceCalls, Commands

MCPrograms ==
  [getVacuumInfo |-> getVacuumInfo,
   garageDoor |-> CameraActions.garageDoor,
   off |-> setHMSState.off, away |-> setHMSState.away, other |-> setHMSState.other,
   irrigationQuickRun |-> IrrigationCommands.irrigationQuickRun,
   irrigationGetZones |-> IrrigationReads.irrigationGetZones,
   localBulbCommand |-> localBulbCommand]

MCNames == DOMAIN MCPrograms

\* A program without the properties that it sets.
Shape(program) == [i \in DOMAIN program |-> [program[i] EXCEPT !.sets = Nothing]]

\* Every method of the library has the shape of one of those above.
ASSUME ShapesCovered ==
  {Shape(Methods[n]) : n \in DOMAIN Methods} = {Shape(MCPrograms[n]) : n \in MCNames}

Alarms == {"off", "away", "other", "garageDoor"}
Devices == MCNames \ {"off", "away", "other", "getVacuumInfo"}

\* All work on the alarm system, or all on other devices, or one of them reads
\* the vacuum; the door, which every request moves, is in both of the former.
MCTeams ==
  {[c \in Callers |-> Alarms], [c \in Callers |-> Devices]}
    \cup {[c \in Callers |-> IF c = reader THEN {"getVacuumInfo"} ELSE {}] :
            reader \in Callers}

\* The bulb and the water valve need not be remembered.
MCProps == {"profile", "alarm", "garage"}

CallerSymmetry == Permutations(Callers)
=============================================================================
