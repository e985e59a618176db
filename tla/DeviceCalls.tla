---------------------------- MODULE DeviceCalls ----------------------------
(***************************************************************************)
(* Device methods in execution: several callers, each running the requests *)
(* of one method at a time, services that act and answer, refuse, or are   *)
(* cut off, and a home that changes meanwhile.                             *)
(*                                                                         *)
(* A step of a call is what the method does up to its next wait.  Tokens   *)
(* and logins are in module TokenSession; here a login that fails is one   *)
(* of the ways a request can break before it reaches its service.          *)
(***************************************************************************)
EXTENDS Naturals, Sequences

CONSTANTS
  Callers,     \* tasks of the program that uses the library
  Names,       \* the methods of the library
  Teams,       \* which methods each caller may call, in each scenario
  Programs,    \* the requests of each method: see module Commands
  Props,       \* the properties of the home that the requests set
  MaxAlarms,   \* bound: alarms that go off
  MaxMoves     \* bound: changes of the robot's state

ASSUME CallsAssumption ==
  /\ Teams \subseteq [Callers -> SUBSET Names]
  /\ \A n \in Names :
       /\ Len(Programs[n]) \in Nat
       /\ \A i \in 1..Len(Programs[n]) :
            Programs[n][i].safe => Programs[n][i].via # "cloud"
  /\ MaxAlarms \in Nat /\ MaxMoves \in Nat

\* Only disableRemeAlarm() touches the alarm that rings; setHMSState("off")
\* begins with it.
ASSUME AlarmAssumption ==
  /\ \A n \in Names : \A i \in 1..Len(Programs[n]) :
       "alarm" \in DOMAIN Programs[n][i].sets => Programs[n][i].sets["alarm"] = 0
  /\ "off" \in Names =>
       /\ "alarm" \in Props /\ Len(Programs["off"]) > 0
       /\ "alarm" \in DOMAIN Programs["off"][1].sets

\* The fields of getVacuumInfo()'s result, and which are read after which.
Fields == {"mode", "fault", "settings", "position", "map"}
FieldOrder == {<<"mode", "fault">>, <<"fault", "position">>, <<"position", "map">>}

\* After the device list getVacuumInfo() only makes requests under safe(), one
\* or more for every field.
ASSUME InfoAssumption ==
  "getVacuumInfo" \in Names =>
    LET p == Programs["getVacuumInfo"]
    IN /\ \A i \in 2..Len(p) : p[i].safe /\ p[i].via = "signed" /\ p[i].logs = "never"
       /\ \A f \in Fields : \E i \in 1..Len(p) : f \in p[i].gives
       /\ \A e \in FieldOrder : \A i, j \in 1..Len(p) :
            e[1] \in p[i].gives /\ e[2] \in p[j].gives => i <= j

VARIABLES
  calls,       \* the call of each caller
  home,        \* the properties of the home
  alarms,      \* alarms that have gone off; home.alarm is the one that rings
  robot,       \* how often the robot's state has changed
  logging,     \* apiLogEnabled
  calling      \* the scenario

given == <<logging, calling>>
vars == <<calls, home, alarms, robot, given>>

Absent == MaxMoves + 1

Record ==
  [name  : Names,
   st    : {"waiting", "served", "returned", "failed"},
   at    : Nat,                     \* the request of the program
   sends : 1..2,                    \* how often it was sent
   took  : Nat,                     \* requests of the call that services acted on
   ok    : BOOLEAN,                 \* every answer so far was a good one
   heard : BOOLEAN,                 \* ... the one to this request has arrived
   found : BOOLEAN,                 \* the device is on the account
   began : [alarms : Nat, robot : Nat],
   value : 0..MaxMoves,             \* the robot as the service saw it
   info  : [Fields -> 0..Absent]]

Idle == [st |-> "idle"]
Busy(r) == r.st \in {"waiting", "served"}

Program(r) == Programs[r.name]
Current(r) == Program(r)[r.at]

-----------------------------------------------------------------------------
(* What a method does up to its next wait *)

Return(r) == [r EXCEPT !.st = "returned"]
Throw(r) == [r EXCEPT !.st = "failed"]

Advance(r) ==
  IF r.at = Len(Program(r)) THEN Return(r)
  ELSE [r EXCEPT !.st = "waiting", !.at = @ + 1, !.sends = 1, !.heard = FALSE,
                 !.value = 0]

\* Mutant: a request that breaks is sent again.
Missed_Resend(r) ==
  IF r.sends = 1 THEN [r EXCEPT !.st = "waiting", !.sends = 2] ELSE Throw(r)

\* The request ends in an error, which only safe() keeps from the caller.
Missed(r) ==
  IF Current(r).safe THEN Advance([r EXCEPT !.ok = FALSE]) ELSE Throw(r)

\* An answer that request() has not thrown for.  this.log is not a function:
\* with apiLogEnabled the irrigation methods throw instead of logging it.
Answered(r) ==
  IF logging /\ Current(r).logs = "after" THEN Throw(r) ELSE Advance(r)

\* Object.assign(result, ...) with what the request supplies
Merged(r) ==
  [f \in Fields |-> IF f \in Current(r).gives THEN r.value ELSE r.info[f]]

Step(c, r) == calls' = [calls EXCEPT ![c] = r]

-----------------------------------------------------------------------------
Init ==
  /\ calls = [c \in Callers |-> Idle]
  /\ home = [p \in Props |-> IF p = "profile" THEN <<0, 1>> ELSE 0]
  /\ alarms = 0 /\ robot = 0
  /\ logging \in BOOLEAN /\ calling \in Teams

Started(n) ==
  [name |-> n, st |-> IF Len(Programs[n]) = 0 THEN "returned" ELSE "waiting",
   at |-> IF Len(Programs[n]) = 0 THEN 0 ELSE 1, sends |-> 1, took |-> 0,
   ok |-> TRUE, heard |-> FALSE, found |-> TRUE,
   began |-> [alarms |-> alarms, robot |-> robot], value |-> 0,
   info |-> [f \in Fields |-> Absent]]

\* Mutant: the merged result lives on the instance, not in the call.
Call_SharedResult(c) ==
  /\ ~Busy(calls[c])
  /\ \E n \in calling[c] :
       Step(c, [Started(n) EXCEPT
                  !.info = IF calls[c].st = "idle" THEN @ ELSE calls[c].info])
  /\ UNCHANGED <<home, alarms, robot, given>>

\* Mutant: a call joins another one of the same method that is under way.
Call_Joins(c) ==
  /\ ~Busy(calls[c])
  /\ \E n \in calling[c] :
       \/ Step(c, Started(n))
       \/ \E d \in Callers : /\ Busy(calls[d]) /\ calls[d].name = n
                              /\ Step(c, [calls[d] EXCEPT !.began = Started(n).began])
  /\ UNCHANGED <<home, alarms, robot, given>>

Call(c) ==
  /\ ~Busy(calls[c])
  /\ \E n \in calling[c] : Step(c, Started(n))
  /\ UNCHANGED <<home, alarms, robot, given>>

\* The service acts on the request (external).
Sent(r) == r.st = "waiting" /\ ~(logging /\ Current(r).logs = "before")

Serve(c) ==
  LET r == calls[c]
      sets == Current(r).sets
  IN /\ Busy(r) /\ Sent(r)
     /\ Step(c, [r EXCEPT !.st = "served", !.took = @ + 1,
                         !.value = IF Current(r).gives = {} THEN 0 ELSE robot])
     /\ home' = [p \in Props |-> CASE p \notin DOMAIN sets -> home[p]
                                   [] p \in DOMAIN sets /\ p = "garage" -> 1 - home[p]
                                   [] OTHER -> sets[p]]
     /\ UNCHANGED <<alarms, robot, given>>

\* Its good answer arrives; getVacuumInfo() may find that there is no vacuum.
Answer(c) ==
  LET r == [calls[c] EXCEPT !.heard = TRUE]
  IN /\ calls[c].st = "served"
     /\ \/ Step(c, Answered([r EXCEPT !.info = Merged(r)]))
        \/ Current(r).finds /\ Step(c, Return([r EXCEPT !.found = FALSE]))
     /\ UNCHANGED <<home, alarms, robot, given>>

\* Mutant: request() retries as long as it is refused.
Refuse_Forever(c) ==
  LET r == calls[c]
  IN /\ Busy(r) /\ Sent(r)
     /\ Current(r).via = "cloud" /\ Step(c, [r EXCEPT !.sends = @ + 1])
     /\ UNCHANGED <<home, alarms, robot, given>>

\* The service answers with an error code and does nothing.  request() throws,
\* or sends the request a second time after a rate limit or a token error; the
\* other methods return what they were told.
Refuse(c) ==
  LET r == calls[c]
  IN /\ Busy(r) /\ Sent(r)
     /\ \/ Current(r).via = "cloud" /\ r.sends = 1 /\ Step(c, [r EXCEPT !.sends = 2])
        \/ Current(r).via = "cloud" /\ Step(c, Throw(r))
        \/ Current(r).via # "cloud" /\ Step(c, Answered([r EXCEPT !.ok = FALSE]))
     /\ UNCHANGED <<home, alarms, robot, given>>

\* No answer, an HTTP error, or a login that fails.  localBulbCommand() only
\* logs a bulb that it cannot reach; for an HTTP error it calls a function
\* runActionList that does not exist.
Break(c) ==
  LET r == calls[c]
  IN /\ Busy(r) /\ (r.st = "served" \/ Sent(r))
     /\ \/ Current(r).via # "bulb" /\ Step(c, Missed(r))
        \/ Current(r).via = "bulb" /\ Step(c, Throw(r))
        \/ Current(r).via = "bulb" /\ Step(c, Advance([r EXCEPT !.ok = FALSE]))
     /\ UNCHANGED <<home, alarms, robot, given>>

\* The irrigation reads log their URL first, after the login.
LogThrows(c) ==
  /\ calls[c].st = "waiting" /\ ~Sent(calls[c])
  /\ Step(c, Throw(calls[c]))
  /\ UNCHANGED <<home, alarms, robot, given>>

\* The home (external): an armed system goes off, the robot moves on.
AlarmGoesOff ==
  /\ "alarm" \in Props /\ home["profile"] # <<0, 0>> /\ alarms < MaxAlarms
  /\ alarms' = alarms + 1
  /\ home' = [home EXCEPT !["alarm"] = alarms']
  /\ UNCHANGED <<calls, robot, given>>

RobotMoves ==
  /\ robot < MaxMoves
  /\ robot' = robot + 1
  /\ UNCHANGED <<calls, home, alarms, given>>

Next ==
  \/ AlarmGoesOff \/ RobotMoves
  \/ \E c \in Callers : Call(c) \/ Serve(c) \/ Answer(c) \/ Refuse(c)
                        \/ Break(c) \/ LogThrows(c)

Spec == Init /\ [][Next]_vars

-----------------------------------------------------------------------------
(* Properties *)

\* Type invariant; in particular request() never sends a third time.
TypeOK ==
  /\ calls \in [Callers -> Record \cup {Idle}]
  /\ alarms \in 0..MaxAlarms /\ robot \in 0..MaxMoves
  /\ logging \in BOOLEAN /\ calling \in Teams

\* A command takes effect at most once per request, whatever is refused,
\* retried or lost on the way (garageDoor() would move the door back), and it
\* has taken effect when the call returns with good answers.  request() returns
\* with nothing else.  A call that has the answer in hand fails only in the
\* logging of the irrigation methods.
HonestCommands ==
  \A c \in Callers : calls[c] # Idle =>
    LET r == calls[c]
        p == Program(r)
    IN /\ r.took <= Len(p)
       /\ r.st = "returned" /\ r.ok /\ r.found => r.took = Len(p)
       /\ r.st = "returned" /\ (\A i \in 1..Len(p) : p[i].via = "cloud") => r.ok
       /\ r.st = "failed" /\ r.heard => logging /\ Current(r).logs = "after"

\* setHMSState("off") with good answers has silenced whatever rang when it was
\* called.  An alarm that rings afterwards went off after the call had begun:
\* before the second request disarmed the system, or later.
OffSilences ==
  \A c \in Callers :
    calls[c].st = "returned" /\ calls[c].name = "off" /\ calls[c].ok =>
      home["alarm"] = 0 \/ home["alarm"] > calls[c].began.alarms

\* getVacuumInfo() fails only when the device list does; a piece that cannot
\* be had is left out, and every field that is there was read during this
\* call, later fields from later states: the fault code is never older than
\* the mode beside it.
InfoOfThisCall ==
  \A c \in Callers : calls[c] # Idle /\ calls[c].name = "getVacuumInfo" =>
    LET r == calls[c]
        Has(f) == r.info[f] # Absent
    IN /\ r.st = "failed" => r.at = 1
       /\ r.st = "returned" /\ r.found /\ r.ok => \A f \in Fields : Has(f)
       /\ \A f \in Fields : Has(f) => r.began.robot <= r.info[f] /\ r.info[f] <= robot
       /\ \A e \in FieldOrder :
            Has(e[1]) /\ Has(e[2]) => r.info[e[1]] <= r.info[e[2]]

\* A call fails only if its request did: turning on apiLogEnabled, which
\* wiki/Troubleshooting.md recommends for "request/response bodies for
\* debugging", changes what is logged and not what the caller is told.
AnswersReachCaller ==
  \A c \in Callers : calls[c].st = "failed" => ~calls[c].heard
=============================================================================
