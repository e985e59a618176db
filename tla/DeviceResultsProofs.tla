------------------------ MODULE DeviceResultsProofs ------------------------
(***************************************************************************)
(* Proofs about DeviceCalls, continued: what setHMSState("off") and        *)
(* getVacuumInfo() have achieved when they return, whatever other callers  *)
(* and the home do in between.                                             *)
(***************************************************************************)
EXTENDS DeviceCallsProofs

-----------------------------------------------------------------------------
(* The steps of a call, by what they leave behind *)

Kin(r, s) == s.name = r.name /\ s.began = r.began

Serves(r, s) ==
  /\ Kin(r, s) /\ r.st = "waiting" /\ s.st = "served" /\ s.at = r.at
  /\ s.took = r.took + 1 /\ s.ok = r.ok /\ s.found = r.found /\ s.info = r.info
  /\ Current(r).gives # {} => s.value = robot

Resends(r, s) ==
  /\ Kin(r, s) /\ r.st = "waiting" /\ s.st = "waiting" /\ s.at = r.at
  /\ s.took = r.took /\ s.ok = r.ok /\ s.found = r.found /\ s.info = r.info

\* The request is over: what the call knows afterwards.
Learns(r, s) ==
  /\ Kin(r, s) /\ s.took = r.took
  /\ \/ s.info = r.info
     \/ r.st = "served" /\ s.info = Merged(r)

\* Nothing keeps the error of a request from the caller.
Exposed(q) == ~(q.safe /\ q.via = "signed" /\ q.logs = "never")

Fails(r, s) ==
  /\ Learns(r, s) /\ s.st = "failed" /\ s.at = r.at /\ (s.ok => r.ok)
  /\ Exposed(Current(r))

Passes(r, s) ==
  /\ Learns(r, s) /\ s.found = r.found
  /\ s.ok => r.ok /\ r.st = "served" /\ s.info = Merged(r)
  /\ IF r.at = Len(Program(r)) THEN s.st = "returned" /\ s.at = r.at
     ELSE s.st = "waiting" /\ s.at = r.at + 1

GivesUp(r, s) ==
  /\ Kin(r, s) /\ r.st = "served" /\ s.st = "returned" /\ s.at = r.at
  /\ s.took = r.took /\ s.ok = r.ok /\ ~s.found /\ s.info = r.info

Moves(r, s) ==
  Resends(r, s) \/ Fails(r, s) \/ Passes(r, s) \/ GivesUp(r, s)

LEMMA ThrowFields ==
  ASSUME NEW r \in Record
  PROVE  LET s == Throw(r)
         IN /\ Kin(r, s) /\ s.st = "failed" /\ s.at = r.at /\ s.took = r.took
            /\ s.ok = r.ok /\ s.info = r.info
  BY DEF Throw, Record, Kin

LEMMA AdvanceFields ==
  ASSUME NEW r \in Record
  PROVE  LET s == Advance(r)
         IN /\ Kin(r, s) /\ s.took = r.took /\ s.ok = r.ok /\ s.found = r.found
            /\ s.info = r.info
            /\ IF r.at = Len(Program(r)) THEN s.st = "returned" /\ s.at = r.at
               ELSE s.st = "waiting" /\ s.at = r.at + 1
<1>1. CASE r.at = Len(Program(r))
  BY <1>1 DEF Advance, Return, Record, Kin
<1>2. CASE r.at # Len(Program(r))
  BY <1>2 DEF Advance, Record, Kin
<1> QED BY <1>1, <1>2

\* A request without a good answer, over and done with.
LEMMA NotOkMoves ==
  ASSUME NEW r \in Record
  PROVE  LET s == [r EXCEPT !.ok = FALSE]
         IN /\ Passes(r, Advance(s))
            /\ Exposed(Current(r)) => Fails(r, Throw(s))
            /\ Current(s) = Current(r)
<1> DEFINE s == [r EXCEPT !.ok = FALSE]
<1>1. s \in Record
  BY Zenon DEF Record
<1>2. /\ s.name = r.name /\ s.began = r.began /\ s.at = r.at /\ s.took = r.took
      /\ s.found = r.found /\ s.info = r.info /\ s.ok = FALSE
  BY DEF Record
<1> HIDE DEF s
<1>3. Program(s) = Program(r) /\ Current(s) = Current(r)
  BY <1>2 DEF Program, Current
<1>4. Passes(r, Advance(s))
  BY <1>1, <1>2, <1>3, AdvanceFields DEF Passes, Learns, Kin
<1>5. Exposed(Current(r)) => Fails(r, Throw(s))
  BY <1>1, <1>2, <1>3, ThrowFields DEF Fails, Learns, Kin
<1> QED BY <1>3, <1>4, <1>5 DEF s

LEMMA MissedMoves ==
  ASSUME NEW r \in Record
  PROVE  Moves(r, Missed(r))
<1>1. CASE Current(r).safe
  BY <1>1, NotOkMoves DEF Missed, Moves
<1>2. CASE ~Current(r).safe
  BY <1>2, ThrowFields DEF Missed, Moves, Fails, Learns, Exposed
<1> QED BY <1>1, <1>2

LEMMA AnswerMoves ==
  ASSUME NEW q \in Record, q.st = "served", NEW c, Answer(c), calls[c] = q,
         q.value \in 0..Absent
  PROVE  \E s : Moves(q, s) /\ Step(c, s)
<1> DEFINE r == [q EXCEPT !.heard = TRUE]
           s == [r EXCEPT !.info = Merged(r)]
           t == [r EXCEPT !.found = FALSE]
<1>1. r \in Record
  BY ZenonT(60) DEF Record
<1>2. /\ r.name = q.name /\ r.at = q.at /\ r.took = q.took /\ r.ok = q.ok
      /\ r.found = q.found /\ r.began = q.began /\ r.info = q.info /\ r.value = q.value
  BY DEF Record
<1>3. Step(c, Answered(s)) \/ Step(c, Return(t))
  BY DEF Answer
<1> HIDE DEF r
<1>4. Program(r) = Program(q) /\ Current(r) = Current(q)
  BY <1>2 DEF Program, Current
<1>5. Merged(r) = Merged(q)
  BY <1>2, <1>4 DEF Merged
<1>6. Merged(r) \in [Fields -> 0..Absent]
  <2>1. r.info \in [Fields -> 0..Absent]
    BY <1>1 DEF Record
  <2> QED BY <1>2, <2>1 DEF Merged
<1>7. s \in Record
  BY <1>1, <1>6 DEF Record
<1>8. /\ s.name = q.name /\ s.at = q.at /\ s.took = q.took /\ s.ok = q.ok
      /\ s.found = q.found /\ s.began = q.began /\ s.info = Merged(q)
  BY <1>1, <1>2, <1>5 DEF Record
<1>9. Moves(q, Return(t))
  <2>1. /\ Return(t).st = "returned" /\ Return(t).name = q.name /\ Return(t).at = q.at
        /\ Return(t).took = q.took /\ Return(t).ok = q.ok /\ Return(t).found = FALSE
        /\ Return(t).began = q.began /\ Return(t).info = q.info
    BY <1>1, <1>2 DEF Return, Record
  <2> QED BY <2>1 DEF Moves, GivesUp, Kin
<1> HIDE DEF s, t
<1>10. Program(s) = Program(q) /\ Current(s) = Current(q)
  BY <1>8 DEF Program, Current
<1>11. Passes(q, Advance(s))
  BY <1>7, <1>8, <1>10, AdvanceFields DEF Passes, Learns, Kin
<1>12. Current(q).logs = "after" => Fails(q, Throw(s))
  BY <1>7, <1>8, ThrowFields DEF Fails, Learns, Kin, Exposed
<1>13. Moves(q, Answered(s))
  BY <1>10, <1>11, <1>12 DEF Answered, Moves
<1> QED BY <1>3, <1>9, <1>13

\* Whatever becomes of a request, the call moves in one of four ways.
LEMMA CallMoves ==
  ASSUME IInv, NEW c \in Callers, Answer(c) \/ Refuse(c) \/ Break(c) \/ LogThrows(c)
  PROVE  /\ Busy(calls[c]) /\ \E s : Moves(calls[c], s) /\ Step(c, s)
         /\ UNCHANGED <<home, alarms, robot, given>>
<1> DEFINE r == calls[c]
<1>1. Busy(r) /\ UNCHANGED <<home, alarms, robot, given>>
  BY DEF Answer, Refuse, Break, LogThrows, Busy
<1>2. r \in Record
  BY <1>1, BusyGood DEF Good
<1>3. CASE Answer(c)
  <2>1. r.value \in 0..Absent /\ r.st = "served"
    BY <1>2, <1>3, CallsAssumption DEF Record, Absent, Answer
  <2> QED BY <1>1, <1>2, <1>3, <2>1, AnswerMoves
<1>4. CASE Refuse(c)
  <2>0. r.st = "waiting"
    BY <1>4 DEF Refuse, Sent
  <2>1. Moves(r, [r EXCEPT !.sends = 2])
    BY <1>2, <2>0 DEF Moves, Resends, Kin, Record
  <2>2. Current(r).via = "cloud" => Moves(r, Throw(r))
    BY <1>2, ThrowFields DEF Moves, Fails, Learns, Exposed
  <2>3. Moves(r, Answered([r EXCEPT !.ok = FALSE]))
    <3>1. Current(r).logs = "after" => Exposed(Current(r))
      BY DEF Exposed
    <3> QED BY <1>2, <3>1, NotOkMoves DEF Answered, Moves
  <2>4. \/ Step(c, [r EXCEPT !.sends = 2])
        \/ Current(r).via = "cloud" /\ Step(c, Throw(r))
        \/ Step(c, Answered([r EXCEPT !.ok = FALSE]))
    BY <1>4 DEF Refuse
  <2> QED BY <1>1, <2>1, <2>2, <2>3, <2>4
<1>5. CASE Break(c)
  <2>1. Moves(r, Missed(r))
    BY <1>2, MissedMoves
  <2>2. Current(r).via = "bulb" => Moves(r, Throw(r))
    BY <1>2, ThrowFields DEF Moves, Fails, Learns, Exposed
  <2>3. Moves(r, Advance([r EXCEPT !.ok = FALSE]))
    BY <1>2, NotOkMoves DEF Moves
  <2>4. \/ Current(r).via # "bulb" /\ Step(c, Missed(r))
        \/ Current(r).via = "bulb" /\ Step(c, Throw(r))
        \/ Current(r).via = "bulb" /\ Step(c, Advance([r EXCEPT !.ok = FALSE]))
    BY <1>5, Zenon DEF Break
  <2> QED BY <1>1, <2>1, <2>2, <2>3, <2>4
<1>6. CASE LogThrows(c)
  <2>1. Current(r).logs = "before" /\ Step(c, Throw(r))
    BY <1>6 DEF LogThrows, Sent
  <2>2. Moves(r, Throw(r))
    BY <1>2, <2>1, ThrowFields DEF Moves, Fails, Learns, Exposed
  <2> QED BY <1>1, <2>1, <2>2
<1> QED BY <1>3, <1>4, <1>5, <1>6

LEMMA ServeServes ==
  ASSUME IInv, NEW c \in Callers, Serve(c)
  PROVE  \E s : Serves(calls[c], s) /\ Step(c, s)
<1> DEFINE r == calls[c]
           s == [r EXCEPT !.st = "served", !.took = @ + 1,
                          !.value = IF Current(r).gives = {} THEN 0 ELSE robot]
<1>1. Busy(r) /\ r.st = "waiting" /\ Step(c, s)
  BY DEF Serve, Sent
<1>2. r \in Record
  BY <1>1, BusyGood DEF Good
<1>3. Serves(r, s)
  BY <1>1, <1>2 DEF Serves, Kin, Record
<1> QED BY <1>1, <1>3

-----------------------------------------------------------------------------
(* setHMSState("off") and the alarm *)

\* al: alarms that have gone off; rings: the one that rings, or 0
Silenced(r, al, rings) ==
  /\ r.began.alarms <= al
  /\ r.st = "returned" /\ r.ok /\ Len(Program(r)) > 0 => r.took > 0
  /\ r.name = "off" /\ r.ok /\ r.took > 0 => rings = 0 \/ rings > r.began.alarms

AlarmInv ==
  /\ home = [p \in Props |-> home[p]]
  /\ \A c \in Callers : calls[c] # Idle => Silenced(calls[c], alarms, home["alarm"])

\* Only the call of c steps, and no new alarm rings.
LEMMA OneAlarmCall ==
  ASSUME IInv, AlarmInv, NEW c \in Callers, NEW s, Step(c, s), alarms' = alarms,
         home' = [p \in Props |-> home'[p]],
         "alarm" \in Props => home'["alarm"] \in {0, home["alarm"]},
         Silenced(s, alarms, home'["alarm"])
  PROVE  AlarmInv'
<1>1. calls \in [Callers -> Record \cup {Idle}]
  BY DEF IInv, TypeOK
<1>2. ASSUME NEW d \in Callers, calls'[d] # Idle
      PROVE  Silenced(calls'[d], alarms', home'["alarm"])
  <2>1. CASE d = c
    BY <1>1, <2>1 DEF Step
  <2>2. CASE d # c
    <3>1. calls'[d] = calls[d]
      BY <1>1, <2>2 DEF Step
    <3>2. calls[d].name \in Names /\ Silenced(calls[d], alarms, home["alarm"])
      BY <1>1, <1>2, <3>1, NotIdle DEF AlarmInv
    <3>3. calls[d].name = "off" => home'["alarm"] \in {0, home["alarm"]}
      BY <3>2, AlarmAssumption
    <3> QED BY <3>1, <3>2, <3>3 DEF Silenced
  <2> QED BY <2>1, <2>2
<1> QED BY <1>2 DEF AlarmInv

LEMMA StartSilenced ==
  ASSUME IInv, NEW n \in Names, NEW rings
  PROVE  Silenced(Started(n), alarms, rings)
<1> DEFINE s == Started(n)
<1>1. /\ s.name = n /\ s.took = 0 /\ s.began.alarms = alarms
      /\ s.st = (IF Len(Programs[n]) = 0 THEN "returned" ELSE "waiting")
  BY DEF Started
<1>2. alarms \in Nat /\ Len(Programs[n]) \in Nat
  BY CallsAssumption DEF IInv, TypeOK
<1> HIDE DEF s
<1>3. Silenced(s, alarms, rings)
  BY <1>1, <1>2 DEF Silenced, Program
<1> QED BY <1>3 DEF s

\* A busy call that only had good answers has had its first request served.
LEMMA MoveSilenced ==
  ASSUME NEW r, NEW s, Good(r, logging, robot), Busy(r), Moves(r, s),
         Silenced(r, alarms, home["alarm"])
  PROVE  Silenced(s, alarms, home["alarm"])
<1>1. Program(s) = Program(r) /\ s.name = r.name /\ s.began = r.began /\ s.took = r.took
  BY DEF Moves, Resends, Fails, Passes, GivesUp, Learns, Kin, Program
<1>2. s.ok => r.ok
  BY Zenon DEF Moves, Resends, Fails, Passes, GivesUp
<1>3. s.st = "returned" /\ s.ok => r.st = "served"
  BY ZenonT(60) DEF Moves, Resends, Fails, Passes, GivesUp
<1>4. r.st = "served" /\ r.ok => r.took > 0
  BY BusyFacts DEF Good, Counted
<1> QED BY <1>1, <1>2, <1>3, <1>4 DEF Silenced

\* The first request of setHMSState("off") is the one that silences.
LEMMA ServeSilenced ==
  ASSUME IInv, AlarmInv, NEW c \in Callers, Serve(c)
  PROVE  AlarmInv'
<1> DEFINE r == calls[c]
           sets == Current(r).sets
<1>0. PICK s : Serves(r, s) /\ Step(c, s)
  BY ServeServes
<1>1. Busy(r) /\ r.st = "waiting" /\ alarms' = alarms
      /\ home' = [p \in Props |-> CASE p \notin DOMAIN sets -> home[p]
                                   [] p \in DOMAIN sets /\ p = "garage" -> 1 - home[p]
                                   [] OTHER -> sets[p]]
  BY DEF Serve, Sent
<1>2. Good(r, logging, robot) /\ r # Idle
  BY <1>1, BusyGood DEF Busy, Idle
<1>3. r \in Record /\ r.name \in Names /\ r.at \in 1..Len(Program(r)) /\ r.took \in Nat
  BY <1>1, <1>2, BusyFacts, NotIdle
<1>4. "alarm" \in Props =>
        home'["alarm"] = IF "alarm" \in DOMAIN sets THEN sets["alarm"] ELSE home["alarm"]
  BY <1>1
<1>5. "alarm" \in DOMAIN sets => sets["alarm"] = 0
  BY <1>3, AlarmAssumption DEF Current, Program
<1>6. "alarm" \in Props => home'["alarm"] \in {0, home["alarm"]}
  BY <1>4, <1>5
<1>7. home' = [p \in Props |-> home'[p]]
  BY <1>1
<1>8. /\ s.name = r.name /\ s.began = r.began /\ s.ok = r.ok /\ s.st = "served"
      /\ s.took = r.took + 1
  BY <1>0 DEF Serves, Kin
<1>9. Silenced(r, alarms, home["alarm"])
  BY <1>2 DEF AlarmInv
<1>10. ASSUME s.name = "off", s.ok
       PROVE  home'["alarm"] = 0 \/ home'["alarm"] > s.began.alarms
  <2>1. "alarm" \in Props /\ "alarm" \in DOMAIN Programs["off"][1].sets
    BY <1>3, <1>8, <1>10, AlarmAssumption
  <2>2. CASE r.took = 0
    <3>1. r.at = 1
      BY <1>1, <1>2, <1>3, <1>8, <1>10, <2>2 DEF Good, Counted
    <3>2. "alarm" \in DOMAIN sets
      BY <1>8, <1>10, <2>1, <3>1 DEF Current, Program
    <3> QED BY <1>4, <1>5, <2>1, <3>2
  <2>3. CASE r.took > 0
    BY <1>6, <1>8, <1>9, <1>10, <2>1, <2>3 DEF Silenced
  <2> QED BY <1>3, <2>2, <2>3
<1>11. Silenced(s, alarms, home'["alarm"])
  BY <1>8, <1>9, <1>10 DEF Silenced
<1> QED BY <1>0, <1>1, <1>6, <1>7, <1>11, OneAlarmCall

LEMMA AlarmStep == IInv /\ AlarmInv /\ [Next]_vars => AlarmInv'
<1> SUFFICES ASSUME IInv, AlarmInv, [Next]_vars PROVE AlarmInv'
  OBVIOUS
<1>0. /\ calls \in [Callers -> Record \cup {Idle}]
      /\ \A c \in Callers : calls[c] # Idle => Silenced(calls[c], alarms, home["alarm"])
  BY DEF IInv, TypeOK, AlarmInv
<1>1. CASE AlarmGoesOff
  <2>1. /\ calls' = calls /\ alarms' = alarms + 1 /\ alarms \in Nat
        /\ home' = [home EXCEPT !["alarm"] = alarms + 1] /\ "alarm" \in Props
    BY <1>1, CallsAssumption DEF AlarmGoesOff, IInv, TypeOK
  <2>2. home'["alarm"] = alarms + 1 /\ home' = [p \in Props |-> home'[p]]
    BY <2>1 DEF AlarmInv
  <2>3. ASSUME NEW c \in Callers, calls[c] # Idle
        PROVE  Silenced(calls[c], alarms', home'["alarm"])
    <3>1. calls[c].began.alarms \in Nat
      BY <1>0, <2>3 DEF Record
    <3> QED BY <1>0, <2>1, <2>2, <2>3, <3>1 DEF Silenced
  <2> QED BY <2>1, <2>2, <2>3 DEF AlarmInv
<1>2. CASE RobotMoves
  BY <1>2 DEF RobotMoves, AlarmInv
<1>3. CASE UNCHANGED vars
  BY <1>3 DEF vars, AlarmInv
<1>4. ASSUME NEW c \in Callers, Call(c) PROVE AlarmInv'
  <2>1. calling[c] \subseteq Names
    BY CallsAssumption DEF IInv, TypeOK
  <2>2. PICK n \in calling[c] : Step(c, Started(n))
    BY <1>4 DEF Call
  <2>3. alarms' = alarms /\ home' = home
    BY <1>4 DEF Call
  <2>4. Silenced(Started(n), alarms, home'["alarm"])
    BY <2>1, StartSilenced
  <2>5. home' = [p \in Props |-> home'[p]]
    BY <2>3 DEF AlarmInv
  <2> QED BY <2>2, <2>3, <2>4, <2>5, OneAlarmCall
<1>5. ASSUME NEW c \in Callers, Answer(c) \/ Refuse(c) \/ Break(c) \/ LogThrows(c)
      PROVE  AlarmInv'
  <2>1. Busy(calls[c]) /\ alarms' = alarms /\ home' = home
    BY <1>5, CallMoves
  <2>2. PICK s : Moves(calls[c], s) /\ Step(c, s)
    BY <1>5, CallMoves
  <2>3. Good(calls[c], logging, robot) /\ calls[c] # Idle
    BY <2>1, BusyGood DEF Busy, Idle
  <2>4. Silenced(s, alarms, home'["alarm"])
    BY <1>0, <2>1, <2>2, <2>3, MoveSilenced
  <2>5. home' = [p \in Props |-> home'[p]]
    BY <2>1 DEF AlarmInv
  <2> QED BY <2>1, <2>2, <2>4, <2>5, OneAlarmCall
<1> QED BY <1>1, <1>2, <1>3, <1>4, <1>5, ServeSilenced DEF Next

\* When setHMSState("off") has returned with good answers, what rings is
\* nothing or an alarm that went off after the call began: for any other
\* callers, any of whose steps may come in between.
THEOREM OffHasSilenced == Spec => []OffSilences
<1>1. Init => AlarmInv
  BY DEF Init, AlarmInv
<1>2. IInv /\ AlarmInv => OffSilences
  <2> SUFFICES ASSUME IInv, AlarmInv, NEW c \in Callers,
                      calls[c].st = "returned", calls[c].name = "off", calls[c].ok
               PROVE  home["alarm"] = 0 \/ home["alarm"] > calls[c].began.alarms
    BY DEF OffSilences
  <2>1. calls[c] # Idle
    BY DEF Idle
  <2>2. calls[c].name \in Names /\ Silenced(calls[c], alarms, home["alarm"])
    BY <2>1, NotIdle DEF IInv, TypeOK, AlarmInv
  <2>3. Len(Program(calls[c])) > 0
    BY <2>2, AlarmAssumption DEF Program
  <2> QED BY <2>2, <2>3 DEF Silenced
<1> QED BY <1>1, <1>2, AlarmStep, InvHolds, PTL DEF Spec

-----------------------------------------------------------------------------
(* What getVacuumInfo() puts together *)

\* The requests of the call that are over.
Done(r) == IF Busy(r) THEN r.at - 1 ELSE r.at

Had(r, f) == r.info[f] # Absent

\* What is there comes from a request that is over, and in order.
Pieced(r) ==
  /\ \A f \in Fields : Had(r, f) => \E j \in 1..Done(r) : f \in Program(r)[j].gives
  /\ \A e \in FieldOrder : Had(r, e[1]) /\ Had(r, e[2]) => r.info[e[1]] <= r.info[e[2]]

\* With good answers nothing is missing of what the requests give.
Whole(r) ==
  r.ok /\ r.found /\ r.st # "failed" =>
    \A j \in 1..Done(r) : \A f \in Fields : f \in Program(r)[j].gives => Had(r, f)

InfoOK(r) ==
  /\ r.st = "failed" => r.at = 1
  /\ r.st = "returned" /\ r.found => r.at = Len(Program(r))
  /\ Pieced(r) /\ Whole(r)
  /\ r.st = "served" /\ Current(r).gives # {} =>
       \A f \in Fields : Had(r, f) => r.info[f] <= r.value

InfoInv ==
  \A c \in Callers : calls[c] # Idle /\ calls[c].name = "getVacuumInfo" => InfoOK(calls[c])

LEMMA OrderedFields == \A e \in FieldOrder : e[1] \in Fields /\ e[2] \in Fields
  BY DEF FieldOrder, Fields

LEMMA InfoTypes ==
  ASSUME NEW r \in Record
  PROVE  /\ r.at \in Nat /\ r.value \in Nat /\ r.value # Absent
         /\ \A f \in Fields : r.info[f] \in Nat
         /\ Len(Program(r)) \in Nat
  BY CallsAssumption DEF Record, Absent, Program

\* The end of a request, with or without its piece of the result.
LEMMA LearnPieced ==
  ASSUME NEW r, NEW s, Good(r, logging, robot), Busy(r), r.name = "getVacuumInfo",
         InfoOK(r), Learns(r, s), Done(s) = r.at
  PROVE  Pieced(s)
<1>1. r \in Record /\ r.name \in Names /\ r.at \in 1..Len(Program(r))
  BY BusyFacts, NotIdle
<1>2. Program(s) = Program(r)
  BY DEF Learns, Kin, Program
<1>3. Done(r) = r.at - 1
  BY DEF Done
<1>4. /\ r.at \in Nat /\ r.value \in Nat /\ Len(Program(r)) \in Nat
      /\ \A f \in Fields : r.info[f] \in Nat
  BY <1>1, InfoTypes
<1>5. /\ \A f \in Fields : Had(r, f) => \E j \in 1..r.at - 1 : f \in Program(r)[j].gives
      /\ \A e \in FieldOrder : Had(r, e[1]) /\ Had(r, e[2]) => r.info[e[1]] <= r.info[e[2]]
  BY <1>3 DEF InfoOK, Pieced
<1>6. CASE s.info = r.info
  BY <1>2, <1>4, <1>5, <1>6 DEF Pieced, Had
<1>7. CASE r.st = "served" /\ s.info = Merged(r)
  <2>1. \A f \in Fields : s.info[f] = IF f \in Current(r).gives THEN r.value ELSE r.info[f]
    BY <1>7 DEF Merged
  <2>2. ASSUME NEW f \in Fields, Had(s, f)
        PROVE  \E j \in 1..r.at : f \in Program(r)[j].gives
    <3>1. CASE f \in Current(r).gives
      BY <1>1, <3>1 DEF Current
    <3>2. CASE f \notin Current(r).gives
      BY <1>4, <1>5, <2>1, <2>2, <3>2 DEF Had
    <3> QED BY <3>1, <3>2
  <2>3. ASSUME NEW e \in FieldOrder, Had(s, e[1]), Had(s, e[2])
        PROVE  s.info[e[1]] <= s.info[e[2]]
    <3>0. e[1] \in Fields /\ e[2] \in Fields
      BY OrderedFields
    <3>1. CASE e[1] \in Current(r).gives /\ e[2] \in Current(r).gives
      BY <1>4, <2>1, <3>0, <3>1
    <3>2. CASE e[1] \in Current(r).gives /\ e[2] \notin Current(r).gives
      <4>1. PICK j \in 1..r.at - 1 : e[2] \in Program(r)[j].gives
        BY <1>5, <2>1, <2>3, <3>0, <3>2 DEF Had
      <4>2. j \in 1..Len(Program(r)) /\ r.at \in 1..Len(Program(r)) /\ ~(r.at <= j)
        BY <1>1, <1>4
      <4>3. r.at <= j
        BY <1>1, <3>2, <4>1, <4>2, InfoAssumption DEF Current, Program
      <4> QED BY <4>2, <4>3
    <3>3. CASE e[1] \notin Current(r).gives /\ e[2] \in Current(r).gives
      <4>1. Had(r, e[1]) /\ Current(r).gives # {}
        BY <2>1, <2>3, <3>0, <3>3 DEF Had
      <4>2. r.info[e[1]] <= r.value
        BY <1>7, <3>0, <4>1 DEF InfoOK
      <4> QED BY <2>1, <3>0, <3>3, <4>2
    <3>4. CASE e[1] \notin Current(r).gives /\ e[2] \notin Current(r).gives
      BY <1>5, <2>1, <2>3, <3>0, <3>4 DEF Had
    <3> QED BY <3>1, <3>2, <3>3, <3>4
  <2> QED BY <1>2, <2>2, <2>3 DEF Pieced
<1> QED BY <1>6, <1>7 DEF Learns

LEMMA MoveInfoOK ==
  ASSUME NEW r, NEW s, Good(r, logging, robot), Busy(r), r.name = "getVacuumInfo",
         InfoOK(r), Moves(r, s)
  PROVE  InfoOK(s)
<1>1. r \in Record /\ r.name \in Names /\ r.at \in 1..Len(Program(r))
  BY BusyFacts, NotIdle
<1>2. /\ r.at \in Nat /\ r.value \in Nat /\ r.value # Absent /\ Len(Program(r)) \in Nat
      /\ \A f \in Fields : r.info[f] \in Nat
  BY <1>1, InfoTypes
<1>3. Done(r) = r.at - 1 /\ r.st # "failed"
  BY DEF Done, Busy
<1>4. Program(s) = Program(r)
  BY DEF Moves, Resends, Fails, Passes, GivesUp, Learns, Kin, Program
<1>5. CASE Resends(r, s)
  <2>1. /\ s.st = "waiting" /\ s.at = r.at /\ s.info = r.info /\ s.ok = r.ok
        /\ s.found = r.found /\ Done(s) = Done(r)
    BY <1>5, SMTT(30) DEF Resends, Done, Busy
  <2>2. Pieced(s) /\ Whole(s)
    BY <1>3, <1>4, <2>1 DEF InfoOK, Pieced, Whole, Had
  <2> QED BY <2>1, <2>2 DEF InfoOK
<1>6. CASE Fails(r, s)
  <2>1. s.st = "failed" /\ s.at = r.at /\ Done(s) = r.at /\ Learns(r, s)
    BY <1>6 DEF Fails, Done, Busy
  <2>2. r.at = 1
    BY <1>1, <1>2, <1>6, InfoAssumption DEF Fails, Exposed, Current, Program
  <2>3. Pieced(s)
    BY <2>1, LearnPieced
  <2> QED BY <2>1, <2>2, <2>3 DEF InfoOK, Whole
<1>7. CASE Passes(r, s)
  <2>1. Learns(r, s) /\ s.found = r.found
    BY <1>7 DEF Passes
  <2>2. \/ s.st = "returned" /\ s.at = r.at /\ r.at = Len(Program(r))
        \/ s.st = "waiting" /\ s.at = r.at + 1
    BY <1>7 DEF Passes
  <2>3. Done(s) = r.at
    BY <1>2, <2>2 DEF Done, Busy
  <2>4. Pieced(s)
    BY <2>1, <2>3, LearnPieced
  <2>5. Whole(s)
    <3> SUFFICES ASSUME s.ok, s.found, NEW j \in 1..r.at, NEW f \in Fields,
                        f \in Program(r)[j].gives
                 PROVE  Had(s, f)
      BY <1>4, <2>3 DEF Whole
    <3>1. r.ok /\ s.info = Merged(r)
      BY <1>7 DEF Passes
    <3>2. s.info[f] = IF f \in Current(r).gives THEN r.value ELSE r.info[f]
      BY <3>1 DEF Merged
    <3>3. CASE j = r.at
      BY <1>2, <3>2, <3>3 DEF Current, Had
    <3>4. CASE j # r.at
      <4>1. j \in 1..Done(r)
        BY <1>2, <1>3, <3>4
      <4>2. Had(r, f)
        BY <1>3, <2>1, <3>1, <4>1 DEF InfoOK, Whole
      <4> QED BY <1>2, <3>2, <4>2 DEF Had
    <3> QED BY <3>3, <3>4
  <2> QED BY <1>4, <2>2, <2>4, <2>5 DEF InfoOK
<1>8. CASE GivesUp(r, s)
  <2>1. s.st = "returned" /\ s.at = r.at /\ ~s.found /\ s.info = r.info /\ Done(s) = r.at
    BY <1>8, SMTT(30) DEF GivesUp, Done, Busy
  <2>2. Pieced(s)
    <3>1. \A f \in Fields : Had(r, f) => \E j \in 1..r.at - 1 : f \in Program(r)[j].gives
      BY <1>3 DEF InfoOK, Pieced
    <3> QED BY <1>2, <1>4, <2>1, <3>1 DEF InfoOK, Pieced, Had
  <2> QED BY <2>1, <2>2 DEF InfoOK, Whole
<1> QED BY <1>5, <1>6, <1>7, <1>8 DEF Moves

LEMMA ServeInfoOK ==
  ASSUME NEW r, NEW s, Good(r, logging, robot), InfoOK(r), Serves(r, s)
  PROVE  InfoOK(s)
<1>1. /\ s.st = "served" /\ r.st = "waiting" /\ s.at = r.at /\ s.info = r.info
      /\ s.ok = r.ok /\ s.found = r.found /\ Done(s) = Done(r)
      /\ Program(s) = Program(r) /\ Current(s) = Current(r)
  BY DEF Serves, Kin, Done, Busy, Program, Current
<1>2. Pieced(s) /\ Whole(s)
  BY <1>1 DEF InfoOK, Pieced, Whole, Had
<1>3. ASSUME Current(s).gives # {}, NEW f \in Fields, Had(s, f)
      PROVE  s.info[f] <= s.value
  <2>1. s.value = robot
    BY <1>1, <1>3 DEF Serves
  <2> QED BY <1>1, <1>3, <2>1 DEF Good, Seen, InfoFresh, Had
<1> QED BY <1>1, <1>2, <1>3 DEF InfoOK

LEMMA StartInfoOK ==
  ASSUME NEW n \in Names
  PROVE  InfoOK(Started(n))
<1> DEFINE s == Started(n)
<1>1. /\ s.name = n /\ \A f \in Fields : s.info[f] = Absent
      /\ s.st = (IF Len(Programs[n]) = 0 THEN "returned" ELSE "waiting")
      /\ s.at = (IF Len(Programs[n]) = 0 THEN 0 ELSE 1)
  BY DEF Started
<1> HIDE DEF s
<1>2. Done(s) = 0 /\ s.st \notin {"failed", "served"}
  BY <1>1 DEF Done, Busy
<1>3. \A f \in Fields : ~Had(s, f)
  BY <1>1 DEF Had
<1>4. Pieced(s) /\ Whole(s)
  BY <1>2, <1>3, OrderedFields DEF Pieced, Whole
<1>5. s.st = "returned" => s.at = Len(Program(s))
  BY <1>1 DEF Program
<1>6. InfoOK(s)
  BY <1>2, <1>4, <1>5, SMTT(30) DEF InfoOK
<1> QED BY <1>6 DEF s

LEMMA OneInfoCall ==
  ASSUME IInv, InfoInv, NEW c \in Callers, NEW s, Step(c, s),
         s.name = "getVacuumInfo" => InfoOK(s)
  PROVE  InfoInv'
<1>1. calls \in [Callers -> Record \cup {Idle}]
  BY DEF IInv, TypeOK
<1>2. ASSUME NEW d \in Callers, calls'[d] # Idle, calls'[d].name = "getVacuumInfo"
      PROVE  InfoOK(calls'[d])
  <2>1. CASE d = c
    BY <1>1, <1>2, <2>1 DEF Step
  <2>2. CASE d # c
    BY <1>1, <1>2, <2>2 DEF Step, InfoInv
  <2> QED BY <2>1, <2>2
<1>3. \A d \in Callers :
        calls'[d] # Idle /\ calls'[d].name = "getVacuumInfo" => InfoOK(calls'[d])
  BY <1>2
<1> QED BY <1>3, Zenon DEF InfoInv, InfoOK, Pieced, Whole, Had, Done, Busy, Current, Program

LEMMA InfoStep == IInv /\ InfoInv /\ [Next]_vars => InfoInv'
<1> SUFFICES ASSUME IInv, InfoInv, [Next]_vars PROVE InfoInv'
  OBVIOUS
<1>1. CASE AlarmGoesOff \/ RobotMoves \/ UNCHANGED vars
  BY <1>1 DEF AlarmGoesOff, RobotMoves, vars, InfoInv
<1>2. ASSUME NEW c \in Callers, Call(c) PROVE InfoInv'
  <2>1. calling[c] \subseteq Names
    BY CallsAssumption DEF IInv, TypeOK
  <2>2. PICK n \in calling[c] : Step(c, Started(n))
    BY <1>2 DEF Call
  <2> QED BY <2>1, <2>2, StartInfoOK, OneInfoCall
<1>3. ASSUME NEW c \in Callers, Serve(c) PROVE InfoInv'
  <2>1. PICK s : Serves(calls[c], s) /\ Step(c, s)
    BY <1>3, ServeServes
  <2>2. Good(calls[c], logging, robot) /\ calls[c] # Idle
    BY <1>3, BusyGood DEF Serve, Busy, Idle
  <2>3. s.name = "getVacuumInfo" => InfoOK(s)
    BY <2>1, <2>2, ServeInfoOK, Zenon DEF Serves, Kin, InfoInv
  <2> QED BY <2>1, <2>3, OneInfoCall
<1>4. ASSUME NEW c \in Callers, Answer(c) \/ Refuse(c) \/ Break(c) \/ LogThrows(c)
      PROVE  InfoInv'
  <2>1. PICK s : Moves(calls[c], s) /\ Step(c, s)
    BY <1>4, CallMoves
  <2>2. Busy(calls[c]) /\ Good(calls[c], logging, robot) /\ calls[c] # Idle
    BY <1>4, CallMoves, BusyGood, SMTT(30) DEF Busy, Idle
  <2>3. s.name = calls[c].name
    BY <2>1, Zenon DEF Moves, Resends, Fails, Passes, GivesUp, Learns, Kin
  <2>4. s.name = "getVacuumInfo" => InfoOK(s)
    BY <2>1, <2>2, <2>3, MoveInfoOK, ZenonT(60) DEF InfoInv
  <2> QED BY <2>1, <2>4, OneInfoCall
<1> QED BY <1>1, <1>2, <1>3, <1>4 DEF Next

\* getVacuumInfo() fails only with the device list, leaves out the pieces it
\* could not have and no other, and merges into its result only what it read
\* during this call, later fields from later states of the robot.
THEOREM InfoIsOfThisCall == Spec => []InfoOfThisCall
<1>1. Init => InfoInv
  BY SMTT(30) DEF Init, InfoInv
<1>2. IInv /\ InfoInv => InfoOfThisCall
  <2> SUFFICES ASSUME IInv, InfoInv, NEW c \in Callers, calls[c] # Idle,
                      calls[c].name = "getVacuumInfo"
               PROVE  LET r == calls[c]
                          There(f) == r.info[f] # Absent
                      IN /\ r.st = "failed" => r.at = 1
                         /\ r.st = "returned" /\ r.found /\ r.ok => \A f \in Fields : There(f)
                         /\ \A f \in Fields :
                              There(f) => r.began.robot <= r.info[f] /\ r.info[f] <= robot
                         /\ \A e \in FieldOrder :
                              There(e[1]) /\ There(e[2]) => r.info[e[1]] <= r.info[e[2]]
    BY DEF InfoOfThisCall
  <2> DEFINE r == calls[c]
  <2>1. InfoOK(r) /\ Good(r, logging, robot) /\ r.name \in Names
    BY NotIdle, SMTT(30) DEF InfoInv, IInv, TypeOK
  <2>2. ASSUME r.st = "returned", r.found, r.ok, NEW f \in Fields
        PROVE  r.info[f] # Absent
    <3>1. PICK j \in 1..Len(Program(r)) : f \in Program(r)[j].gives
      BY <2>1, InfoAssumption DEF Program
    <3>2. Done(r) = Len(Program(r))
      BY <2>1, <2>2 DEF InfoOK, Done, Busy
    <3> QED BY <2>1, <2>2, <3>1, <3>2, ZenonT(60) DEF InfoOK, Whole, Had
  <2>3. \A f \in Fields :
          r.info[f] # Absent => r.began.robot <= r.info[f] /\ r.info[f] <= robot
    BY <2>1 DEF Good, Seen, InfoFresh
  <2> QED BY <2>1, <2>2, <2>3, ZenonT(60) DEF InfoOK, Pieced, Had
<1> QED BY <1>1, <1>2, InfoStep, InvHolds, PTL DEF Spec
=============================================================================
