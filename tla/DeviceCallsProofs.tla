------------------------- MODULE DeviceCallsProofs -------------------------
(***************************************************************************)
(* Proofs about the device methods: DeviceCalls, for any callers, methods  *)
(* and programs, and the Conversions of the values that they report.       *)
(***************************************************************************)
EXTENDS DeviceCalls, Conversions, TLAPS

AllCloud(r) == \A i \in 1..Len(Program(r)) : Program(r)[i].via = "cloud"

\* What the call has read so far, it read since it began.
InfoFresh(r, rb) ==
  /\ r.began.robot <= rb
  /\ \A f \in Fields : r.info[f] # Absent => r.began.robot <= r.info[f] /\ r.info[f] <= rb

\* How far a call is and what it knows.
Counted(r) ==
  /\ r.st \in {"waiting", "served"} => r.at \in 1..Len(Program(r)) /\ ~r.heard
  /\ r.st = "waiting" => r.took < r.at /\ (r.ok => r.took = r.at - 1)
  /\ r.st = "served" => r.took <= r.at /\ (r.ok => r.took = r.at)
  /\ r.took <= Len(Program(r))
  /\ r.st = "returned" => (r.ok /\ r.found => r.took = Len(Program(r)))

Told(r, lg) ==
  /\ r.st = "failed" => (r.heard => lg /\ Current(r).logs = "after")
  /\ r.st # "failed" => (AllCloud(r) => r.ok)

Seen(r, rb) ==
  /\ InfoFresh(r, rb)
  /\ r.st = "served" => (Current(r).gives # {} => r.began.robot <= r.value /\ r.value <= rb)

Good(r, lg, rb) == r \in Record /\ Counted(r) /\ Told(r, lg) /\ Seen(r, rb)

IInv == TypeOK /\ \A c \in Callers : calls[c] # Idle => Good(calls[c], logging, robot)

-----------------------------------------------------------------------------
(* The steps of one call *)

LEMMA NotIdle == \A r \in Record : r # Idle /\ r.name \in Names
  BY DEF Record, Idle

LEMMA ReturnGood ==
  ASSUME NEW r \in Record, NEW lg, NEW rb, InfoFresh(r, rb),
         r.took <= Len(Program(r)), AllCloud(r) => r.ok,
         r.ok /\ r.found => r.took = Len(Program(r))
  PROVE  Good(Return(r), lg, rb)
<1> DEFINE s == Return(r)
<1>1. s \in Record
  BY SMTT(30) DEF Return, Record
<1>2. /\ s.st = "returned" /\ s.name = r.name /\ s.at = r.at /\ s.took = r.took
      /\ s.ok = r.ok /\ s.found = r.found /\ s.heard = r.heard
      /\ s.began = r.began /\ s.info = r.info
  BY DEF Return, Record
<1> HIDE DEF s
<1>3. Program(s) = Program(r)
  BY <1>2 DEF Program
<1>4. AllCloud(s) = AllCloud(r)
  BY <1>3 DEF AllCloud
<1>5. Counted(s)
  BY <1>2, <1>3 DEF Counted
<1>6. Told(s, lg)
  BY <1>2, <1>4, Zenon DEF Told
<1>7. Seen(s, rb)
  BY <1>2 DEF Seen, InfoFresh
<1> QED BY <1>1, <1>5, <1>6, <1>7 DEF Good, s

LEMMA ThrowGood ==
  ASSUME NEW r \in Record, NEW lg, NEW rb, InfoFresh(r, rb),
         r.took <= Len(Program(r)), r.heard => lg /\ Current(r).logs = "after"
  PROVE  Good(Throw(r), lg, rb)
<1> DEFINE s == Throw(r)
<1>1. s \in Record
  BY DEF Throw, Record
<1>2. /\ s.st = "failed" /\ s.name = r.name /\ s.at = r.at /\ s.took = r.took
      /\ s.heard = r.heard /\ s.began = r.began /\ s.info = r.info
  BY DEF Throw, Record
<1> HIDE DEF s
<1>3. Program(s) = Program(r)
  BY <1>2 DEF Program
<1>4. Current(s) = Current(r)
  BY <1>2, <1>3 DEF Current
<1>5. Counted(s)
  BY <1>2, <1>3 DEF Counted
<1>6. Told(s, lg)
  BY <1>2, <1>4, Zenon DEF Told
<1>7. Seen(s, rb)
  BY <1>2 DEF Seen, InfoFresh
<1> QED BY <1>1, <1>5, <1>6, <1>7 DEF Good, s

\* The current request is over, and good answers stand for what took effect.
LEMMA AdvanceGood ==
  ASSUME NEW r \in Record, NEW lg, NEW rb, InfoFresh(r, rb),
         r.at \in 1..Len(Program(r)), r.took <= r.at, AllCloud(r) => r.ok,
         r.ok => r.took = r.at
  PROVE  Good(Advance(r), lg, rb)
<1>0. r.name \in Names /\ Len(Program(r)) \in Nat /\ r.at \in Nat /\ r.took \in Nat
  BY CallsAssumption DEF Record, Program
<1>1. CASE r.at = Len(Program(r))
  BY <1>0, <1>1, ReturnGood DEF Advance
<1>2. CASE r.at # Len(Program(r))
  <2> DEFINE s == [r EXCEPT !.st = "waiting", !.at = @ + 1, !.sends = 1,
                            !.heard = FALSE, !.value = 0]
  <2>0. 0 \in 0..MaxMoves /\ 1 \in 1..2 /\ r.at + 1 \in Nat
    BY <1>0, CallsAssumption
  <2>1. s \in Record
    BY <2>0, Zenon DEF Record
  <2>2. /\ s.st = "waiting" /\ s.name = r.name /\ s.at = r.at + 1 /\ s.took = r.took
        /\ s.ok = r.ok /\ s.heard = FALSE /\ s.began = r.began /\ s.info = r.info
    BY <2>0 DEF Record
  <2>3. Advance(r) = s
    BY <1>2 DEF Advance
  <2> HIDE DEF s
  <2>4. Program(s) = Program(r)
    BY <2>2 DEF Program
  <2>5. AllCloud(s) = AllCloud(r)
    BY <2>4 DEF AllCloud
  <2>6. Counted(s)
    <3>1. s.at \in 1..Len(Program(s)) /\ s.took < s.at /\ s.took <= Len(Program(s))
      BY <1>0, <1>2, <2>2, <2>4
    <3>2. s.ok => s.took = s.at - 1
      BY <1>0, <2>2
    <3> QED BY <2>2, <3>1, <3>2 DEF Counted
  <2>7. Told(s, lg)
    BY <2>2, <2>5, Zenon DEF Told
  <2>8. Seen(s, rb)
    BY <2>2 DEF Seen, InfoFresh
  <2> QED BY <2>1, <2>3, <2>6, <2>7, <2>8 DEF Good
<1> QED BY <1>1, <1>2

\* A busy call, with what its steps need to know of it.
LEMMA BusyFacts ==
  ASSUME NEW r, NEW lg, NEW rb, Busy(r), Good(r, lg, rb)
  PROVE  /\ r \in Record /\ InfoFresh(r, rb) /\ ~r.heard /\ (AllCloud(r) => r.ok)
         /\ r.at \in 1..Len(Program(r)) /\ r.took <= r.at
         /\ r.took <= Len(Program(r)) /\ r.took \in Nat
         /\ (AllCloud(r) => Current(r).via = "cloud")
<1>1. r \in Record /\ Counted(r) /\ Told(r, lg) /\ Seen(r, rb)
  BY DEF Good
<1>2. r.st \in {"waiting", "served"} /\ r.st # "failed"
  BY DEF Busy
<1>3. InfoFresh(r, rb)
  BY <1>1 DEF Seen
<1>4. AllCloud(r) => r.ok
  BY <1>1, <1>2, Zenon DEF Told
<1>5. /\ r.at \in 1..Len(Program(r)) /\ ~r.heard
      /\ r.took <= r.at /\ r.took <= Len(Program(r)) /\ r.took \in Nat
  <2>1. r.at \in Nat /\ r.took \in Nat
    BY <1>1 DEF Record
  <2>2. r.at \in 1..Len(Program(r)) /\ ~r.heard /\ r.took <= Len(Program(r))
    BY <1>1, <1>2 DEF Counted
  <2>3. r.took <= r.at
    BY <1>1, <1>2, <2>1 DEF Counted
  <2> QED BY <2>1, <2>2, <2>3
<1>6. AllCloud(r) => Current(r).via = "cloud"
  BY <1>5 DEF AllCloud, Current
<1> QED BY <1>1, <1>3, <1>4, <1>5, <1>6

\* A request that ends without a good answer is not a cloud request.
LEMMA NotOkGood ==
  ASSUME NEW r, NEW lg, NEW rb, Busy(r), Good(r, lg, rb), Current(r).via # "cloud"
  PROVE  LET s == [r EXCEPT !.ok = FALSE]
         IN /\ Good(Advance(s), lg, rb)
            /\ (lg /\ Current(r).logs = "after") => Good(Throw(s), lg, rb)
            /\ Current(s) = Current(r)
<1> DEFINE s == [r EXCEPT !.ok = FALSE]
<1>1. /\ r \in Record /\ InfoFresh(r, rb) /\ ~r.heard
      /\ r.at \in 1..Len(Program(r)) /\ r.took <= r.at /\ r.took <= Len(Program(r))
      /\ ~AllCloud(r)
  BY BusyFacts
<1>2. s \in Record
  BY <1>1, Zenon DEF Record
<1>3. /\ s.name = r.name /\ s.at = r.at /\ s.took = r.took /\ s.heard = r.heard
      /\ s.began = r.began /\ s.info = r.info /\ ~s.ok
  BY <1>1 DEF Record
<1> HIDE DEF s
<1>4. Program(s) = Program(r)
  BY <1>3 DEF Program
<1>5. Current(s) = Current(r)
  BY <1>3, <1>4 DEF Current
<1>6. InfoFresh(s, rb)
  BY <1>1, <1>3 DEF InfoFresh
<1>7. ~AllCloud(s)
  BY <1>1, <1>4 DEF AllCloud
<1>8. Good(Advance(s), lg, rb)
  BY <1>1, <1>2, <1>3, <1>4, <1>6, <1>7, AdvanceGood
<1>9. lg /\ Current(r).logs = "after" => Good(Throw(s), lg, rb)
  BY <1>1, <1>2, <1>3, <1>4, <1>6, ThrowGood, Zenon
<1> QED BY <1>5, <1>8, <1>9 DEF s

LEMMA MissedGood ==
  ASSUME NEW r, NEW lg, NEW rb, Busy(r), Good(r, lg, rb)
  PROVE  Good(Missed(r), lg, rb)
<1>1. CASE Current(r).safe
  <2>1. r.name \in Names /\ r.at \in 1..Len(Programs[r.name])
    BY BusyFacts DEF Record, Program
  <2>2. Current(r).via # "cloud"
    BY <1>1, <2>1, CallsAssumption DEF Current, Program
  <2> QED BY <1>1, <2>2, NotOkGood DEF Missed
<1>2. CASE ~Current(r).safe
  BY <1>2, BusyFacts, ThrowGood DEF Missed
<1> QED BY <1>1, <1>2

-----------------------------------------------------------------------------
(* The steps of the system *)

LEMMA OneCall ==
  ASSUME IInv, NEW c \in Callers, NEW s, Good(s, logging, robot),
         calls' = [calls EXCEPT ![c] = s], UNCHANGED <<alarms, robot, given>>
  PROVE  IInv'
<1>1. s \in Record /\ s # Idle
  BY NotIdle DEF Good
<1>2. calls \in [Callers -> Record \cup {Idle}]
  BY DEF IInv, TypeOK
<1>3. calls' \in [Callers -> Record \cup {Idle}]
  BY <1>1, <1>2
<1>4. TypeOK'
  BY <1>3 DEF IInv, TypeOK, given
<1>5. ASSUME NEW d \in Callers, calls'[d] # Idle
      PROVE  Good(calls'[d], logging', robot')
  <2>1. logging' = logging /\ robot' = robot
    BY DEF given
  <2>2. CASE d = c
    BY <1>2, <2>1, <2>2
  <2>3. CASE d # c
    <3>1. calls'[d] = calls[d]
      BY <1>2, <2>3
    <3>2. Good(calls[d], logging, robot)
      BY <1>5, <3>1 DEF IInv
    <3> QED BY <2>1, <3>1, <3>2
  <2> QED BY <2>2, <2>3
<1> QED BY <1>4, <1>5 DEF IInv

LEMMA StartedGood ==
  ASSUME IInv, NEW n \in Names
  PROVE  Good(Started(n), logging, robot)
<1> DEFINE s == Started(n)
<1>0. /\ Len(Programs[n]) \in Nat /\ Absent \in 0..Absent /\ Absent \in Nat
      /\ 0 \in 0..MaxMoves /\ 1 \in 1..2 /\ alarms \in Nat /\ robot \in Nat
  BY CallsAssumption DEF IInv, TypeOK, Absent
<1>1. [f \in Fields |-> Absent] \in [Fields -> 0..Absent]
  BY <1>0
<1>2. s \in Record
  BY <1>0, <1>1 DEF Started, Record
<1>3. /\ s.name = n /\ s.took = 0 /\ s.ok = TRUE /\ s.heard = FALSE
      /\ s.began.robot = robot /\ s.info = [f \in Fields |-> Absent]
      /\ s.st = (IF Len(Programs[n]) = 0 THEN "returned" ELSE "waiting")
      /\ s.at = (IF Len(Programs[n]) = 0 THEN 0 ELSE 1)
  BY DEF Started
<1> HIDE DEF s
<1>4. Program(s) = Programs[n]
  BY <1>3 DEF Program
<1>5. Counted(s)
  BY <1>0, <1>3, <1>4 DEF Counted
<1>6. Told(s, logging)
  BY <1>3 DEF Told
<1>7. Seen(s, robot)
  BY <1>0, <1>3 DEF Seen, InfoFresh
<1> QED BY <1>2, <1>5, <1>6, <1>7 DEF Good, s

LEMMA CallInv == ASSUME IInv, NEW c \in Callers, Call(c) PROVE IInv'
<1>1. calling[c] \subseteq Names
  BY CallsAssumption DEF IInv, TypeOK
<1>2. PICK n \in calling[c] : Step(c, Started(n))
  BY DEF Call
<1>3. Good(Started(n), logging, robot)
  BY <1>1, StartedGood
<1> QED BY <1>2, <1>3, OneCall, Zenon DEF Call, Step, given

LEMMA BusyGood ==
  ASSUME IInv, NEW c \in Callers, Busy(calls[c])
  PROVE  Good(calls[c], logging, robot)
<1>1. calls[c] # Idle
  BY DEF Busy, Idle
<1> QED BY <1>1 DEF IInv

LEMMA ServeInv == ASSUME IInv, NEW c \in Callers, Serve(c) PROVE IInv'
<1> DEFINE r == calls[c]
           w == IF Current(r).gives = {} THEN 0 ELSE robot
           s == [r EXCEPT !.st = "served", !.took = @ + 1, !.value = w]
<1>0. Busy(r) /\ r.st = "waiting" /\ Step(c, s) /\ UNCHANGED <<alarms, robot, given>>
  BY DEF Serve, Sent
<1>1. Good(r, logging, robot)
  BY <1>0, BusyGood
<1>2. /\ r \in Record /\ InfoFresh(r, robot) /\ ~r.heard /\ (AllCloud(r) => r.ok)
      /\ r.at \in 1..Len(Program(r)) /\ r.took \in Nat
  BY <1>0, <1>1, BusyFacts
<1>3. r.took < r.at /\ (r.ok => r.took = r.at - 1)
  BY <1>0, <1>1 DEF Good, Counted
<1>4. w \in 0..MaxMoves /\ robot \in Nat
  BY CallsAssumption DEF IInv, TypeOK
<1>5. r.took + 1 \in Nat
  BY <1>2
<1> HIDE DEF w
<1>6. s \in Record
  BY <1>2, <1>4, <1>5, Zenon DEF Record
<1>7. /\ s.st = "served" /\ s.took = r.took + 1 /\ s.value = w /\ s.name = r.name
      /\ s.at = r.at /\ s.ok = r.ok /\ s.heard = r.heard /\ s.began = r.began
      /\ s.info = r.info
  BY <1>2 DEF Record
<1> HIDE DEF s
<1>8. Program(s) = Program(r) /\ Current(s) = Current(r)
  BY <1>7 DEF Program, Current
<1>9. Counted(s)
  <2>1. r.at \in Nat /\ Len(Program(r)) \in Nat
    BY <1>2, CallsAssumption DEF Record, Program
  <2> QED BY <1>2, <1>3, <1>7, <1>8, <2>1 DEF Counted
<1>10. Told(s, logging)
  <2>1. AllCloud(s) = AllCloud(r)
    BY <1>8 DEF AllCloud
  <2> QED BY <1>2, <1>7, <2>1, Zenon DEF Told
<1>11. Seen(s, robot)
  <2>1. InfoFresh(s, robot)
    BY <1>2, <1>7 DEF InfoFresh
  <2>2. Current(s).gives # {} => s.began.robot <= s.value /\ s.value <= robot
    BY <1>2, <1>4, <1>7, <1>8 DEF InfoFresh, w
  <2> QED BY <2>1, <2>2 DEF Seen
<1>12. Good(s, logging, robot)
  BY <1>6, <1>9, <1>10, <1>11 DEF Good
<1> QED BY <1>0, <1>12, OneCall, Zenon DEF Step

LEMMA AnswerInv == ASSUME IInv, NEW c \in Callers, Answer(c) PROVE IInv'
<1> DEFINE q == calls[c]
           r == [q EXCEPT !.heard = TRUE]
           s == [r EXCEPT !.info = Merged(r)]
<1>0. Busy(q) /\ q.st = "served" /\ UNCHANGED <<alarms, robot, given>>
  BY DEF Answer, Busy
<1>1. Good(q, logging, robot)
  BY <1>0, BusyGood
<1>2. /\ q \in Record /\ InfoFresh(q, robot) /\ (AllCloud(q) => q.ok)
      /\ q.at \in 1..Len(Program(q)) /\ q.took <= q.at /\ q.took <= Len(Program(q))
  BY <1>0, <1>1, BusyFacts
<1>3. q.ok => q.took = q.at
  BY <1>0, <1>1 DEF Good, Counted
<1>4. Current(q).gives # {} => q.began.robot <= q.value /\ q.value <= robot
  BY <1>0, <1>1 DEF Good, Seen
<1>5. r \in Record
  BY <1>2, ZenonT(60) DEF Record
<1>6. /\ r.name = q.name /\ r.at = q.at /\ r.took = q.took /\ r.ok = q.ok
      /\ r.began = q.began /\ r.info = q.info /\ r.value = q.value
  BY <1>2 DEF Record
<1> HIDE DEF r
<1>7. Program(r) = Program(q) /\ Current(r) = Current(q)
  BY <1>6 DEF Program, Current
<1>8. Merged(r) \in [Fields -> 0..Absent]
  <2>1. r.value \in 0..Absent /\ r.info \in [Fields -> 0..Absent]
    BY <1>5, CallsAssumption DEF Record, Absent
  <2> QED BY <2>1 DEF Merged
<1>9. s \in Record
  BY <1>5, <1>8 DEF Record
<1>10. /\ s.name = q.name /\ s.at = q.at /\ s.took = q.took /\ s.ok = q.ok
       /\ s.began = q.began /\ s.info = Merged(r)
  BY <1>5, <1>6 DEF Record
<1> HIDE DEF s
<1>11. Program(s) = Program(q) /\ Current(s) = Current(q)
  BY <1>10 DEF Program, Current
<1>12. InfoFresh(s, robot)
  <2>1. \A f \in Fields :
          s.info[f] = IF f \in Current(q).gives THEN q.value ELSE q.info[f]
    BY <1>6, <1>7, <1>10 DEF Merged
  <2> QED BY <1>2, <1>4, <1>10, <2>1 DEF InfoFresh
<1>13. AllCloud(s) = AllCloud(q) /\ AllCloud(r) = AllCloud(q)
  BY <1>7, <1>11 DEF AllCloud
<1>14. Good(Advance(s), logging, robot)
  BY <1>2, <1>3, <1>9, <1>10, <1>11, <1>12, <1>13, AdvanceGood
<1>15. logging /\ Current(s).logs = "after" => Good(Throw(s), logging, robot)
  BY <1>2, <1>9, <1>10, <1>11, <1>12, ThrowGood, Zenon
<1>16. Good(Answered(s), logging, robot)
  BY <1>14, <1>15 DEF Answered
<1>17. Good(Return([r EXCEPT !.found = FALSE]), logging, robot)
  <2> DEFINE t == [r EXCEPT !.found = FALSE]
  <2>1. t \in Record
    BY <1>5, Zenon DEF Record
  <2>2. /\ t.name = q.name /\ t.took = q.took /\ t.ok = q.ok /\ t.found = FALSE
        /\ t.began = q.began /\ t.info = q.info
    BY <1>5, <1>6 DEF Record
  <2> HIDE DEF t
  <2>3. Program(t) = Program(q)
    BY <2>2 DEF Program
  <2>4. AllCloud(t) = AllCloud(q)
    BY <2>3 DEF AllCloud
  <2>5. InfoFresh(t, robot)
    BY <1>2, <2>2 DEF InfoFresh
  <2>6. Good(Return(t), logging, robot)
    BY <1>2, <2>1, <2>2, <2>3, <2>4, <2>5, ReturnGood
  <2> QED BY <2>6 DEF t
<1>18. Step(c, Answered(s)) \/ Step(c, Return([r EXCEPT !.found = FALSE]))
  BY DEF Answer, r, s
<1> QED BY <1>0, <1>16, <1>17, <1>18, OneCall DEF Step

LEMMA RefuseInv == ASSUME IInv, NEW c \in Callers, Refuse(c) PROVE IInv'
<1> DEFINE r == calls[c]
<1>0. Busy(r) /\ r.st = "waiting" /\ UNCHANGED <<alarms, robot, given>>
  BY DEF Refuse, Sent
<1>1. Good(r, logging, robot)
  BY <1>0, BusyGood
<1>2. CASE Step(c, [r EXCEPT !.sends = 2])
  <2> DEFINE s == [r EXCEPT !.sends = 2]
  <2>0. r \in Record /\ 2 \in 1..2
    BY <1>1 DEF Good
  <2>1. s \in Record
    BY <2>0 DEF Record
  <2>2. /\ s.st = r.st /\ s.name = r.name /\ s.at = r.at /\ s.took = r.took
        /\ s.ok = r.ok /\ s.heard = r.heard /\ s.found = r.found
        /\ s.began = r.began /\ s.info = r.info
    BY <2>0 DEF Record
  <2> HIDE DEF s
  <2>3. Program(s) = Program(r) /\ Current(s) = Current(r)
    BY <2>2 DEF Program, Current
  <2>4. Counted(s)
    BY <1>1, <2>2, <2>3 DEF Good, Counted
  <2>5. Told(s, logging)
    <3>1. AllCloud(s) = AllCloud(r)
      BY <2>3 DEF AllCloud
    <3> QED BY <1>1, <2>2, <2>3, <3>1, Zenon DEF Good, Told
  <2>6. Seen(s, robot)
    BY <1>0, <1>1, <2>2 DEF Good, Seen, InfoFresh
  <2>7. Good(s, logging, robot)
    BY <2>1, <2>4, <2>5, <2>6 DEF Good
  <2> QED BY <1>0, <1>2, <2>7, OneCall, Zenon DEF Step, s
<1>3. CASE Step(c, Throw(r))
  <2>1. Good(Throw(r), logging, robot)
    BY <1>0, <1>1, BusyFacts, ThrowGood
  <2> QED BY <1>0, <1>3, <2>1, OneCall, Zenon DEF Step
<1>4. CASE Current(r).via # "cloud" /\ Step(c, Answered([r EXCEPT !.ok = FALSE]))
  <2>1. Good(Answered([r EXCEPT !.ok = FALSE]), logging, robot)
    BY <1>0, <1>1, <1>4, NotOkGood DEF Answered
  <2> QED BY <1>0, <1>4, <2>1, OneCall, Zenon DEF Step
<1> QED BY <1>2, <1>3, <1>4 DEF Refuse

LEMMA BreakInv == ASSUME IInv, NEW c \in Callers, Break(c) PROVE IInv'
<1> DEFINE r == calls[c]
<1>0. Busy(r) /\ UNCHANGED <<alarms, robot, given>>
  BY DEF Break
<1>1. Good(r, logging, robot)
  BY <1>0, BusyGood
<1>2. CASE Step(c, Missed(r))
  BY <1>0, <1>1, <1>2, MissedGood, OneCall, Zenon DEF Step
<1>3. CASE Step(c, Throw(r))
  <2>1. Good(Throw(r), logging, robot)
    BY <1>0, <1>1, BusyFacts, ThrowGood
  <2> QED BY <1>0, <1>3, <2>1, OneCall, Zenon DEF Step
<1>4. CASE Current(r).via = "bulb" /\ Step(c, Advance([r EXCEPT !.ok = FALSE]))
  <2>1. Good(Advance([r EXCEPT !.ok = FALSE]), logging, robot)
    BY <1>0, <1>1, <1>4, NotOkGood
  <2> QED BY <1>0, <1>4, <2>1, OneCall, Zenon DEF Step
<1> QED BY <1>2, <1>3, <1>4 DEF Break

LEMMA LogThrowsInv == ASSUME IInv, NEW c \in Callers, LogThrows(c) PROVE IInv'
<1>0. Busy(calls[c])
  BY DEF LogThrows, Busy
<1>1. Good(Throw(calls[c]), logging, robot)
  BY <1>0, BusyGood, BusyFacts, ThrowGood
<1> QED BY <1>1, OneCall, Zenon DEF LogThrows, Step, given

\* What a call has read stays fresh while the robot moves on.
LEMMA LaterGood ==
  ASSUME NEW r, NEW lg, NEW rb \in Nat, Good(r, lg, rb)
  PROVE  Good(r, lg, rb + 1)
<1>1. r \in Record /\ r.began.robot \in Nat /\ r.value \in Nat
      /\ \A f \in Fields : r.info[f] \in Nat
  BY CallsAssumption DEF Good, Record, Absent
<1>2. Seen(r, rb + 1)
  BY <1>1 DEF Good, Seen, InfoFresh
<1> QED BY <1>2 DEF Good

LEMMA StepInv == IInv /\ [Next]_vars => IInv'
<1> SUFFICES ASSUME IInv, [Next]_vars PROVE IInv'
  OBVIOUS
<1>1. CASE AlarmGoesOff
  <2>1. alarms' \in 0..MaxAlarms
    BY <1>1, CallsAssumption DEF AlarmGoesOff, IInv, TypeOK
  <2> QED BY <1>1, <2>1 DEF AlarmGoesOff, IInv, TypeOK, given
<1>2. CASE RobotMoves
  <2>1. robot' = robot + 1 /\ robot \in Nat /\ robot' \in 0..MaxMoves
        /\ UNCHANGED <<calls, alarms, given>>
    BY <1>2, CallsAssumption DEF RobotMoves, IInv, TypeOK
  <2>2. \A c \in Callers : calls[c] # Idle => Good(calls[c], logging, robot + 1)
    BY <2>1, LaterGood DEF IInv
  <2> QED BY <2>1, <2>2 DEF IInv, TypeOK, given
<1>3. CASE UNCHANGED vars
  BY <1>3 DEF vars, given, IInv, TypeOK
<1>4. ASSUME NEW c \in Callers,
             Call(c) \/ Serve(c) \/ Answer(c) \/ Refuse(c) \/ Break(c) \/ LogThrows(c)
      PROVE  IInv'
  BY <1>4, CallInv, ServeInv, AnswerInv, RefuseInv, BreakInv, LogThrowsInv
<1> QED BY <1>1, <1>2, <1>3, <1>4 DEF Next

LEMMA InitInv == Init => IInv
  BY CallsAssumption DEF Init, IInv, TypeOK

LEMMA InvHolds == Spec => []IInv
  BY InitInv, StepInv, PTL DEF Spec

\* Type correctness of DeviceCalls: among the rest, request() sends a request
\* at most twice.
THEOREM TypeCorrect == Spec => []TypeOK
<1>1. IInv => TypeOK
  BY DEF IInv
<1> QED BY <1>1, InvHolds, PTL

\* Whatever is refused, retried or lost, a command takes effect at most once,
\* and a call that returns with good answers has taken effect completely, for
\* any methods made of any requests.
THEOREM CommandsAreHonest == Spec => []HonestCommands
<1>1. IInv => HonestCommands
  <2> SUFFICES ASSUME IInv, NEW c \in Callers, calls[c] # Idle
               PROVE  LET r == calls[c]
                          p == Program(r)
                      IN /\ r.took <= Len(p)
                         /\ r.st = "returned" /\ r.ok /\ r.found => r.took = Len(p)
                         /\ r.st = "returned" /\ (\A i \in 1..Len(p) : p[i].via = "cloud") => r.ok
                         /\ r.st = "failed" /\ r.heard => logging /\ Current(r).logs = "after"
    BY DEF HonestCommands
  <2>1. Counted(calls[c]) /\ Told(calls[c], logging)
    BY DEF IInv, Good
  <2>2. calls[c].st = "returned" /\ AllCloud(calls[c]) => calls[c].ok
    BY <2>1 DEF Told
  <2> QED BY <2>1, <2>2 DEF Counted, Told, AllCloud
<1> QED BY <1>1, InvHolds, PTL

-----------------------------------------------------------------------------
(* Conversions *)

\* No code stands for two modes, so that what parseVacuumMode() answers does
\* not depend on the order of the table.
THEOREM ModesDisjoint ==
  \A code \in Nat : \A i, j \in Match(code) : i = j
  BY SMTT(60) DEF Match, VacuumModeCodes

\* A vacuum that accessories show as cleaning and as docked at once is one
\* that reports a charge state together with a cleaning mode: the two
\* accessors agree on every mode.
THEOREM CleaningIsNotDocked ==
  \A info : vacuumIsCleaning(info) /\ vacuumIsDocked(info) => vacuumIsCharging(info)
  BY DEF vacuumIsCleaning, vacuumIsDocked

\* A quotient between two multiples.
LEMMA DivUnique ==
  ASSUME NEW a \in Int, NEW d \in Nat, d > 0, NEW q \in Int, d * q <= a, a < d * q + d
  PROVE  a \div d = q
<1> DEFINE r == a - d * q
<1>1. r \in Nat /\ r < d /\ a = d * q + r
  OBVIOUS
<1> QED BY <1>1

\* An error that is one part in n of m is at most m.
LEMMA ErrorBound ==
  ASSUME NEW n \in Nat, n > 0, NEW e \in Int, NEW m \in Int, n * Abs(e) <= m
  PROVE  Abs(e) <= m
<1>1. Abs(e) \in Nat
  BY DEF Abs
<1>2. Abs(e) <= n * Abs(e)
  BY <1>1
<1> QED BY <1>1, <1>2

\* Three errors add up.
LEMMA ErrorSum ==
  ASSUME NEW n \in Nat, NEW e1 \in Int, NEW e2 \in Int, NEW e3 \in Int,
         NEW m1 \in Int, NEW m2 \in Int, NEW m3 \in Int,
         n * Abs(e1) <= m1, n * Abs(e2) <= m2, n * Abs(e3) <= m3
  PROVE  n * Abs(e1 + e2 + e3) <= m1 + m2 + m3
<1>1. /\ Abs(e1) \in Nat /\ Abs(e2) \in Nat /\ Abs(e3) \in Nat
      /\ Abs(e1 + e2 + e3) \in Nat
      /\ Abs(e1 + e2 + e3) <= Abs(e1) + Abs(e2) + Abs(e3)
  BY DEF Abs
<1>2. n * Abs(e1 + e2 + e3) <= n * (Abs(e1) + Abs(e2) + Abs(e3))
  BY <1>1
<1>3. n * (Abs(e1) + Abs(e2) + Abs(e3)) = n * Abs(e1) + n * Abs(e2) + n * Abs(e3)
  BY <1>1
<1> QED BY <1>1, <1>2, <1>3

\* floatToRange() undoes rangeToFloat() in spite of the errors of the quotient,
\* the product and the sum: a brightness that an accessory reads as a fraction
\* and writes back unchanged is the same brightness, in every range that is
\* small against the precision (in JavaScript, below 2^49).
THEOREM RangeRoundTrip ==
  ASSUME NEW fp \in [unit : Nat \ {0}, precision : Nat \ {0}],
         NEW min \in Int, NEW max \in Int, min < max, NEW value \in min..max,
         16 * (max - min + Abs(min)) < fp.precision,
         NEW f \in rangeToFloat(value, min, max, fp)
  PROVE  floatToRange(f, min, max, fp) \subseteq {value}
<1> DEFINE K == fp.unit
           P == fp.precision
           R == max - min
           d == value - min
<1>1. /\ K \in Nat /\ K > 0 /\ P \in Nat /\ P > 0 /\ value \in Int /\ f \in Int
      /\ R \in Nat /\ d \in Nat /\ d <= R /\ Abs(min) \in Nat /\ 16 * (R + Abs(min)) < P
  BY DEF rangeToFloat, Floats, Abs
<1> SUFFICES ASSUME NEW product \in Floats(f * R, 1, fp),
                    NEW sum \in Floats(product + K * min, 1, fp)
             PROVE  Round(sum, K) = value
  BY DEF floatToRange
<1> DEFINE e1 == f * R - K * d
           e2 == product - f * R
           e3 == sum - (product + K * min)
<1>2. product \in Int /\ sum \in Int
  BY DEF Floats
<1>3. /\ P * Abs(e1) <= Abs(K * d)
      /\ P * Abs(e2) <= Abs(f * R)
      /\ P * Abs(e3) <= Abs(product + K * min)
  BY <1>1, <1>2 DEF rangeToFloat, Floats
<1> HIDE DEF K, P, R
<1>4. /\ K * d \in Int /\ f * R \in Int /\ K * R \in Nat /\ K * min \in Int
      /\ K * Abs(min) \in Nat /\ K * value \in Int
  BY <1>1
<1>5. 0 <= K * d /\ K * d <= K * R /\ Abs(K * min) <= K * Abs(min)
  BY <1>1, <1>4 DEF Abs
<1>6. K * d = K * value - K * min
  BY <1>1
<1>7. P * Abs(e1) <= K * R /\ Abs(e1) <= K * R
  BY <1>1, <1>3, <1>4, <1>5, ErrorBound DEF Abs
<1>8. P * Abs(e2) <= 2 * (K * R) /\ Abs(e2) <= 2 * (K * R)
  <2>1. Abs(f * R) <= 2 * (K * R)
    BY <1>4, <1>5, <1>7 DEF Abs
  <2> QED BY <1>1, <1>2, <1>3, <1>4, <2>1, ErrorBound DEF Abs
<1>9. P * Abs(e3) <= 4 * (K * R) + K * Abs(min)
  <2>1. Abs(product + K * min) <= 4 * (K * R) + K * Abs(min)
    BY <1>2, <1>4, <1>5, <1>7, <1>8 DEF Abs
  <2> QED BY <1>1, <1>2, <1>3, <1>4, <2>1 DEF Abs
<1> DEFINE e == sum - K * value
<1>10. e = e1 + e2 + e3
  BY <1>2, <1>4, <1>6
<1>11. P * Abs(e) <= 7 * (K * R) + K * Abs(min)
  BY <1>1, <1>2, <1>4, <1>7, <1>8, <1>9, <1>10, ErrorSum
<1>12. 2 * Abs(e) < K
  <2>1. K * (16 * (R + Abs(min))) < K * P
    BY <1>1
  <2>2. K * (16 * (R + Abs(min))) = 16 * (K * R) + 16 * (K * Abs(min))
    BY <1>1
  <2>3. P * (2 * Abs(e)) < P * K
    BY <1>1, <1>2, <1>4, <1>11, <2>1, <2>2 DEF Abs
  <2>4. Abs(e) \in Nat
    BY <1>2, <1>4 DEF Abs
  <2> QED BY <1>1, <2>3, <2>4
<1>13. (2 * K) * value = 2 * (K * value)
  BY <1>1
<1>14. (2 * sum + K) \div (2 * K) = value
  BY <1>1, <1>2, <1>4, <1>12, <1>13, DivUnique DEF Abs
<1> QED BY <1>14 DEF Round

\* Every color temperature that a Wyze bulb knows is one that HomeKit accepts
\* after kelvinToMired().
THEOREM MiredInHomeKitRange ==
  \A value \in WyzeColorTemp : kelvinToMired(value) \in HomeKitColorTemp
<1> SUFFICES ASSUME NEW value \in WyzeColorTemp
             PROVE  kelvinToMired(value) \in HomeKitColorTemp
  OBVIOUS
<1> DEFINE q == (2000000 + value) \div (2 * value)
<1>1. value \in Nat /\ 2700 <= value /\ value <= 6500
  BY DEF WyzeColorTemp
<1>2. q \in Int /\ (2 * value) * q <= 2000000 + value
             /\ 2000000 + value < (2 * value) * q + 2 * value
  BY <1>1
<1>3. q >= 140
  <2>1. SUFFICES ASSUME q <= 139 PROVE FALSE
    BY <1>2
  <2>2. (2 * value) * q <= (2 * value) * 139
    BY <1>1, <1>2, <2>1
  <2> QED BY <1>1, <1>2, <2>2
<1>4. q <= 500
  <2>1. SUFFICES ASSUME q >= 501 PROVE FALSE
    BY <1>2
  <2>2. (2 * value) * q >= (2 * value) * 501
    BY <1>1, <1>2, <2>1
  <2> QED BY <1>1, <1>2, <2>2
<1> QED BY <1>1, <1>2, <1>3, <1>4 DEF kelvinToMired, Round, HomeKitColorTemp

\* clamp() stays within its bounds and leaves alone what is there already.
THEOREM ClampInRange ==
  ASSUME NEW min \in Int, NEW max \in Int, min <= max, NEW number \in Int
  PROVE  /\ clamp(number, min, max) \in min..max
         /\ number \in min..max => clamp(number, min, max) = number
  BY DEF clamp

\* A code belongs to the mode that parseVacuumMode() names, and to no other.
THEOREM ParsedModeHasCode ==
  ASSUME NEW code \in Nat, NEW i \in 1..14, code \in VacuumModeCodes[i]
  PROVE  parseVacuumMode(code) = ModeNames[i]
<1>1. i \in Match(code)
  BY DEF Match
<1>2. \A j \in Match(code) : j = i
  BY <1>1, ModesDisjoint
<1>3. \A j \in Match(code) : i <= j
  BY <1>2
<1>4. (CHOOSE k \in Match(code) : \A j \in Match(code) : k <= j) = i
  BY <1>1, <1>2, <1>3, Zenon
<1> QED BY <1>1, <1>4, Zenon DEF parseVacuumMode
=============================================================================
