------------------------ MODULE StreamCaptureProofs ------------------------
(***************************************************************************)
(* Proofs about StreamCapture, for any number of captures and ports.       *)
(***************************************************************************)
EXTENDS StreamCapture, TLAPS

Early == {"idle", "binding", "probed"}
Active == {"opening", "offering", "answering", "framing"}

Alive(r) == r.ffmpeg \in {"starting", "listening"}
WsLive(r) == r.ws \in {"connecting", "open"}

\* The capture relies on its port: its probe is bound or its ffmpeg runs.
OnPort(r) == r.stage = "probed" \/ Alive(r)

\* What holds of a capture in the middle of a step as well.
Core(r) ==
  /\ "ffmpeg" \in r.held <=> Alive(r)
  /\ "ws" \in r.held <=> WsLive(r)
  /\ r.stage \in Early =>
       /\ r.held = {} /\ r.ffmpeg = "none" /\ r.ws = "none"
       /\ r.unhandled = {} /\ r.outcome = "pending" /\ r.answered = "pending"
       /\ ~r.offered
  /\ Settled(r) => r.held \subseteq {"sdp"}
  /\ r.stage = "returned" => r.outcome = "frame"
  /\ "ffmpeg" \in r.unhandled => r.ws = "none"
  /\ "ffmpeg" \in r.handled \/ r.ws = "none"
  /\ r.stage \in Active /\ r.outcome = "pending" => Alive(r)
  /\ r.answered = "resolved" => r.offered
  /\ r.stage \in Active => r.timer \in {"running", "fired"}
  /\ r.stage = "opening" => r.ws \in {"connecting", "open", "closed"}

Unoffered(r) == r.stage \in {"opening", "offering"} => ~r.offered

\* ... and of one that waits.
Good(r) ==
  /\ r \in Record /\ Core(r) /\ Unoffered(r) /\ Waits(r)

\* Two captures on one port know of it, and a frame of somebody else's camera
\* needs two captures on one port.
PortsTold ==
  \A c, d \in Captures :
    c # d /\ OnPort(cap[c]) /\ OnPort(cap[d]) /\ cap[c].port = cap[d].port =>
      c \in clashed /\ d \in clashed

FramesTold ==
  \A c \in Captures : cap[c].outcome = "frame" => cap[c].from = c \/ c \in clashed

IInv ==
  /\ cap \in [Captures -> Record] /\ clashed \subseteq Captures
  /\ \A c \in Captures : Good(cap[c])
  /\ PortsTold /\ FramesTold

-----------------------------------------------------------------------------
(* The races *)

\* s is where a capture in state r has got to at the end of a step.
Follows(r, s) ==
  /\ s.port = r.port /\ s.outcome = r.outcome /\ s.from = r.from
  /\ OnPort(s) => OnPort(r)
  /\ \/ s.stage = r.stage /\ s.held = r.held
     \/ Busy(r) /\ (Busy(s) \/ (Settled(s) /\ s.held = {}))

LEMMA CleanupFacts ==
  ASSUME NEW r \in Record, NEW g \in {"returned", "failed"}
  PROVE  LET s == [Cleanup(r) EXCEPT !.stage = g]
         IN /\ s \in Record
            /\ s.stage = g /\ s.held = {} /\ s.port = r.port
            /\ s.ws = IF WsLive(r) THEN "closing" ELSE r.ws
            /\ s.ffmpeg = IF Alive(r) THEN "killed" ELSE r.ffmpeg
            /\ s.outcome = r.outcome /\ s.answered = r.answered
            /\ s.offered = r.offered /\ s.handled = r.handled
            /\ s.unhandled = r.unhandled /\ s.from = r.from
<1> DEFINE w == IF WsLive(r) THEN "closing" ELSE r.ws
           f == IF Alive(r) THEN "killed" ELSE r.ffmpeg
           s == [r EXCEPT !.held = {}, !.ws = w, !.ffmpeg = f, !.stage = g]
<1>1. w \in {"none", "connecting", "open", "closing", "closed"}
  BY DEF Record
<1>2. f \in {"none", "starting", "listening", "killed", "gone"}
  BY DEF Record
<1>3. g \in Stages /\ {} \in SUBSET Resources
  BY DEF Stages
<1>4. [Cleanup(r) EXCEPT !.stage = g] = s
  BY DEF Cleanup, WsLive, Alive, Record
<1> HIDE DEF w, f
<1>5. s \in Record
  BY <1>1, <1>2, <1>3, ZenonT(60) DEF Record
<1>6. /\ s.stage = g /\ s.held = {} /\ s.port = r.port /\ s.ws = w /\ s.ffmpeg = f
      /\ s.outcome = r.outcome /\ s.answered = r.answered
      /\ s.offered = r.offered /\ s.handled = r.handled
      /\ s.unhandled = r.unhandled /\ s.from = r.from
  BY DEF Record
<1> QED BY <1>4, <1>5, <1>6, Zenon DEF w, f

LEMMA EndGood ==
  ASSUME NEW r \in Record, Core(r), r.stage \in Active,
         NEW g \in {"returned", "failed"}, g = "returned" => r.outcome = "frame"
  PROVE  LET s == [Cleanup(r) EXCEPT !.stage = g]
         IN Good(s) /\ Follows(r, s)
<1> DEFINE s == [Cleanup(r) EXCEPT !.stage = g]
<1>1. /\ s \in Record
      /\ s.stage = g /\ s.held = {} /\ s.port = r.port
      /\ s.ws = IF WsLive(r) THEN "closing" ELSE r.ws
      /\ s.ffmpeg = IF Alive(r) THEN "killed" ELSE r.ffmpeg
      /\ s.outcome = r.outcome /\ s.answered = r.answered
      /\ s.offered = r.offered /\ s.handled = r.handled
      /\ s.unhandled = r.unhandled /\ s.from = r.from
  BY CleanupFacts, ZenonT(60)
<1> HIDE DEF s
<1>2. ~Alive(s) /\ ~WsLive(s) /\ (s.ws = "none" <=> r.ws = "none")
  BY <1>1 DEF Alive, WsLive
<1>3. Core(s)
  BY <1>1, <1>2 DEF Core, Settled, Early, Active
<1>4. Good(s)
  BY <1>1, <1>3 DEF Good, Unoffered, Waits
<1>5. Follows(r, s)
  BY <1>1, <1>2 DEF Follows, OnPort, Busy, Settled, Active
<1> QED BY <1>4, <1>5 DEF s

\* A capture goes on to wait for something else.
LEMMA WaitGood ==
  ASSUME NEW r \in Record, Core(r), r.stage \in Active, NEW g \in Active,
         g # "opening", g = "offering" => ~r.offered,
         g = "answering" => r.answered = "pending",
         g # "offering" => r.outcome = "pending" /\ r.timer # "fired"
  PROVE  LET s == [r EXCEPT !.stage = g] IN Good(s) /\ Follows(r, s)
<1> DEFINE s == [r EXCEPT !.stage = g]
<1>1. s \in Record
  BY DEF Record, Stages, Active
<1>2. /\ s.stage = g /\ s.held = r.held /\ s.port = r.port /\ s.ws = r.ws
      /\ s.ffmpeg = r.ffmpeg /\ s.outcome = r.outcome /\ s.answered = r.answered
      /\ s.offered = r.offered /\ s.handled = r.handled
      /\ s.unhandled = r.unhandled /\ s.from = r.from /\ s.timer = r.timer
  BY DEF Record
<1> HIDE DEF s
<1>3. (Alive(s) <=> Alive(r)) /\ (WsLive(s) <=> WsLive(r))
  BY <1>2 DEF Alive, WsLive
<1>4. Core(s)
  <2>1. s.stage \notin Early /\ ~Settled(s) /\ s.stage # "returned"
    BY <1>2 DEF Settled, Early, Active
  <2> QED BY <1>2, <1>3, <2>1 DEF Core
<1>5. Good(s)
  <2>1. r.timer \in {"running", "fired"}
    BY DEF Core
  <2>2. Waits(s)
    BY <1>2, <2>1 DEF Waits
  <2> QED BY <1>1, <1>2, <1>4, <2>2 DEF Good, Unoffered
<1>6. Follows(r, s)
  <2>1. Busy(r) /\ Busy(s)
    BY <1>2 DEF Busy, Active
  <2>2. s.stage # "probed"
    BY <1>2 DEF Active
  <2> QED BY <1>2, <1>3, <2>1, <2>2 DEF Follows, OnPort
<1> QED BY <1>5, <1>6 DEF s

LEMMA AwaitFrameGood ==
  ASSUME NEW r \in Record, Core(r), r.stage \in Active
  PROVE  Good(AwaitFrame(r)) /\ Follows(r, AwaitFrame(r))
<1>1. CASE r.outcome = "frame"
  BY <1>1, EndGood, Zenon DEF AwaitFrame, Return, NoFrame
<1>2. CASE r.outcome # "frame" /\ NoFrame(r)
  BY <1>2, EndGood, Zenon DEF AwaitFrame, Throw
<1>3. CASE r.outcome # "frame" /\ ~NoFrame(r)
  <2>1. r.outcome = "pending" /\ r.timer # "fired"
    BY <1>3 DEF NoFrame, Record
  <2> QED BY <1>3, <2>1, WaitGood, Zenon DEF AwaitFrame, Active
<1> QED BY <1>1, <1>2, <1>3

LEMMA AwaitAnswerGood ==
  ASSUME NEW r \in Record, Core(r), r.stage \in Active
  PROVE  Good(AwaitAnswer(r)) /\ Follows(r, AwaitAnswer(r))
<1>1. CASE r.answered = "resolved"
  BY <1>1, AwaitFrameGood DEF AwaitAnswer
<1>2. CASE r.answered = "rejected"
  BY <1>2, EndGood, Zenon DEF AwaitAnswer, Throw
<1>3. CASE r.answered = "pending"
  <2>1. CASE r.outcome = "frame"
    <3>1. ~NoFrame(r)
      BY <2>1 DEF NoFrame
    <3> QED BY <1>3, <2>1, <3>1, AwaitFrameGood DEF AwaitAnswer
  <2>2. CASE r.outcome # "frame" /\ NoFrame(r)
    BY <1>3, <2>2, EndGood, Zenon DEF AwaitAnswer, Throw
  <2>3. CASE r.outcome # "frame" /\ ~NoFrame(r)
    <3>1. r.outcome = "pending" /\ r.timer # "fired"
      BY <2>3 DEF NoFrame, Record
    <3> QED BY <1>3, <2>3, <3>1, WaitGood, Zenon DEF AwaitAnswer, Active
  <2> QED BY <2>1, <2>2, <2>3
<1> QED BY <1>1, <1>2, <1>3 DEF Record

LEMMA SameFollows ==
  ASSUME NEW r PROVE Follows(r, r)
  BY DEF Follows

LEMMA AwaitOpenGood ==
  ASSUME NEW r \in Record, Core(r), r.stage = "opening", ~r.offered
  PROVE  Good(AwaitOpen(r)) /\ Follows(r, AwaitOpen(r))
<1>0. r.stage \in Active
  BY DEF Active
<1> DEFINE go == r.ws = "open" \/ r.outcome = "frame"
           stop == r.ws = "closed" \/ r.outcome = "rejected" \/ r.timer = "fired"
           on == [r EXCEPT !.stage = "offering"]
<1>1. Good(on) /\ Follows(r, on)
  BY <1>0, WaitGood, Zenon DEF Active
<1>2. Good(Throw(r)) /\ Follows(r, Throw(r))
  BY <1>0, EndGood, Zenon DEF Throw
<1>3. ASSUME ~go, ~stop PROVE Good(r) /\ Follows(r, r)
  <2>1. r.ws = "connecting" /\ r.outcome = "pending" /\ r.timer = "running"
    BY <1>0, <1>3 DEF Core, Record
  <2>2. Waits(r)
    BY <2>1 DEF Waits
  <2> QED BY <2>2, SameFollows DEF Good, Unoffered
<1>4. CASE go \/ stop
  <2>1. AwaitOpen(r) \in {on, Throw(r)}
    BY <1>4 DEF AwaitOpen
  <2> QED BY <1>1, <1>2, <2>1
<1>5. CASE ~go /\ ~stop
  BY <1>3, <1>5 DEF AwaitOpen
<1> QED BY <1>4, <1>5

LEMMA ResumeGood ==
  ASSUME NEW r \in Record, Core(r), Unoffered(r)
  PROVE  Good(Resume(r)) /\ Follows(r, Resume(r))
<1>1. CASE r.stage = "opening"
  BY <1>1, AwaitOpenGood DEF Resume, Unoffered
<1>2. CASE r.stage = "answering"
  BY <1>2, AwaitAnswerGood DEF Resume, Active
<1>3. CASE r.stage = "framing"
  BY <1>3, AwaitFrameGood DEF Resume, Active
<1>4. CASE r.stage \notin {"opening", "answering", "framing"}
  BY <1>4, SameFollows DEF Resume, Good, Waits
<1> QED BY <1>1, <1>2, <1>3, <1>4

-----------------------------------------------------------------------------
(* The steps of one capture *)

\* A move that the contract allows.
Moves(r, s) ==
  \/ s.stage = r.stage /\ s.held = r.held
  \/ Busy(r) /\ (Busy(s) \/ (Settled(s) /\ s.held = {}))
  \/ Busy(r) /\ r.held = {} /\ s.stage = "failed" /\ s.held = {"sdp"}
  \/ ~Busy(r) /\ Busy(s) /\ s.held = {}

LEMMA ContractStep ==
  ASSUME IInv, NEW c \in Captures, NEW s \in Record, Moves(cap[c], s),
         cap' = [cap EXCEPT ![c] = s]
  PROVE  [Contract!Next]_(Contract!vars)
<1> DEFINE ph == [d \in Captures |-> IF Busy(cap[d]) THEN "busy" ELSE cap[d].stage]
           hd == [d \in Captures |-> cap[d].held]
           r == cap[c]
<1>0. cap \in [Captures -> Record]
  BY DEF IInv
<1>1. ph' = [ph EXCEPT ![c] = IF Busy(s) THEN "busy" ELSE s.stage]
  BY <1>0, Zenon
<1>2. hd' = [hd EXCEPT ![c] = s.held]
  BY <1>0, Zenon
<1>3. /\ hd[c] = r.held /\ ph[c] = (IF Busy(r) THEN "busy" ELSE r.stage)
      /\ ph = [ph EXCEPT ![c] = ph[c]] /\ hd = [hd EXCEPT ![c] = hd[c]]
  BY Zenon
<1>4. s.held \in SUBSET Resources
  BY DEF Record
<1> HIDE DEF ph, hd
<1>5. CASE s.stage = r.stage /\ s.held = r.held
  <2>1. Busy(s) <=> Busy(r)
    BY <1>5 DEF Busy
  <2>2. ph' = ph /\ hd' = hd
    BY <1>1, <1>2, <1>3, <1>5, <2>1
  <2> QED BY <2>2 DEF Contract!vars, ph, hd
<1>6. CASE Busy(r) /\ Busy(s)
  <2>1. ph' = ph /\ ph[c] = "busy"
    BY <1>1, <1>3, <1>6
  <2>2. Contract!Work(c)
    BY <1>2, <1>4, <2>1, Zenon DEF Contract!Work, ph, hd
  <2> QED BY <2>2 DEF Contract!Next
<1>7. CASE Busy(r) /\ Settled(s) /\ s.held = {}
  <2>1. ~Busy(s) /\ s.stage \in {"returned", "failed"}
    BY <1>7 DEF Busy, Settled
  <2>2. ph[c] = "busy" /\ ph' = [ph EXCEPT ![c] = s.stage] /\ hd' = [hd EXCEPT ![c] = {}]
    BY <1>1, <1>2, <1>3, <1>7, <2>1
  <2>3. Contract!Settle(c)
    BY <2>1, <2>2, Zenon DEF Contract!Settle, ph, hd
  <2> QED BY <2>3 DEF Contract!Next
<1>8. CASE Busy(r) /\ r.held = {} /\ s.stage = "failed" /\ s.held = {"sdp"}
  <2>1. ~Busy(s)
    BY <1>8 DEF Busy
  <2>2. /\ ph[c] = "busy" /\ hd[c] = {}
        /\ ph' = [ph EXCEPT ![c] = "failed"] /\ hd' = [hd EXCEPT ![c] = {"sdp"}]
    BY <1>1, <1>2, <1>3, <1>8, <2>1
  <2>3. Contract!Settle(c)
    BY <2>2 DEF Contract!Settle, ph, hd
  <2> QED BY <2>3 DEF Contract!Next
<1>9. CASE ~Busy(r) /\ Busy(s) /\ s.held = {}
  <2>1. ph[c] # "busy"
    BY <1>3, <1>9 DEF Busy, IInv, Good, Record, Stages
  <2>2. ph' = [ph EXCEPT ![c] = "busy"] /\ hd' = [hd EXCEPT ![c] = {}]
    BY <1>1, <1>2, <1>9
  <2>3. Contract!Begin(c)
    BY <2>1, <2>2 DEF Contract!Begin, ph, hd
  <2> QED BY <2>3 DEF Contract!Next
<1> QED BY <1>5, <1>6, <1>7, <1>8, <1>9 DEF Moves

\* A step that neither begins a capture nor picks a port.
LEMMA OneStep ==
  ASSUME IInv, NEW c \in Captures, NEW s, Good(s), Step(c, s),
         s.port = cap[c].port, OnPort(s) => OnPort(cap[c]),
         s.outcome = "frame" => s.from = c \/ c \in clashed,
         Moves(cap[c], s)
  PROVE  IInv' /\ [Contract!Next]_(Contract!vars)
<1>0. cap \in [Captures -> Record] /\ s \in Record
  BY DEF IInv, Good
<1>1. cap' = [cap EXCEPT ![c] = s] /\ clashed' = clashed
  BY DEF Step
<1>2. cap'[c] = s /\ \A d \in Captures \ {c} : cap'[d] = cap[d]
  BY <1>0, <1>1
<1>3. \A d \in Captures : Good(cap'[d])
  BY <1>2 DEF IInv
<1>4. \A d \in Captures : /\ OnPort(cap'[d]) => OnPort(cap[d])
                          /\ cap'[d].port = cap[d].port
  BY <1>2
<1>5. PortsTold'
  BY <1>1, <1>4 DEF IInv, PortsTold
<1>6. FramesTold'
  BY <1>1, <1>2 DEF IInv, FramesTold
<1>7. cap' \in [Captures -> Record] /\ clashed' \subseteq Captures
  BY <1>0, <1>1 DEF IInv
<1>8. IInv'
  BY <1>3, <1>5, <1>6, <1>7 DEF IInv
<1> QED BY <1>0, <1>1, <1>8, ContractStep, Zenon

\* An event changes the capture to m, which then goes on as far as it can.
LEMMA EventStep ==
  ASSUME IInv, NEW c \in Captures, NEW m \in Record, Core(m), Unoffered(m),
         m.stage = cap[c].stage, m.port = cap[c].port,
         OnPort(m) => OnPort(cap[c]),
         Busy(cap[c]) \/ m.held = cap[c].held,
         m.outcome = "frame" => m.from = c \/ c \in clashed,
         Step(c, Resume(m))
  PROVE  IInv' /\ [Contract!Next]_(Contract!vars)
<1>1. Good(Resume(m)) /\ Follows(m, Resume(m))
  BY ResumeGood
<1>2. Busy(m) <=> Busy(cap[c])
  BY DEF Busy
<1>3. Moves(cap[c], Resume(m))
  <2>1. CASE Busy(cap[c])
    <3>1. CASE Resume(m).stage = m.stage /\ Resume(m).held = m.held
      BY <2>1, <3>1 DEF Moves, Busy
    <3>2. CASE Busy(m) /\ (Busy(Resume(m)) \/ (Settled(Resume(m)) /\ Resume(m).held = {}))
      BY <2>1, <3>2 DEF Moves
    <3> QED BY <1>1, <3>1, <3>2 DEF Follows
  <2>2. CASE ~Busy(cap[c])
    BY <1>1, <1>2, <2>2 DEF Follows, Moves
  <2> QED BY <2>1, <2>2
<1>4. /\ Resume(m).port = cap[c].port /\ (OnPort(Resume(m)) => OnPort(cap[c]))
      /\ Resume(m).outcome = "frame" => Resume(m).from = c \/ c \in clashed
  BY <1>1 DEF Follows
<1> QED BY <1>1, <1>3, <1>4, OneStep

LEMMA RejectOutcomeFacts ==
  ASSUME NEW r \in Record
  PROVE  LET s == RejectOutcome(r)
         IN /\ s \in Record
            /\ s.stage = r.stage /\ s.held = r.held /\ s.port = r.port /\ s.ws = r.ws
            /\ s.ffmpeg = r.ffmpeg /\ s.answered = r.answered /\ s.offered = r.offered
            /\ s.handled = r.handled /\ s.from = r.from /\ s.timer = r.timer
            /\ s.outcome = IF r.outcome = "pending" THEN "rejected" ELSE r.outcome
            /\ "ffmpeg" \in s.unhandled => "ffmpeg" \in r.unhandled \/ "ffmpeg" \notin r.handled
            /\ r.outcome # "pending" => s.unhandled = r.unhandled
<1>1. CASE r.outcome # "pending"
  BY <1>1 DEF RejectOutcome
<1>2. CASE r.outcome = "pending"
  <2> DEFINE u == r.unhandled \cup ({"ffmpeg"} \ r.handled)
             s == [r EXCEPT !.outcome = "rejected", !.unhandled = u]
  <2>1. RejectOutcome(r) = s
    BY <1>2 DEF RejectOutcome, Unheard, Record
  <2>2. u \in SUBSET {"ffmpeg", "answer"}
    BY DEF Record
  <2> HIDE DEF u
  <2>3. s \in Record
    BY <2>2, ZenonT(60) DEF Record
  <2>4. /\ s.stage = r.stage /\ s.held = r.held /\ s.port = r.port /\ s.ws = r.ws
        /\ s.ffmpeg = r.ffmpeg /\ s.answered = r.answered /\ s.offered = r.offered
        /\ s.handled = r.handled /\ s.from = r.from /\ s.timer = r.timer
        /\ s.outcome = "rejected" /\ s.unhandled = u
    BY DEF Record
  <2> QED BY <1>2, <2>1, <2>3, <2>4 DEF u
<1> QED BY <1>1, <1>2

LEMMA RejectAnswerFacts ==
  ASSUME NEW r \in Record
  PROVE  LET s == RejectAnswer(r)
         IN /\ s \in Record
            /\ s.stage = r.stage /\ s.held = r.held /\ s.port = r.port /\ s.ws = r.ws
            /\ s.ffmpeg = r.ffmpeg /\ s.outcome = r.outcome /\ s.offered = r.offered
            /\ s.handled = r.handled /\ s.from = r.from /\ s.timer = r.timer
            /\ s.answered = IF r.answered = "pending" THEN "rejected" ELSE r.answered
            /\ "ffmpeg" \in s.unhandled => "ffmpeg" \in r.unhandled
<1>1. CASE r.answered # "pending"
  BY <1>1 DEF RejectAnswer
<1>2. CASE r.answered = "pending"
  <2> DEFINE u == r.unhandled \cup ({"answer"} \ r.handled)
             s == [r EXCEPT !.answered = "rejected", !.unhandled = u]
  <2>1. RejectAnswer(r) = s
    BY <1>2 DEF RejectAnswer, Unheard, Record
  <2>2. u \in SUBSET {"ffmpeg", "answer"}
    BY DEF Record
  <2> HIDE DEF u
  <2>3. s \in Record
    BY <2>2, ZenonT(60) DEF Record
  <2>4. /\ s.stage = r.stage /\ s.held = r.held /\ s.port = r.port /\ s.ws = r.ws
        /\ s.ffmpeg = r.ffmpeg /\ s.outcome = r.outcome /\ s.offered = r.offered
        /\ s.handled = r.handled /\ s.from = r.from /\ s.timer = r.timer
        /\ s.answered = "rejected" /\ s.unhandled = u
    BY DEF Record
  <2> QED BY <1>2, <2>1, <2>3, <2>4 DEF u
<1> QED BY <1>1, <1>2

-----------------------------------------------------------------------------
(* One lemma per action *)

Kept == IInv' /\ [Contract!Next]_(Contract!vars)

LEMMA Facts ==
  ASSUME IInv, NEW c \in Captures
  PROVE  /\ cap[c] \in Record /\ Good(cap[c]) /\ Core(cap[c]) /\ Unoffered(cap[c])
         /\ cap[c].outcome = "frame" => cap[c].from = c \/ c \in clashed
  BY DEF IInv, Good, FramesTold

LEMMA BeginKept == ASSUME IInv, NEW c \in Captures, Begin(c) PROVE Kept
<1> DEFINE s == [Blank EXCEPT !.stage = "binding"]
<1>0. /\ cap \in [Captures -> Record] /\ ~Busy(cap[c]) /\ ~Alive(cap[c])
      /\ cap' = [cap EXCEPT ![c] = s] /\ clashed' = clashed \ {c}
  BY DEF IInv, Begin, Alive
<1>1. s \in Record
  BY ZenonT(60) DEF Blank, Record, Stages
<1>2. /\ s.stage = "binding" /\ s.held = {} /\ s.ws = "none" /\ s.ffmpeg = "none"
      /\ s.outcome = "pending" /\ s.answered = "pending" /\ s.offered = FALSE
      /\ s.handled = {} /\ s.unhandled = {}
  BY DEF Blank
<1> HIDE DEF s
<1>3. Good(s) /\ ~OnPort(s)
  BY <1>1, <1>2 DEF Good, Core, Unoffered, Waits, OnPort, Alive, WsLive, Early, Active, Settled
<1>4. cap'[c] = s /\ \A d \in Captures \ {c} : cap'[d] = cap[d]
  BY <1>0
<1>5. \A d \in Captures : Good(cap'[d])
  BY <1>3, <1>4 DEF IInv
<1>6. PortsTold'
  BY <1>0, <1>3, <1>4 DEF IInv, PortsTold
<1>7. FramesTold'
  BY <1>0, <1>2, <1>4 DEF IInv, FramesTold
<1>8. cap' \in [Captures -> Record] /\ clashed' \subseteq Captures
  BY <1>0, <1>1 DEF IInv
<1>9. IInv'
  BY <1>5, <1>6, <1>7, <1>8 DEF IInv
<1>10. Moves(cap[c], s)
  BY <1>0, <1>2 DEF Moves, Busy
<1> QED BY <1>0, <1>1, <1>9, <1>10, ContractStep, Zenon DEF Kept

\* The port picked is free of listeners and probes; whoever else has picked it
\* is waiting for its ffmpeg and counts as clashed from now on.
LEMMA PickKept ==
  ASSUME IInv, NEW c \in Captures, NEW p \in Ports,
         cap[c].stage = "binding", Free(p), Pick(c, p)
  PROVE  Kept
<1> DEFINE r == cap[c]
           s == [r EXCEPT !.stage = "probed", !.port = p]
<1>0. /\ cap \in [Captures -> Record] /\ r \in Record /\ Core(r)
      /\ cap' = [cap EXCEPT ![c] = s]
      /\ clashed' = IF Waiting(p) = {} THEN clashed ELSE clashed \cup Waiting(p) \cup {c}
  BY Facts DEF IInv, Pick
<1>1. s \in Record
  BY <1>0, ZenonT(60) DEF Record, Stages
<1>2. /\ s.stage = "probed" /\ s.port = p /\ s.held = r.held /\ s.ws = r.ws
      /\ s.ffmpeg = r.ffmpeg /\ s.outcome = r.outcome /\ s.answered = r.answered
      /\ s.offered = r.offered /\ s.handled = r.handled /\ s.unhandled = r.unhandled
  BY <1>0 DEF Record
<1> HIDE DEF s
<1>3. Good(s)
  <2>1. Core(s)
    BY <1>0, <1>2 DEF Core, Alive, WsLive, Early, Active, Settled
  <2> QED BY <1>1, <1>2, <2>1 DEF Good, Unoffered, Waits
<1>4. cap'[c] = s /\ \A d \in Captures \ {c} : cap'[d] = cap[d]
  BY <1>0
<1>5. \A d \in Captures : Good(cap'[d])
  BY <1>3, <1>4 DEF IInv
<1>6. clashed \subseteq clashed' /\ clashed' \subseteq Captures
  BY <1>0 DEF IInv, Waiting
<1>7. \A d \in Captures \ {c} :
        OnPort(cap[d]) /\ cap[d].port = p => d \in clashed' /\ c \in clashed'
  <2> SUFFICES ASSUME NEW d \in Captures \ {c}, OnPort(cap[d]), cap[d].port = p
               PROVE  d \in clashed' /\ c \in clashed'
    OBVIOUS
  <2>1. cap[d].ffmpeg = "starting"
    BY DEF Free, Bound, OnPort, Alive
  <2>2. d \in Waiting(p)
    BY <2>1 DEF Waiting
  <2> QED BY <1>0, <2>2
<1>8. PortsTold'
  <2> SUFFICES ASSUME NEW d \in Captures, NEW e \in Captures, d # e,
                      OnPort(cap'[d]), OnPort(cap'[e]), cap'[d].port = cap'[e].port
               PROVE  d \in clashed' /\ e \in clashed'
    BY DEF PortsTold
  <2>1. CASE d # c /\ e # c
    BY <1>4, <1>6, <2>1 DEF IInv, PortsTold
  <2>2. CASE d = c
    BY <1>2, <1>4, <1>7, <2>2
  <2>3. CASE e = c
    BY <1>2, <1>4, <1>7, <2>3
  <2> QED BY <2>1, <2>2, <2>3
<1>9. FramesTold'
  <2>1. s.outcome = "pending"
    BY <1>0, <1>2 DEF Core, Early
  <2> QED BY <1>4, <1>6, <2>1 DEF IInv, FramesTold
<1>10. cap' \in [Captures -> Record]
  BY <1>0, <1>1
<1>11. IInv'
  BY <1>5, <1>6, <1>8, <1>9, <1>10 DEF IInv
<1>12. Moves(cap[c], s)
  BY <1>2 DEF Moves, Busy
<1> QED BY <1>0, <1>1, <1>11, <1>12, ContractStep, Zenon DEF Kept

\* A capture that ends before it has anything to release.
LEMMA EarlyFailureKept ==
  ASSUME IInv, NEW c \in Captures, cap[c].stage \in {"binding", "probed"},
         NEW left \in {{}, {"sdp"}},
         Step(c, [cap[c] EXCEPT !.stage = "failed", !.held = left])
  PROVE  Kept
<1> DEFINE r == cap[c]
           s == [r EXCEPT !.stage = "failed", !.held = left]
<1>0. r \in Record /\ Core(r) /\ left \in SUBSET Resources
  BY Facts DEF Resources
<1>1. s \in Record
  BY <1>0, ZenonT(60) DEF Record, Stages
<1>2. /\ s.stage = "failed" /\ s.port = r.port /\ s.held = left /\ s.ws = r.ws
      /\ s.ffmpeg = r.ffmpeg /\ s.outcome = r.outcome /\ s.answered = r.answered
      /\ s.offered = r.offered /\ s.handled = r.handled /\ s.unhandled = r.unhandled
  BY <1>0 DEF Record
<1>3. /\ r.ws = "none" /\ r.ffmpeg = "none" /\ r.outcome = "pending" /\ r.held = {}
      /\ r.answered = "pending" /\ r.unhandled = {}
  BY <1>0 DEF Core, Early
<1> HIDE DEF s
<1>4. Good(s) /\ ~OnPort(s)
  BY <1>1, <1>2, <1>3
     DEF Good, Core, Unoffered, Waits, OnPort, Alive, WsLive, Early, Active, Settled
<1>5. Moves(cap[c], s)
  BY <1>2, <1>3 DEF Moves, Busy, Settled
<1>6. Step(c, s) /\ s.port = cap[c].port /\ s.outcome # "frame"
  BY <1>2, <1>3 DEF s
<1> QED BY <1>4, <1>5, <1>6, OneStep DEF Kept

LEMMA ProbeBoundKept == ASSUME IInv, NEW c \in Captures, ProbeBound(c) PROVE Kept
<1>0. cap[c].stage = "binding"
  BY DEF ProbeBound
<1>1. ASSUME NEW p \in Ports, Free(p), Pick(c, p) PROVE Kept
  BY <1>0, <1>1, PickKept
<1>2. CASE Step(c, [cap[c] EXCEPT !.stage = "failed"])
  <2>1. cap[c] \in Record /\ cap[c].held = {}
    BY <1>0, Facts DEF Core, Early
  <2>2. [cap[c] EXCEPT !.stage = "failed"] = [cap[c] EXCEPT !.stage = "failed", !.held = {}]
    BY <2>1, ZenonT(60) DEF Record
  <2> QED BY <1>0, <1>2, <2>2, EarlyFailureKept, Zenon
<1> QED BY <1>1, <1>2 DEF ProbeBound

LEMMA SdpFailsKept == ASSUME IInv, NEW c \in Captures, SdpFails(c) PROVE Kept
  BY EarlyFailureKept, Zenon DEF SdpFails

LEMMA SetupKept == ASSUME IInv, NEW c \in Captures, Setup(c) PROVE Kept
<1> DEFINE r == cap[c]
           s == [r EXCEPT !.held = Resources, !.ffmpeg = "starting", !.stage = "opening",
                          !.ws = "connecting", !.timer = "running", !.handled = {"ffmpeg"}]
<1>0. r \in Record /\ Core(r) /\ r.stage = "probed"
  BY Facts DEF Setup
<1>1. Step(c, s)
  <2>1. [Started(r) EXCEPT !.stage = "opening", !.held = Resources, !.ws = "connecting",
                           !.timer = "running", !.handled = {"ffmpeg"}] = s
    BY <1>0, ZenonT(60) DEF Started, Record
  <2> QED BY <2>1 DEF Setup
<1>2. s \in Record
  <2> DEFINE u == [r EXCEPT !.held = Resources, !.ffmpeg = "starting", !.stage = "opening"]
  <2>1. u \in Record
    BY <1>0, ZenonT(60) DEF Record, Stages
  <2>2. s = [u EXCEPT !.ws = "connecting", !.timer = "running", !.handled = {"ffmpeg"}]
    BY <1>0 DEF Record
  <2> HIDE DEF u, s
  <2>3. [u EXCEPT !.ws = "connecting", !.timer = "running", !.handled = {"ffmpeg"}] \in Record
    BY <2>1, ZenonT(60) DEF Record
  <2> QED BY <2>2, <2>3
<1>3. /\ s.stage = "opening" /\ s.port = r.port /\ s.held = Resources
      /\ s.ws = "connecting" /\ s.ffmpeg = "starting" /\ s.outcome = r.outcome
      /\ s.answered = r.answered /\ s.offered = r.offered /\ s.handled = {"ffmpeg"}
      /\ s.unhandled = r.unhandled /\ s.timer = "running"
  BY <1>0 DEF Record
<1>4. r.outcome = "pending" /\ r.answered = "pending" /\ r.unhandled = {} /\ ~r.offered
  BY <1>0 DEF Core, Early
<1> HIDE DEF s
<1>5. Good(s)
  BY <1>2, <1>3, <1>4
     DEF Good, Core, Unoffered, Waits, Alive, WsLive, Early, Active, Settled, Resources
<1>6. OnPort(r) /\ Moves(r, s)
  BY <1>0, <1>3 DEF OnPort, Moves, Busy
<1> QED BY <1>1, <1>3, <1>4, <1>5, <1>6, OneStep DEF Kept

LEMMA SetupThrowsKept == ASSUME IInv, NEW c \in Captures, SetupThrows(c) PROVE Kept
<1> DEFINE r == cap[c]
           m == Started(r)
           s == [Cleanup(m) EXCEPT !.stage = "failed"]
<1>0. r \in Record /\ Core(r) /\ r.stage = "probed" /\ Step(c, s)
  BY Facts DEF SetupThrows, Throw
<1>1. m \in Record
  BY <1>0, ZenonT(60) DEF Started, Record, Resources
<1>2. /\ m.port = r.port /\ m.ws = r.ws /\ m.outcome = r.outcome /\ m.handled = r.handled
      /\ m.answered = r.answered /\ m.offered = r.offered /\ m.unhandled = r.unhandled
      /\ m.ffmpeg = "starting"
  BY <1>0 DEF Started, Record
<1> HIDE DEF m
<1>3. /\ s \in Record /\ s.stage = "failed" /\ s.held = {} /\ s.port = m.port
      /\ s.ws = (IF WsLive(m) THEN "closing" ELSE m.ws)
      /\ s.ffmpeg = (IF Alive(m) THEN "killed" ELSE m.ffmpeg)
      /\ s.outcome = m.outcome /\ s.answered = m.answered /\ s.offered = m.offered
      /\ s.handled = m.handled /\ s.unhandled = m.unhandled
  BY <1>1, CleanupFacts, ZenonT(60)
<1>4. /\ r.outcome = "pending" /\ r.answered = "pending" /\ r.unhandled = {}
      /\ r.ws = "none"
  BY <1>0 DEF Core, Early
<1> HIDE DEF s
<1>5. s.ws = "none" /\ s.ffmpeg = "killed"
  BY <1>2, <1>3, <1>4 DEF WsLive, Alive
<1>6. Good(s) /\ ~OnPort(s)
  BY <1>2, <1>3, <1>4, <1>5
     DEF Good, Core, Unoffered, Waits, OnPort, Alive, WsLive, Early, Active, Settled
<1>7. Moves(r, s)
  BY <1>0, <1>3 DEF Moves, Busy, Settled
<1> QED BY <1>0, <1>2, <1>3, <1>4, <1>6, <1>7, OneStep DEF Kept

LEMMA WsOpensKept == ASSUME IInv, NEW c \in Captures, WsOpens(c) PROVE Kept
<1> DEFINE r == cap[c]
           m == [r EXCEPT !.ws = "open"]
<1>0. r \in Record /\ Core(r) /\ Unoffered(r) /\ r.ws = "connecting" /\ Step(c, Resume(m))
  BY Facts DEF WsOpens
<1>1. m \in Record
  BY <1>0 DEF Record, Stages
<1>2. /\ m.stage = r.stage /\ m.port = r.port /\ m.held = r.held
      /\ m.ffmpeg = r.ffmpeg /\ m.outcome = r.outcome /\ m.answered = r.answered
      /\ m.offered = r.offered /\ m.handled = r.handled
      /\ m.unhandled = r.unhandled /\ m.from = r.from /\ m.timer = r.timer
      /\ m.ws = "open"
  BY <1>0 DEF Record
<1> HIDE DEF m
<1>3. Core(m) /\ Unoffered(m)
  BY <1>0, <1>1, <1>2 DEF Core, Unoffered, Alive, WsLive, Early, Active, Settled
<1>4. OnPort(m) => OnPort(r)
  BY <1>0, <1>2 DEF OnPort, Alive
<1> QED BY <1>0, <1>1, <1>2, <1>3, <1>4, Facts, EventStep, ZenonT(60) DEF Kept, m

LEMMA TimerFiresKept == ASSUME IInv, NEW c \in Captures, TimerFires(c) PROVE Kept
<1> DEFINE r == cap[c]
           m == [r EXCEPT !.timer = "fired"]
<1>0. r \in Record /\ Core(r) /\ Unoffered(r) /\ Step(c, Resume(m))
  BY Facts DEF TimerFires
<1>1. m \in Record
  BY <1>0 DEF Record, Stages
<1>2. /\ m.stage = r.stage /\ m.port = r.port /\ m.held = r.held /\ m.ws = r.ws
      /\ m.ffmpeg = r.ffmpeg /\ m.outcome = r.outcome /\ m.answered = r.answered
      /\ m.offered = r.offered /\ m.handled = r.handled
      /\ m.unhandled = r.unhandled /\ m.from = r.from /\ m.timer = "fired"
  BY <1>0 DEF Record
<1> HIDE DEF m
<1>3. Core(m) /\ Unoffered(m)
  BY <1>0, <1>1, <1>2 DEF Core, Unoffered, Alive, WsLive, Early, Active, Settled
<1>4. OnPort(m) => OnPort(r)
  BY <1>0, <1>2 DEF OnPort, Alive
<1> QED BY <1>0, <1>1, <1>2, <1>3, <1>4, Facts, EventStep, ZenonT(60) DEF Kept, m

LEMMA AnswerAppliedKept == ASSUME IInv, NEW c \in Captures, AnswerApplied(c) PROVE Kept
<1> DEFINE r == cap[c]
           m == [r EXCEPT !.answered = "resolved"]
<1>0. r \in Record /\ Core(r) /\ Unoffered(r) /\ r.offered /\ r.ws = "open"
      /\ Step(c, Resume(m))
  BY Facts DEF AnswerApplied
<1>1. m \in Record
  BY <1>0 DEF Record, Stages
<1>2. /\ m.stage = r.stage /\ m.port = r.port /\ m.held = r.held /\ m.ws = r.ws
      /\ m.ffmpeg = r.ffmpeg /\ m.outcome = r.outcome /\ m.offered = r.offered
      /\ m.handled = r.handled /\ m.unhandled = r.unhandled /\ m.from = r.from /\ m.timer = r.timer
      /\ m.answered = "resolved"
  BY <1>0, ZenonT(60) DEF Record
<1> HIDE DEF m
<1>3. Core(m) /\ Unoffered(m)
  BY <1>0, <1>1, <1>2 DEF Core, Unoffered, Alive, WsLive, Early, Active, Settled
<1>4. OnPort(m) => OnPort(r)
  BY <1>0, <1>2 DEF OnPort, Alive
<1> QED BY <1>0, <1>1, <1>2, <1>3, <1>4, Facts, EventStep, ZenonT(60) DEF Kept, m

LEMMA FfmpegListensKept == ASSUME IInv, NEW c \in Captures, FfmpegListens(c) PROVE Kept
<1> DEFINE r == cap[c]
           m == [r EXCEPT !.ffmpeg = "listening"]
<1>0. Good(r) /\ r \in Record /\ Core(r) /\ Unoffered(r) /\ r.ffmpeg = "starting"
      /\ Step(c, m)
  BY Facts DEF FfmpegListens
<1>1. m \in Record
  BY <1>0 DEF Record, Stages
<1>2. /\ m.stage = r.stage /\ m.port = r.port /\ m.held = r.held /\ m.ws = r.ws
      /\ m.outcome = r.outcome /\ m.answered = r.answered /\ m.offered = r.offered
      /\ m.handled = r.handled /\ m.unhandled = r.unhandled /\ m.from = r.from /\ m.timer = r.timer
      /\ m.ffmpeg = "listening"
  BY <1>0 DEF Record
<1> HIDE DEF m
<1>3. Core(m) /\ Unoffered(m)
  BY <1>0, <1>1, <1>2 DEF Core, Unoffered, Alive, WsLive, Early, Active, Settled
<1>4. Good(m) /\ (OnPort(m) => OnPort(r)) /\ Moves(r, m)
  BY <1>0, <1>1, <1>2, <1>3 DEF Good, Waits, OnPort, Alive, Moves
<1> QED BY <1>0, <1>2, <1>4, Facts, OneStep DEF Kept

LEMMA WsClosesNormallyKept == ASSUME IInv, NEW c \in Captures, WsClosesNormally(c) PROVE Kept
<1> DEFINE r == cap[c]
           m == [r EXCEPT !.ws = "closed", !.held = @ \ {"ws"}]
<1>0. Good(r) /\ r \in Record /\ Core(r) /\ Unoffered(r) /\ r.ws = "open"
      /\ Step(c, m)
  BY Facts DEF WsClosesNormally
<1>1. m \in Record
  BY <1>0, ZenonT(60) DEF Record, Stages
<1>2. /\ m.stage = r.stage /\ m.port = r.port /\ m.ffmpeg = r.ffmpeg
      /\ m.outcome = r.outcome /\ m.answered = r.answered /\ m.offered = r.offered
      /\ m.handled = r.handled /\ m.unhandled = r.unhandled /\ m.from = r.from /\ m.timer = r.timer
      /\ m.ws = "closed" /\ m.held = r.held \ {"ws"}
  BY <1>0 DEF Record
<1> HIDE DEF m
<1>3. Core(m) /\ Unoffered(m)
  BY <1>0, <1>1, <1>2 DEF Core, Unoffered, Alive, WsLive, Early, Active, Settled
<1>4. Good(m) /\ (OnPort(m) => OnPort(r))
  BY <1>0, <1>1, <1>2, <1>3 DEF Good, Waits, OnPort, Alive
<1>5. Moves(r, m)
  <2>1. r.stage \in Active
    BY <1>0 DEF Core, WsLive, Early, Active, Settled, Record, Stages
  <2> QED BY <1>2, <2>1 DEF Moves, Busy, Active
<1> QED BY <1>0, <1>2, <1>4, <1>5, Facts, OneStep DEF Kept

LEMMA SignalRefusedKept == ASSUME IInv, NEW c \in Captures, SignalRefused(c) PROVE Kept
<1> DEFINE r == cap[c]
           m == RejectAnswer(r)
<1>0. r \in Record /\ Core(r) /\ Unoffered(r) /\ r.ws \in {"open", "closing"} /\ Step(c, Resume(m))
  BY Facts DEF SignalRefused
<1>1. m \in Record
  BY <1>0, RejectAnswerFacts
<1>2. /\ m.stage = r.stage /\ m.port = r.port /\ m.held = r.held /\ m.ws = r.ws
      /\ m.ffmpeg = r.ffmpeg /\ m.outcome = r.outcome /\ m.offered = r.offered
      /\ m.handled = r.handled /\ m.from = r.from /\ m.timer = r.timer
      /\ m.answered = (IF r.answered = "pending" THEN "rejected" ELSE r.answered)
      /\ "ffmpeg" \in m.unhandled => "ffmpeg" \in r.unhandled
  BY <1>0, RejectAnswerFacts, Zenon
<1> HIDE DEF m
<1>3. Core(m) /\ Unoffered(m)
  BY <1>0, <1>1, <1>2 DEF Core, Unoffered, Alive, WsLive, Early, Active, Settled
<1>4. OnPort(m) => OnPort(r)
  BY <1>0, <1>2 DEF OnPort, Alive
<1> QED BY <1>0, <1>1, <1>2, <1>3, <1>4, Facts, EventStep DEF Kept, m

LEMMA WsBreaksKept == ASSUME IInv, NEW c \in Captures, WsBreaks(c) PROVE Kept
<1> DEFINE r == cap[c]
           n == [r EXCEPT !.ws = "closed", !.held = @ \ {"ws"}]
           m == RejectAnswer(n)
<1>0. /\ r \in Record /\ Core(r) /\ Unoffered(r) /\ Step(c, Resume(m))
      /\ r.ws \in {"connecting", "open", "closing"}
  BY Facts DEF WsBreaks
<1>1. n \in Record
  BY <1>0, ZenonT(60) DEF Record
<1>2. /\ n.stage = r.stage /\ n.port = r.port /\ n.ffmpeg = r.ffmpeg
      /\ n.outcome = r.outcome /\ n.answered = r.answered /\ n.offered = r.offered
      /\ n.handled = r.handled /\ n.unhandled = r.unhandled /\ n.from = r.from /\ n.timer = r.timer
      /\ n.ws = "closed" /\ n.held = r.held \ {"ws"}
  BY <1>0 DEF Record
<1> HIDE DEF n
<1>3. m \in Record
  BY <1>1, RejectAnswerFacts
<1>4. /\ m.stage = n.stage /\ m.port = n.port /\ m.held = n.held /\ m.ws = n.ws
      /\ m.ffmpeg = n.ffmpeg /\ m.outcome = n.outcome /\ m.offered = n.offered
      /\ m.handled = n.handled /\ m.from = n.from /\ m.timer = n.timer
      /\ m.answered = (IF n.answered = "pending" THEN "rejected" ELSE n.answered)
      /\ "ffmpeg" \in m.unhandled => "ffmpeg" \in n.unhandled
  BY <1>1, RejectAnswerFacts
<1> HIDE DEF m
<1>5. r.stage \notin Early
  BY <1>0 DEF Core
<1>6. Core(m)
  BY <1>0, <1>2, <1>4, <1>5 DEF Core, Alive, WsLive, Settled
<1>7. Unoffered(m) /\ (OnPort(m) => OnPort(r))
  BY <1>0, <1>2, <1>4 DEF Unoffered, OnPort, Alive
<1>8. Busy(r) \/ m.held = r.held
  <2>1. CASE Settled(r)
    BY <1>0, <1>2, <1>4, <2>1 DEF Core
  <2>2. CASE ~Settled(r)
    BY <1>5, <2>2 DEF Busy, Settled, Early
  <2> QED BY <2>1, <2>2, SMTT(30)
<1>9. m.stage = r.stage /\ m.port = r.port /\ m.outcome = r.outcome /\ m.from = r.from
  BY <1>2, <1>4
<1> QED BY <1>0, <1>3, <1>6, <1>7, <1>8, <1>9, Facts, EventStep DEF Kept

LEMMA FfmpegEndsKept == ASSUME IInv, NEW c \in Captures, FfmpegEnds(c) PROVE Kept
<1> DEFINE r == cap[c]
           n == [r EXCEPT !.ffmpeg = "gone", !.held = @ \ {"ffmpeg"}]
           m == RejectOutcome(n)
<1>0. /\ r \in Record /\ Core(r) /\ Unoffered(r) /\ Step(c, Resume(m))
      /\ r.ffmpeg \in {"starting", "listening", "killed"}
  BY Facts DEF FfmpegEnds
<1>1. n \in Record
  BY <1>0, ZenonT(60) DEF Record
<1>2. /\ n.stage = r.stage /\ n.port = r.port /\ n.ws = r.ws
      /\ n.outcome = r.outcome /\ n.answered = r.answered /\ n.offered = r.offered
      /\ n.handled = r.handled /\ n.unhandled = r.unhandled /\ n.from = r.from /\ n.timer = r.timer
      /\ n.ffmpeg = "gone" /\ n.held = r.held \ {"ffmpeg"}
  BY <1>0 DEF Record
<1> HIDE DEF n
<1>3. m \in Record
  BY <1>1, RejectOutcomeFacts
<1>4. /\ m.stage = n.stage /\ m.port = n.port /\ m.held = n.held /\ m.ws = n.ws
      /\ m.ffmpeg = n.ffmpeg /\ m.answered = n.answered /\ m.offered = n.offered
      /\ m.handled = n.handled /\ m.from = n.from /\ m.timer = n.timer
      /\ m.outcome = (IF n.outcome = "pending" THEN "rejected" ELSE n.outcome)
      /\ "ffmpeg" \in m.unhandled => "ffmpeg" \in n.unhandled \/ "ffmpeg" \notin n.handled
  BY <1>1, RejectOutcomeFacts
<1> HIDE DEF m
<1>5. r.stage \notin Early
  BY <1>0 DEF Core
<1>6. Core(m)
  BY <1>0, <1>2, <1>4, <1>5 DEF Core, Alive, WsLive, Settled
<1>7. Unoffered(m) /\ (OnPort(m) => OnPort(r))
  <2>1. ~Alive(m) /\ m.stage # "probed"
    BY <1>2, <1>4, <1>5, SMTT(30) DEF Alive, Early
  <2> QED BY <1>0, <1>2, <1>4, <2>1 DEF Unoffered, OnPort
<1>8. Busy(r) \/ m.held = r.held
  <2>1. CASE Settled(r)
    BY <1>0, <1>2, <1>4, <2>1 DEF Core
  <2>2. CASE ~Settled(r)
    BY <1>5, <2>2 DEF Busy, Settled, Early
  <2> QED BY <2>1, <2>2
<1>9. /\ m.stage = r.stage /\ m.port = r.port /\ m.from = r.from
      /\ m.outcome = "frame" => r.outcome = "frame"
  BY <1>2, <1>4
<1> QED BY <1>0, <1>3, <1>6, <1>7, <1>8, <1>9, Facts, EventStep DEF Kept

\* A capture that forwards packets is in its last wait: its own ffmpeg runs.
LEMMA StreamsOnPort ==
  ASSUME IInv, NEW d \in Captures, Streams(cap[d])
  PROVE  OnPort(cap[d])
<1>1. /\ cap[d] \in Record /\ Good(cap[d]) /\ Core(cap[d]) /\ Unoffered(cap[d])
      /\ "udp" \in cap[d].held /\ cap[d].answered = "resolved"
  BY Facts DEF Streams
<1>2. cap[d].stage \in Active
  BY <1>1, SMTT(30) DEF Core, Early, Active, Settled, Record, Stages
<1>3. cap[d].stage = "framing"
  BY <1>1, <1>2 DEF Core, Good, Unoffered, Waits, Active
<1> QED BY <1>1, <1>2, <1>3 DEF Core, Good, Waits, OnPort

LEMMA FrameDecodedKept == ASSUME IInv, NEW c \in Captures, FrameDecoded(c) PROVE Kept
<1>1. PICK d \in Captures :
        /\ Streams(cap[d]) /\ cap[d].port = cap[c].port
        /\ Step(c, Resume([cap[c] EXCEPT !.ffmpeg = "gone", !.held = @ \ {"ffmpeg"},
                                          !.outcome = "frame", !.from = d]))
  BY Zenon DEF FrameDecoded
<1> DEFINE r == cap[c]
           m == [r EXCEPT !.ffmpeg = "gone", !.held = @ \ {"ffmpeg"},
                          !.outcome = "frame", !.from = d]
<1>2. r \in Record /\ Core(r) /\ Unoffered(r) /\ r.ffmpeg = "listening"
  BY Facts DEF FrameDecoded
<1>3. m \in Record
  BY <1>2, ZenonT(60) DEF Record
<1>4. /\ m.stage = r.stage /\ m.port = r.port /\ m.ws = r.ws
      /\ m.answered = r.answered /\ m.offered = r.offered /\ m.handled = r.handled
      /\ m.unhandled = r.unhandled /\ m.timer = r.timer
      /\ m.ffmpeg = "gone" /\ m.held = r.held \ {"ffmpeg"}
      /\ m.outcome = "frame" /\ m.from = d
  BY <1>2 DEF Record
<1> HIDE DEF m
<1>5. r.stage \in Active
  BY <1>2 DEF Core, Alive, Early, Active, Settled, Record, Stages
<1>6. Core(m)
  BY <1>2, <1>4, <1>5 DEF Core, Alive, WsLive, Early, Active, Settled
<1>7. Unoffered(m) /\ ~OnPort(m) /\ Busy(r)
  BY <1>2, <1>4, <1>5 DEF Unoffered, OnPort, Alive, Busy, Active
<1>8. d = c \/ c \in clashed
  <2>1. OnPort(r) /\ OnPort(cap[d])
    BY <1>1, <1>2, StreamsOnPort DEF OnPort, Alive
  <2> QED BY <1>1, <2>1 DEF IInv, PortsTold
<1> QED BY <1>1, <1>3, <1>4, <1>6, <1>7, <1>8, EventStep, Zenon DEF Kept, m

LEMMA OfferReadyKept == ASSUME IInv, NEW c \in Captures, OfferReady(c) PROVE Kept
<1> DEFINE r == cap[c]
           o == r.offered \/ r.ws = "open"
           m == [r EXCEPT !.offered = o, !.handled = @ \cup {"answer"}]
<1>0. r \in Record /\ Core(r) /\ r.stage = "offering" /\ Step(c, AwaitAnswer(m))
  BY Facts DEF OfferReady
<1>1. o \in BOOLEAN /\ (r.offered => o)
  BY <1>0 DEF Record
<1> HIDE DEF o
<1>2. m \in Record
  BY <1>0, <1>1, ZenonT(60) DEF Record
<1>3. /\ m.stage = r.stage /\ m.port = r.port /\ m.held = r.held /\ m.ws = r.ws
      /\ m.ffmpeg = r.ffmpeg /\ m.outcome = r.outcome /\ m.answered = r.answered
      /\ m.unhandled = r.unhandled /\ m.from = r.from /\ m.timer = r.timer
      /\ m.offered = o /\ m.handled = r.handled \cup {"answer"}
  BY <1>0 DEF Record
<1> HIDE DEF m
<1>4. Core(m) /\ m.stage \in Active
  BY <1>0, <1>1, <1>3 DEF Core, Alive, WsLive, Early, Active, Settled
<1>5. Good(AwaitAnswer(m)) /\ Follows(m, AwaitAnswer(m))
  BY <1>2, <1>4, AwaitAnswerGood
<1>6. (OnPort(m) => OnPort(r)) /\ Busy(r) /\ Busy(m)
  BY <1>0, <1>3 DEF OnPort, Alive, Busy
<1>7. Moves(r, AwaitAnswer(m))
  BY <1>3, <1>5, <1>6 DEF Follows, Moves
<1>8. /\ AwaitAnswer(m).port = r.port /\ (OnPort(AwaitAnswer(m)) => OnPort(r))
      /\ AwaitAnswer(m).outcome = r.outcome /\ AwaitAnswer(m).from = r.from
  BY <1>3, <1>5, <1>6 DEF Follows
<1> QED BY <1>0, <1>5, <1>7, <1>8, Facts, OneStep DEF Kept

LEMMA OfferFailsKept == ASSUME IInv, NEW c \in Captures, OfferFails(c) PROVE Kept
<1> DEFINE r == cap[c]
<1>0. r \in Record /\ Core(r) /\ r.stage = "offering" /\ Step(c, Throw(r))
  BY Facts DEF OfferFails
<1>1. Good(Throw(r)) /\ Follows(r, Throw(r))
  BY <1>0, EndGood, Zenon DEF Throw, Active
<1>2. Moves(r, Throw(r))
  BY <1>1 DEF Follows, Moves
<1> QED BY <1>0, <1>1, <1>2, Facts, OneStep DEF Follows, Kept

-----------------------------------------------------------------------------
LEMMA StepKept == ASSUME IInv, [Next]_vars PROVE Kept
<1>1. CASE UNCHANGED vars
  <2>1. cap' = cap /\ clashed' = clashed
    BY <1>1 DEF vars
  <2>2. IInv'
    BY <2>1 DEF IInv, PortsTold, FramesTold
  <2>3. UNCHANGED Contract!vars
    BY <2>1 DEF Contract!vars
  <2> QED BY <2>2, <2>3 DEF Kept
<1>2. ASSUME NEW c \in Captures,
             Begin(c) \/ ProbeBound(c) \/ Setting(c) \/ Offering(c) \/ TimerFires(c)
      PROVE  Kept
  BY <1>2, BeginKept, ProbeBoundKept, SdpFailsKept, SetupThrowsKept, SetupKept,
     OfferReadyKept, OfferFailsKept, TimerFiresKept DEF Setting, Offering
<1>3. ASSUME NEW c \in Captures,
             FfmpegListens(c) \/ FfmpegEnds(c) \/ FrameDecoded(c)
      PROVE  Kept
  BY <1>3, FfmpegListensKept, FfmpegEndsKept, FrameDecodedKept
<1>4. ASSUME NEW c \in Captures,
             \/ WsOpens(c) \/ WsBreaks(c) \/ WsClosesNormally(c)
             \/ AnswerApplied(c) \/ SignalRefused(c)
      PROVE  Kept
  BY <1>4, WsOpensKept, WsBreaksKept, WsClosesNormallyKept, AnswerAppliedKept,
     SignalRefusedKept
<1> QED BY <1>1, <1>2, <1>3, <1>4 DEF Next

LEMMA InitInv == Init => IInv
<1> SUFFICES ASSUME Init PROVE IInv
  OBVIOUS
<1>1. Blank \in Record
  BY ZenonT(60) DEF Blank, Record, Stages
<1>2. Good(Blank) /\ ~OnPort(Blank) /\ Blank.outcome # "frame"
  BY <1>1, Zenon DEF Blank, Good, Core, Unoffered, Waits, OnPort, Alive, WsLive, Early, Active, Settled
<1>3. \A c \in Captures : cap[c] = Blank
  BY DEF Init
<1>4. cap \in [Captures -> Record] /\ clashed \subseteq Captures
  BY <1>1 DEF Init
<1> QED BY <1>2, <1>3, <1>4 DEF IInv, PortsTold, FramesTold

LEMMA InvHolds == Spec => []IInv
<1>1. IInv /\ [Next]_vars => IInv'
  BY StepKept DEF Kept
<1> QED BY InitInv, <1>1, PTL DEF Spec

\* Type correctness: what cleanup() has to release is what is still open.
THEOREM TypeCorrect == Spec => []TypeOK
<1>1. IInv => TypeOK
  BY DEF IInv, TypeOK, Good, Core, Alive, WsLive
<1> QED BY <1>1, InvHolds, PTL

\* However many captures run on however few ports, a returned frame is one of
\* the camera asked for unless the port was picked twice in the race window
\* of _pickFreeUdpPort().
THEOREM FrameIsOwn == Spec => []OwnFrame
<1>1. IInv => OwnFrame
  BY DEF IInv, OwnFrame, Good, Core, FramesTold
<1> QED BY <1>1, InvHolds, PTL

\* A spawn failure or an early end of ffmpeg is heard by one of the races.
THEOREM SpawnFailureIsHeard == Spec => []SpawnFailureHeard
<1>1. IInv => SpawnFailureHeard
  BY DEF IInv, SpawnFailureHeard, Good, Core
<1> QED BY <1>1, InvHolds, PTL

\* A wait of captureStreamFrame() is for promises that are all pending, with the
\* timer running: no wakeup is lost between its races, which is what the
\* liveness of the contract rests on.
THEOREM WakeupsAreNotLost == Spec => []NoLostWakeup
<1>1. IInv => NoLostWakeup
  BY DEF IInv, NoLostWakeup, Good
<1> QED BY <1>1, InvHolds, PTL

\* captureStreamFrame() implements the safety part of its contract: a capture
\* settles once and holds nothing afterwards.
THEOREM ImplementsContract == Spec => Contract!Safety
<1>1. Init => Contract!Init
  <2> SUFFICES ASSUME Init PROVE Contract!Init
    OBVIOUS
  <2>1. \A c \in Captures : cap[c].stage = "idle" /\ cap[c].held = {} /\ ~Busy(cap[c])
    BY DEF Init, Blank, Busy
  <2> QED BY <2>1 DEF Contract!Init
<1>2. IInv /\ [Next]_vars => [Contract!Next]_(Contract!vars)
  BY StepKept DEF Kept
<1> QED BY <1>1, <1>2, InvHolds, PTL DEF Spec, Contract!Safety
=============================================================================
