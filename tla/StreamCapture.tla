--------------------------- MODULE StreamCapture ---------------------------
(***************************************************************************)
(* captureStreamFrame() of src/cameraStreamCapture.js: one frame of a      *)
(* camera by way of a signaling WebSocket, a WebRTC peer connection, a UDP *)
(* socket and an ffmpeg process, for any number of concurrent captures.    *)
(*                                                                         *)
(* A step is an event (of the WebSocket, ffmpeg, the peer connection or    *)
(* the timer) with everything that the function does because of it before  *)
(* the next event, the finally block included.  A promise that rejects     *)
(* while nobody waits for it, in a race or otherwise, is reported by       *)
(* Node.js at the end of that step; the capture goes on here, as it does   *)
(* in a process that has a handler for such reports.                       *)
(***************************************************************************)
EXTENDS Naturals, FiniteSets

CONSTANTS
  Captures,   \* calls of captureStreamFrame(), each for a camera of its own
  Ports,      \* UDP ports of the machine
  Nobody,     \* no capture
  NoPort      \* no port yet

ASSUME CaptureAssumption == Nobody \notin Captures /\ NoPort \notin Ports

VARIABLES
  cap,        \* what each capture is doing
  clashed     \* captures whose port was picked twice before ffmpeg had it

vars == <<cap, clashed>>

Resources == {"sdp", "ffmpeg", "udp", "peer", "ws"}

Stages == {"idle", "binding", "probed", "opening", "offering", "answering",
           "framing", "returned", "failed"}

Record ==
  [stage     : Stages,
   port      : Ports \cup {NoPort},
   held      : SUBSET Resources,     \* what cleanup() has to release
   ws        : {"none", "connecting", "open", "closing", "closed"},
   ffmpeg    : {"none", "starting", "listening", "killed", "gone"},
   outcome   : {"pending", "frame", "rejected"},      \* ffmpegOutcome
   answered  : {"pending", "resolved", "rejected"},   \* remoteAnswered
   timer     : {"off", "running", "fired"},
   offered   : BOOLEAN,              \* the SDP_OFFER was really sent
   handled   : SUBSET {"ffmpeg", "answer"},   \* promises somebody waits for
   unhandled : SUBSET {"ffmpeg", "answer"},   \* ... rejected without that
   from      : Captures \cup {Nobody}]        \* whose stream the frame shows

Blank == [stage |-> "idle", port |-> NoPort, held |-> {}, ws |-> "none",
          ffmpeg |-> "none", outcome |-> "pending", answered |-> "pending",
          timer |-> "off", offered |-> FALSE, handled |-> {},
          unhandled |-> {}, from |-> Nobody]

Settled(r) == r.stage \in {"returned", "failed"}
Busy(r) == r.stage \notin {"idle", "returned", "failed"}

\* The sockets of the operating system: the probe of _pickFreeUdpPort() and
\* the one ffmpeg opens for the SDP file.
Bound(r) == r.stage = "probed" \/ r.ffmpeg = "listening"
Free(p) == \A d \in Captures : Bound(cap[d]) => cap[d].port # p

-----------------------------------------------------------------------------
(* What captureStreamFrame() does up to its next wait *)

\* Mutant: the ffmpeg process is left to itself.
Cleanup_NoKill(r) ==
  [r EXCEPT !.held = {},
            !.ws = IF @ \in {"connecting", "open"} THEN "closing" ELSE @]

\* cleanup() of the finally block
Cleanup(r) ==
  [r EXCEPT !.held = {},
            !.ws = IF @ \in {"connecting", "open"} THEN "closing" ELSE @,
            !.ffmpeg = IF @ \in {"starting", "listening"} THEN "killed" ELSE @]

Return(r) == [Cleanup(r) EXCEPT !.stage = "returned"]
Throw(r)  == [Cleanup(r) EXCEPT !.stage = "failed"]

\* Mutant: the last wait is for ffmpeg alone.
AwaitFrame_NoTimeout(r) ==
  CASE r.outcome = "frame"    -> Return(r)
    [] r.outcome = "rejected" -> Throw(r)
    [] OTHER                  -> [r EXCEPT !.stage = "framing"]

\* ffmpegOutcome, or without it the timeout, ends a race with an error.
NoFrame(r) ==
  \/ r.outcome = "rejected"
  \/ r.outcome = "pending" /\ r.timer = "fired"

\* The third race: ffmpegOutcome, timeout
AwaitFrame(r) ==
  CASE r.outcome = "frame" -> Return(r)
    [] NoFrame(r)          -> Throw(r)
    [] OTHER               -> [r EXCEPT !.stage = "framing"]

\* Mutant: the second race leaves out ffmpegOutcome.
AwaitAnswer_NoOutcome(r) ==
  CASE r.answered = "resolved"                        -> AwaitFrame(r)
    [] r.answered = "rejected"                        -> Throw(r)
    [] r.answered = "pending" /\ r.timer = "fired"    -> Throw(r)
    [] OTHER                  -> [r EXCEPT !.stage = "answering"]

\* The second race: remoteAnswered, ffmpegOutcome, timeout.  Of several that
\* are settled already the first one wins.
AwaitAnswer(r) ==
  CASE r.answered = "resolved"                       -> AwaitFrame(r)
    [] r.answered = "rejected"                       -> Throw(r)
    [] r.answered = "pending" /\ r.outcome = "frame" -> AwaitFrame(r)
    [] r.answered = "pending" /\ NoFrame(r)          -> Throw(r)
    [] OTHER                  -> [r EXCEPT !.stage = "answering"]

\* The first race: the WebSocket opens or fails, ffmpegOutcome, timeout.  It
\* begins with all of them pending, so the event that ends it settles just one.
AwaitOpen(r) ==
  CASE r.ws = "open" \/ r.outcome = "frame" -> [r EXCEPT !.stage = "offering"]
    [] r.ws = "closed" \/ r.outcome = "rejected" \/ r.timer = "fired" -> Throw(r)
    [] OTHER -> r

\* A promise has settled.
Resume(r) ==
  CASE r.stage = "opening"   -> AwaitOpen(r)
    [] r.stage = "answering" -> AwaitAnswer(r)
    [] r.stage = "framing"   -> AwaitFrame(r)
    [] OTHER                 -> r

\* A promise rejects; a second rejection or resolution does nothing.
Unheard(r, promise) ==
  [r EXCEPT !.unhandled = @ \cup ({promise} \ r.handled)]

RejectOutcome(r) ==
  IF r.outcome # "pending" THEN r
  ELSE Unheard([r EXCEPT !.outcome = "rejected"], "ffmpeg")

RejectAnswer(r) ==
  IF r.answered # "pending" THEN r
  ELSE Unheard([r EXCEPT !.answered = "rejected"], "answer")

Step(c, r) == cap' = [cap EXCEPT ![c] = r] /\ UNCHANGED clashed

-----------------------------------------------------------------------------
Init == cap = [c \in Captures |-> Blank] /\ clashed = {}

\* A new call, in the place of one of which nothing is left.
Begin(c) ==
  /\ ~Busy(cap[c])
  /\ cap[c].ws \in {"none", "closed"} /\ cap[c].ffmpeg \in {"none", "gone"}
  /\ cap' = [cap EXCEPT ![c] = [Blank EXCEPT !.stage = "binding"]]
  /\ clashed' = clashed \ {c}

\* Captures that picked the port and whose ffmpeg has not opened it yet.
Waiting(p) == {d \in Captures : cap[d].ffmpeg = "starting" /\ cap[d].port = p}

Pick(c, p) ==
  /\ cap' = [cap EXCEPT ![c] = [@ EXCEPT !.stage = "probed", !.port = p]]
  /\ clashed' = IF Waiting(p) = {} THEN clashed
                ELSE clashed \cup Waiting(p) \cup {c}

\* Mutant: the port is taken without a probe.
ProbeBound_Unprobed(c) ==
  /\ cap[c].stage = "binding"
  /\ \E p \in Ports : Pick(c, p)

\* _pickFreeUdpPort(): the probe is bound, or cannot be.
ProbeBound(c) ==
  /\ cap[c].stage = "binding"
  /\ \/ \E p \in Ports : Free(p) /\ Pick(c, p)
     \/ Step(c, [cap[c] EXCEPT !.stage = "failed"])

\* _writeSdpFile() throws, before the try block.
SdpFails(c) ==
  /\ cap[c].stage = "probed"
  /\ \E left \in {{}, {"sdp"}} :
       Step(c, [cap[c] EXCEPT !.stage = "failed", !.held = left])

\* _spawnFfmpeg() and the sockets, up to the first race.
Started(r) ==
  [r EXCEPT !.held = {"sdp", "ffmpeg", "udp"}, !.ffmpeg = "starting"]

\* RTCPeerConnection or WebSocket throw before anybody waits for ffmpeg.
SetupThrows(c) ==
  /\ cap[c].stage = "probed"
  /\ Step(c, Throw(Started(cap[c])))

\* Mutant: the first race leaves out ffmpegOutcome.
Setup_LateHandler(c) ==
  /\ cap[c].stage = "probed"
  /\ Step(c, [Started(cap[c]) EXCEPT
                !.stage = "opening", !.held = Resources, !.ws = "connecting",
                !.timer = "running"])

\* The probe is closed; everything is set up, and the first race begins.
Setup(c) ==
  /\ cap[c].stage = "probed"
  /\ Step(c, [Started(cap[c]) EXCEPT
                !.stage = "opening", !.held = Resources, !.ws = "connecting",
                !.timer = "running", !.handled = {"ffmpeg"}])

-----------------------------------------------------------------------------
(* ffmpeg *)

\* The process opens its socket on the port, unless somebody else has it.
FfmpegListens(c) ==
  /\ cap[c].ffmpeg = "starting"
  /\ Free(cap[c].port)
  /\ Step(c, [cap[c] EXCEPT !.ffmpeg = "listening"])

\* It cannot be spawned, ends without output or was killed.
FfmpegEnds(c) ==
  /\ cap[c].ffmpeg \in {"starting", "listening", "killed"}
  /\ Step(c, Resume(RejectOutcome([cap[c] EXCEPT !.ffmpeg = "gone",
                                                 !.held = @ \ {"ffmpeg"}])))

\* onReceiveRtp forwards packets to the port of its capture.
Streams(r) ==
  /\ r.answered = "resolved" /\ {"peer", "udp"} \subseteq r.held

\* Enough packets have reached the port for a frame.
FrameDecoded(c) ==
  /\ cap[c].ffmpeg = "listening"
  /\ \E d \in Captures :
       /\ Streams(cap[d]) /\ cap[d].port = cap[c].port
       /\ Step(c, Resume([cap[c] EXCEPT
                            !.ffmpeg = "gone", !.held = @ \ {"ffmpeg"},
                            !.outcome = "frame", !.from = d]))

-----------------------------------------------------------------------------
(* The signaling WebSocket *)

WsOpens(c) ==
  /\ cap[c].ws = "connecting"
  /\ Step(c, Resume([cap[c] EXCEPT !.ws = "open"]))

\* An error event, a close event with a code other than 1000, or the end of
\* the close() of cleanup(), which never reports 1000.
WsBreaks(c) ==
  /\ cap[c].ws \in {"connecting", "open", "closing"}
  /\ Step(c, Resume(RejectAnswer([cap[c] EXCEPT !.ws = "closed",
                                                !.held = @ \ {"ws"}])))

\* The service closes with code 1000.
WsClosesNormally(c) ==
  /\ cap[c].ws = "open"
  /\ Step(c, [cap[c] EXCEPT !.ws = "closed", !.held = @ \ {"ws"}])

\* SDP_ANSWER is applied.
AnswerApplied(c) ==
  /\ cap[c].offered /\ cap[c].ws = "open" /\ cap[c].answered = "pending"
  /\ Step(c, Resume([cap[c] EXCEPT !.answered = "resolved"]))

\* setRemoteDescription() or addIceCandidate() throws: for a candidate or an
\* answer that comes too early, before the offer even, as the handler listens
\* from the start, or because the peer connection is closed.
SignalRefused(c) ==
  /\ cap[c].ws \in {"open", "closing"}
  /\ Step(c, Resume(RejectAnswer(cap[c])))

-----------------------------------------------------------------------------
(* The offer and the timer *)

\* createOffer() and setLocalDescription() are done.  _sendSignal() sends
\* nothing when the WebSocket is not open.
OfferReady(c) ==
  /\ cap[c].stage = "offering"
  /\ Step(c, AwaitAnswer([cap[c] EXCEPT !.offered = (@ \/ cap[c].ws = "open"),
                                        !.handled = @ \cup {"answer"}]))

OfferFails(c) ==
  /\ cap[c].stage = "offering"
  /\ Step(c, Throw(cap[c]))

TimerFires(c) ==
  /\ cap[c].timer = "running" /\ Busy(cap[c])
  /\ Step(c, Resume([cap[c] EXCEPT !.timer = "fired"]))

Setting(c) == SdpFails(c) \/ SetupThrows(c) \/ Setup(c)
Offering(c) == OfferReady(c) \/ OfferFails(c)

Next ==
  \E c \in Captures :
    \/ Begin(c) \/ ProbeBound(c) \/ Setting(c) \/ Offering(c) \/ TimerFires(c)
    \/ FfmpegListens(c) \/ FfmpegEnds(c) \/ FrameDecoded(c)
    \/ WsOpens(c) \/ WsBreaks(c) \/ WsClosesNormally(c)
    \/ AnswerApplied(c) \/ SignalRefused(c)

Spec == Init /\ [][Next]_vars

\* The system binds or refuses the probe, werift makes the offer or throws,
\* and timers fire.  Nothing is assumed of camera, signaling and ffmpeg.
FairSpec ==
  /\ Spec
  /\ \A c \in Captures : /\ WF_vars(ProbeBound(c)) /\ WF_vars(Setting(c))
                         /\ WF_vars(Offering(c)) /\ WF_vars(TimerFires(c))

-----------------------------------------------------------------------------
(* Properties *)

\* Type invariant.  What a capture has yet to release is what is still open:
\* no process, socket or connection is forgotten by the bookkeeping of held.
TypeOK ==
  /\ cap \in [Captures -> Record] /\ clashed \subseteq Captures
  /\ \A c \in Captures :
       /\ "ffmpeg" \in cap[c].held <=> cap[c].ffmpeg \in {"starting", "listening"}
       /\ "ws" \in cap[c].held <=> cap[c].ws \in {"connecting", "open"}

Contract == INSTANCE CaptureContract WITH
  phase <- [c \in Captures |-> IF Busy(cap[c]) THEN "busy" ELSE cap[c].stage],
  held  <- [c \in Captures |-> cap[c].held]

\* captureStreamFrame() keeps its contract on every path through its three
\* races: it settles once, whatever camera, signaling and ffmpeg do, and leaves
\* no socket, connection, process or file behind.
KeepsContract == Contract!Spec

\* A buffer that is returned holds a frame of the camera asked for, unless the
\* port was picked a second time before ffmpeg had opened it, the "tiny race
\* window" that the comment on _pickFreeUdpPort() accepts.
OwnFrame ==
  \A c \in Captures :
    cap[c].stage = "returned" => cap[c].from = c \/ c \in clashed

\* The outcome of ffmpeg never rejects unheard, except in a capture whose
\* peer connection or WebSocket could not even be created.
SpawnFailureHeard ==
  \A c \in Captures : "ffmpeg" \in cap[c].unhandled => cap[c].ws = "none"

\* A capture in a race waits for something that can still come: the timer runs,
\* and no promise of the race had settled when the race began or has settled
\* since.  A wakeup that came during createOffer(), or between two races, is
\* not lost, and every wait ends at the latest with the timer.
Waits(r) ==
  /\ r.stage \in {"opening", "answering", "framing"} =>
       r.timer = "running" /\ r.outcome = "pending"
  /\ r.stage = "opening" => r.ws = "connecting"
  /\ r.stage = "answering" => r.answered = "pending"

NoLostWakeup == \A c \in Captures : Waits(cap[c])

=============================================================================
