------------------------------ MODULE SpeedTest -------------------------------
(***************************************************************************)
(* The Cloudflare engine of the speed test (probe-image/externalscripts/   *)
(* argus_speedtest.py): latency, then a download and an upload phase, each *)
(* with a thread per stream that adds what it moves to the phase's count,  *)
(* and main, which joins them and works out the rate.                      *)
(*                                                                         *)
(* Time is in ticks and data in units; each step of a stream may take any  *)
(* number of ticks.  The round trips (ping, pinger, the median) are left   *)
(* out but for their failure.                                              *)
(***************************************************************************)
EXTENDS Naturals, FiniteSets, Nothing

CONSTANTS
    Streams,        \* the parallel connections of a phase
    SHARE,          \* units each of them moves
    SECONDS, WARMUP, MIN_WINDOW,    \* ticks
    PATIENCE        \* ticks after the deadline main waits for streams that hang

ASSUME SpeedAssumption ==
    /\ IsFiniteSet(Streams)
    /\ SHARE \in Nat \ {0}
    /\ {SECONDS, WARMUP, MIN_WINDOW, PATIENCE} \subseteq Nat \ {0}
    /\ None \notin Nat /\ None \notin [bytes : Nat, at : Nat]

BUDGET == SHARE * Cardinality(Streams)
DEADLINE == WARMUP + SECONDS
LAST == DEADLINE + PATIENCE

VARIABLES
    now,        \* ticks since the phase began
    phase,      \* Phase: bytes, at_warm, at_done, and the cause: the first of its errors
    stream,     \* per stream: where it is, and what is left of its share
    speedmain,  \* main: "latency" | "down" | "up" | "end"
    speeds,     \* has main a speed of the direction?
    error,      \* the direction main reports an error of, and its reason
    firstDone   \* history: when the first stream moved its share

speedVars == <<now, phase, stream, speedmain, speeds, error, firstDone>>

Times == 0 .. LAST
Marks == [bytes : 0 .. BUDGET, at : Times] \cup {None}
(* refused: an answer other than 200; mangled: a failure to say so *)
Causes == {"network", "refused", "mangled"}

SpeedTypeOK ==
    /\ now \in Times
    /\ phase \in [bytes : 0 .. BUDGET, at_warm : Marks, at_done : Marks, cause : Causes \cup {None}]
    /\ stream \in [Streams -> [pc : {"check", "moving", "answer", "full", "ended"}, left : 0 .. SHARE]]
    /\ speedmain \in {"latency", "down", "up", "end"}
    /\ speeds \in [{"down", "up"} -> BOOLEAN]
    /\ error \in ({"latency", "down", "up"} \X (Causes \cup {"none"})) \cup {<<>>}
    /\ firstDone \in Times \cup {None}

NewPhase == [bytes |-> 0, at_warm |-> None, at_done |-> None, cause |-> None]
NewStreams == [s \in Streams |-> [pc |-> "check", left |-> SHARE]]

SpeedInit ==
    /\ now = 0 /\ phase = NewPhase /\ stream = NewStreams
    /\ speedmain = "latency"
    /\ speeds = [d \in {"down", "up"} |-> FALSE] /\ error = <<>>
    /\ firstDone = None

Ends(s) == stream' = [stream EXCEPT ![s].pc = "ended"]

(* meta, which may fail, and latency, which may not *)
Latency ==
    /\ speedmain = "latency"
    /\ \/ speedmain' = "down" /\ UNCHANGED error
       \/ \E r \in {"network", "refused"} : speedmain' = "end" /\ error' = <<"latency", r>>
    /\ UNCHANGED <<now, phase, stream, speeds, firstDone>>

Testing == speedmain \in {"down", "up"}

SpeedTick ==
    /\ Testing /\ now < LAST
    /\ now' = now + 1
    /\ UNCHANGED <<phase, stream, speedmain, speeds, error, firstDone>>

(***************************************************************************)
(* Phase.add and Phase.done, under the phase's lock                        *)
(***************************************************************************)
Warm == now >= WARMUP \/ 4 * phase.bytes >= BUDGET

add(n) ==
    phase' = [phase EXCEPT !.bytes = @ + n,
                           !.at_warm = IF @ = None /\ Warm THEN [bytes |-> phase.bytes, at |-> now] ELSE @]

\* every stream that is done
done_Last == phase' = [phase EXCEPT !.at_done = [bytes |-> phase.bytes, at |-> now]]

(* the first stream that is done *)
done == phase' = [phase EXCEPT !.at_done = IF @ = None THEN [bytes |-> phase.bytes, at |-> now] ELSE @]

fail(r) == phase' = [phase EXCEPT !.cause = IF @ = None THEN r ELSE @]

(***************************************************************************)
(* download_stream, upload_stream: the deadline is looked at before a      *)
(* piece is asked for or sent, which takes what it takes.                  *)
(***************************************************************************)
Check(s) ==
    /\ Testing /\ stream[s].pc = "check"
    /\ IF stream[s].left = 0
       THEN stream' = [stream EXCEPT ![s].pc = IF speedmain = "up" THEN "answer" ELSE "full"]
       ELSE stream' = [stream EXCEPT ![s].pc = IF now < DEADLINE THEN "moving" ELSE "ended"]
    /\ UNCHANGED <<now, phase, speedmain, speeds, error, firstDone>>

(* What is asked for or sent takes some time, so none is moved at 0. *)
Move(s) ==
    /\ Testing /\ stream[s].pc = "moving" /\ now > 0
    /\ \E n \in 1 .. stream[s].left :
         /\ add(n)
         /\ stream' = [stream EXCEPT ![s] = [pc |-> "check", left |-> @.left - n]]
    /\ UNCHANGED <<now, speedmain, speeds, error, firstDone>>

(* a download's answer that comes after the deadline isn't read *)
AnswerTooLate(s) ==
    /\ speedmain = "down" /\ stream[s].pc = "moving" /\ now >= DEADLINE
    /\ Ends(s)
    /\ UNCHANGED <<now, phase, speedmain, speeds, error, firstDone>>

(* early_answer: a refusal in the middle of an upload; a download's status *)
Broken(s) ==
    /\ Testing /\ stream[s].pc = "moving"
    /\ \E r \in {"network", "refused"} : fail(r)
    /\ Ends(s)
    /\ UNCHANGED <<now, speedmain, speeds, error, firstDone>>

(* The answer to a whole upload.  `refused' is a local variable of
   upload_stream, not the function its line 375 means to call. *)
Answer(s) ==
    /\ Testing /\ stream[s].pc = "answer"
    /\ \/ stream' = [stream EXCEPT ![s].pc = "full"] /\ UNCHANGED phase
       \/ \E r \in {"network", "mangled"} : fail(r) /\ Ends(s)
    /\ UNCHANGED <<now, speedmain, speeds, error, firstDone>>

Full(s) ==
    /\ Testing /\ stream[s].pc = "full"
    /\ done
    /\ Ends(s)
    /\ firstDone' = IF firstDone = None THEN now ELSE firstDone
    /\ UNCHANGED <<now, speedmain, speeds, error>>

(***************************************************************************)
(* Phase.bps: the window from the warm-up to the first stream done.        *)
(***************************************************************************)
bps ==
    LET end == IF now < DEADLINE THEN now ELSE DEADLINE
        from == IF phase.at_warm = None THEN [bytes |-> 0, at |-> 0] ELSE phase.at_warm
        to == IF phase.at_done = None THEN [bytes |-> phase.bytes, at |-> end] ELSE phase.at_done
        w == IF to.at < from.at + MIN_WINDOW THEN [bytes |-> 0, at |-> 0] ELSE from
    IN  IF phase.bytes = 0 \/ to.at = w.at THEN None
        ELSE [b0 |-> w.bytes, t0 |-> w.at, b1 |-> to.bytes, t1 |-> to.at]

(***************************************************************************)
(* run_phase after its joins, and what main makes of it: no speed if a     *)
(* stream failed, and only the first direction's error.                    *)
(***************************************************************************)
JoinsEnd ==
    /\ Testing
    /\ (\A s \in Streams : stream[s].pc = "ended") \/ now = LAST
    /\ speeds' = [speeds EXCEPT ![speedmain] = phase.cause = None /\ bps # None]
    /\ error' = IF phase.cause # None /\ error = <<>> THEN <<speedmain, phase.cause>> ELSE error
    /\ speedmain' = IF speedmain = "down" THEN "up" ELSE "end"
    /\ now' = 0 /\ phase' = NewPhase /\ stream' = NewStreams /\ firstDone' = None

Stream(s) == Check(s) \/ Move(s) \/ AnswerTooLate(s) \/ Broken(s) \/ Answer(s) \/ Full(s)

SpeedNext == Latency \/ SpeedTick \/ JoinsEnd \/ \E s \in Streams : Stream(s)

-----------------------------------------------------------------------------
(* Properties *)

(* A speed is read over a span that is one, in which something was moved, and
   that ends before any stream left the line to the others, however the
   warm-up, the streams' ends and the deadline fall (Phase). *)
SpeedIsMeasured ==
    Testing => LET w == bps IN w # None =>
        /\ w.t0 < w.t1 /\ w.b0 < w.b1
        /\ firstDone # None => w.t1 <= firstDone

(* argus_speedtest.py:32-33: a direction whose stream was refused "reports no
   speed, with why". *)
RefusalIsSaid ==
    error # <<>> => error[2] # "mangled"

-----------------------------------------------------------------------------
(* Why a span is one *)

SpeedSpec == SpeedInit /\ [][SpeedNext]_speedVars

Readings == [bytes : Nat, at : Nat] \cup {None}

SpeedTypes ==
    /\ now \in Nat
    /\ phase \in [bytes : Nat, at_warm : Readings, at_done : Readings, cause : Causes \cup {None}]
    /\ stream \in [Streams -> [pc : {"check", "moving", "answer", "full", "ended"}, left : 0 .. SHARE]]
    /\ firstDone \in Nat \cup {None}

(* A reading is of the past: the warm-up's from before a piece came in, the
   first end's from after its whole share did. *)
WarmBefore ==
    phase.at_warm # None => phase.at_warm.bytes < phase.bytes /\ phase.at_warm.at <= now

DoneAfter ==
    phase.at_done # None =>
      /\ phase.at_done.bytes > 0 /\ phase.at_done.bytes <= phase.bytes
      /\ phase.at_done.at <= now /\ firstDone = phase.at_done.at

(* A stream may end before the warm-up does: the span is the whole phase then. *)
SpanInOrder ==
    /\ firstDone # None => phase.at_done # None
    /\ phase.at_warm # None /\ phase.at_done # None =>
         phase.at_done.at <= phase.at_warm.at \/ phase.at_warm.bytes < phase.at_done.bytes

SharesCount ==
    \A s \in Streams : /\ stream[s].left < SHARE => phase.bytes > 0
                       /\ stream[s].pc \in {"answer", "full"} => stream[s].left = 0

(* The units moved, stream by stream, are what the phase has counted: no more
   than its budget. *)
Units == {u \in Streams \X (1 .. SHARE) : u[2] > stream[u[1]].left}
UnitsCount == phase.bytes = Cardinality(Units)

SpeedInv == SpeedTypes /\ WarmBefore /\ DoneAfter /\ SpanInOrder /\ SharesCount
=============================================================================
