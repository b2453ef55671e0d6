--------------------------------- MODULE Diag ---------------------------------
(***************************************************************************)
(* A diagnostic on a probe (probe-image/externalscripts/argus_diag.py      *)
(* --job): a ping, a traceroute or a DNS lookup that posts what it has so  *)
(* far as it goes along, and its whole result at the end.                  *)
(*                                                                         *)
(* A step that takes a while lets the clock jump; the texts for the dialog *)
(* (raw), addresses and names are left out.                                *)
(***************************************************************************)
EXTENDS Sequences, CorePost, Nothing

CONSTANTS
    COUNT,          \* pings
    MAX_HOPS,
    Types,          \* the record types a lookup is for, in their order
    Values,         \* of records
    \* ticks: what each step takes at most, and the waits between them
    RESOLVE, PING, HOP, EXCHANGE, SYSTEM, POST_TIMEOUT,
    GAP, THROTTLE, TRACE_DEADLINE, POST_WAIT

FINAL_TRIES == 3
DNS_TYPES == {"A", "AAAA", "CNAME", "MX", "TXT", "PTR"}

ASSUME DiagAssumption ==
    /\ {COUNT, MAX_HOPS, RESOLVE, PING, HOP, EXCHANGE, SYSTEM, POST_TIMEOUT} \subseteq Nat
    /\ {GAP, THROTTLE, TRACE_DEADLINE, POST_WAIT} \subseteq Nat
    /\ COUNT > 0 /\ MAX_HOPS > 0
    /\ Types \in Seq(DNS_TYPES) /\ Types # <<>>

VARIABLES
    tool,       \* "ping" | "traceroute" | "dns" | "unfit" (clean refuses the request)
    run,        \* where the run is, and the number of the ping, hop, type or try
    clock,      \* ticks since the run began
    mark,       \* when the ping began; the traceroute's deadline
    posted,     \* when the last partial result was posted, None before that
    result,     \* replies, hops: the last one's kind; answers per type; error
    told        \* what Argus took last: "nothing" | "partial" | "whole"

diagVars == <<tool, run, clock, mark, posted, result, told>>

Replies == {"reply", "lost", "error"}
Hops == {"star", "router", "noted", "target"}
(* a type's answer; error: an rcode, or none *)
Answers == [values : SUBSET Values, error : {"none", "rcode", "silent"}]
Sound(a) == a.error = "none" \/ a.values = {}

NoResult == [last |-> None, server |-> <<>>, system |-> <<>>, differ |-> FALSE, error |-> FALSE]

DiagTypeOK ==
    /\ tool \in {"ping", "traceroute", "dns", "unfit"}
    /\ run \in [at : {"clean", "ping", "hop", "server", "system", "progress", "post", "wait", "end", "dead"},
                k : 0 .. COUNT + MAX_HOPS + Len(Types) + FINAL_TRIES]
    /\ clock \in Nat /\ mark \in Nat /\ posted \in Nat \cup {None}
    /\ result \in [last : Replies \cup Hops \cup {None}, server : Seq(Answers), system : Seq(Answers),
                   differ : BOOLEAN, error : BOOLEAN]
    /\ told \in {"nothing", "partial", "whole"}

DiagInit ==
    /\ tool \in {"ping", "traceroute", "dns", "unfit"}
    /\ run = [at |-> "clean", k |-> 0]
    /\ clock = 0 /\ mark = 0 /\ posted = None
    /\ result = NoResult /\ told = "nothing"

Takes(most) == \E d \in 0 .. most : clock' = clock + d
Goto(at, k) == run' = [at |-> at, k |-> k]

(***************************************************************************)
(* run: what can't be carried out is a result too, with an error.          *)
(***************************************************************************)
\* any exception but a ValueError ends the process
Failed_Dies ==
    /\ result' = [NoResult EXCEPT !.error = TRUE]
    /\ \E at \in {"post", "dead"} : Goto(at, 1)

Failed ==
    /\ result' = [NoResult EXCEPT !.error = TRUE]
    /\ Goto("post", 1)

(* clean, resolve4, Popen, the name of a lookup *)
Refused ==
    /\ run.at = "clean"
    /\ Takes(RESOLVE)
    /\ Failed
    /\ UNCHANGED <<tool, mark, posted, told>>

Begins ==
    /\ run.at = "clean" /\ tool # "unfit"
    /\ Takes(IF tool = "dns" THEN 0 ELSE RESOLVE)
    /\ Goto(CASE tool = "ping" -> "ping" [] tool = "traceroute" -> "hop" [] tool = "dns" -> "server", 1)
    /\ mark' = IF tool = "traceroute" THEN clock' + TRACE_DEADLINE ELSE clock'
    /\ UNCHANGED <<tool, posted, result, told>>

(***************************************************************************)
(* run_ping                                                                *)
(***************************************************************************)
Ping ==
    /\ run.at = "ping"
    /\ Takes(PING)
    /\ \E r \in Replies : result' = [result EXCEPT !.last = r]
    /\ Goto("progress", run.k)
    /\ UNCHANGED <<tool, mark, posted, told>>

(***************************************************************************)
(* run_trace: a line for a hop, or traceroute's end.                       *)
(***************************************************************************)
Hop ==
    /\ run.at = "hop" /\ run.k <= MAX_HOPS
    /\ Takes(HOP)
    /\ \E h \in Hops : result' = [result EXCEPT !.last = h]
    /\ Goto("progress", run.k)
    /\ UNCHANGED <<tool, mark, posted, told>>

TraceEnds ==
    /\ run.at = "hop"
    /\ Goto("post", 1)
    /\ UNCHANGED <<tool, clock, mark, posted, result, told>>

(***************************************************************************)
(* progress, and what follows it: the next ping in its second, the next    *)
(* hop unless the trace is over or late.                                   *)
(***************************************************************************)
TraceOver_OnlyTold == result.last \in {"target", "noted"}

TraceOver == result.last \in {"target", "noted"} \/ clock' > mark

Later(a, b) == IF a < b THEN b ELSE a

AfterProgress(after) ==
    IF tool = "ping"
    THEN IF run.k < COUNT
         THEN clock' = Later(after, mark + GAP) /\ mark' = clock' /\ Goto("ping", run.k + 1)
         ELSE clock' = after /\ mark' = mark /\ Goto("post", 1)
    ELSE /\ clock' = after /\ mark' = mark
         /\ IF TraceOver THEN Goto("post", 1) ELSE Goto("hop", run.k + 1)

Progress ==
    /\ run.at = "progress"
    /\ IF posted = None \/ clock >= posted + THROTTLE
       THEN /\ posted' = clock
            /\ \E d \in 0 .. POST_TIMEOUT : AfterProgress(clock + d)
            /\ told' \in {told, "partial"}
       ELSE UNCHANGED <<posted, told>> /\ AfterProgress(clock)
    /\ UNCHANGED <<tool, result>>

(***************************************************************************)
(* run_dns: each type is asked for up to twice (query_server, exchange; a  *)
(* truncated answer once more over TCP); a message that isn't DNS at all   *)
(* ends the lookup.                                                        *)
(***************************************************************************)
AskServer ==
    /\ run.at = "server"
    /\ Takes(4 * EXCHANGE)
    /\ \/ Failed
       \/ /\ \E a \in {b \in Answers : Sound(b)} : result' = [result EXCEPT !.server = Append(@, a)]
          /\ IF run.k < Len(Types) THEN Goto("server", run.k + 1) ELSE Goto("system", 1)
    /\ UNCHANGED <<tool, mark, posted, told>>

(* no server was given and resolv.conf names none *)
NoServer ==
    /\ run.at = "server" /\ run.k = 1
    /\ result' = [result EXCEPT !.error = TRUE]
    /\ Goto("system", 1)
    /\ UNCHANGED <<tool, clock, mark, posted, told>>

SystemTypes == IF Types[1] \in {"A", "AAAA", "PTR"} THEN Types ELSE <<>>

differ(server, system) == \E i \in DOMAIN system : server[i].values # system[i].values

(* system_lookup; only A, AAAA and PTR, which no other type comes with *)
AskSystem ==
    /\ run.at = "system"
    /\ Takes(SYSTEM)
    /\ \/ Failed
       \/ /\ \E s \in [DOMAIN SystemTypes -> {b \in Answers : b.values # {} <=> b.error = "none"}] :
               result' = [result EXCEPT !.system = s,
                                        !.differ = result.server # <<>> /\ differ(result.server, s)]
          /\ Goto("post", 1)
    /\ UNCHANGED <<tool, mark, posted, told>>

(***************************************************************************)
(* main: the whole result.                                                 *)
(***************************************************************************)
PostWhole ==
    /\ run.at = "post"
    /\ Takes(POST_TIMEOUT)
    /\ \E v4 \in Families, v6 \in Families : \E o \in PostOutcomes(v4, v6) :
         /\ told' = IF o = "failed" THEN told ELSE "whole"
         /\ Goto(IF AfterTry(run.k, FINAL_TRIES, o) = "again" THEN "wait" ELSE "end", run.k)
    /\ UNCHANGED <<tool, mark, posted, result>>

TryAgain ==
    /\ run.at = "wait"
    /\ clock' = clock + POST_WAIT
    /\ Goto("post", run.k + 1)
    /\ UNCHANGED <<tool, mark, posted, result, told>>

DiagNext ==
    \/ Refused \/ Begins
    \/ Ping \/ Hop \/ TraceEnds \/ Progress
    \/ AskServer \/ NoServer \/ AskSystem
    \/ PostWhole \/ TryAgain

-----------------------------------------------------------------------------
(* Properties *)

(* A run always ends on Argus, with its whole result or with why, and after no
   fewer than three tries if Argus doesn't have it (run, main: "a run must
   always end on core, with why"); a run is one whose job could be read. *)
RunEndsOnCore ==
    /\ run.at # "dead"
    /\ run.at = "end" /\ told # "whole" => run.k = FINAL_TRIES
    /\ told = "whole" => run.at \in {"post", "wait", "end"}
    /\ run.at = "end" /\ tool = "unfit" => result.error

(* What a run takes at most: a traceroute its 100 seconds and one more hop
   with its post, whatever the number of hops (run_ping, run_trace, run_dns);
   a name that is still looked up then keeps the process longer (line 261). *)
Work ==
    CASE tool = "ping" -> RESOLVE + COUNT * Later(PING + POST_TIMEOUT, GAP)
      [] tool = "traceroute" -> RESOLVE + TRACE_DEADLINE + HOP + POST_TIMEOUT
      [] tool = "dns" -> RESOLVE + Len(Types) * 4 * EXCHANGE + SYSTEM
      [] tool = "unfit" -> RESOLVE

DiagInTime == clock <= Work + FINAL_TRIES * POST_TIMEOUT + (FINAL_TRIES - 1) * POST_WAIT

-----------------------------------------------------------------------------
(* Why a run ends, and in time *)

DiagSpec == DiagInit /\ [][DiagNext]_diagVars

DiagTypes ==
    /\ tool \in {"ping", "traceroute", "dns", "unfit"}
    /\ run \in [at : {"clean", "ping", "hop", "server", "system", "progress", "post", "wait", "end"}, k : Nat]
    /\ clock \in Nat /\ mark \in Nat
    /\ told \in {"nothing", "partial", "whole"}

(* Each tool keeps to its own steps, and one refused has only an error to post. *)
OwnSteps ==
    /\ run.at = "ping" => tool = "ping"
    /\ run.at = "hop" => tool = "traceroute"
    /\ run.at = "progress" => tool \in {"ping", "traceroute"}
    /\ run.at \in {"server", "system"} => tool = "dns"
    /\ run.at # "clean" /\ tool = "unfit" => result.error

(* Argus has the whole result only once it was posted. *)
Told ==
    /\ told = "whole" => run.at \in {"post", "wait", "end"}
    /\ run.at = "end" /\ told # "whole" => run.k = FINAL_TRIES

(* A hop is one of those traceroute was asked for, or the look past them. *)
HopsCount ==
    /\ run.at = "hop" => run.k \in 1 .. MAX_HOPS + 1
    /\ run.at = "progress" /\ tool = "traceroute" => run.k \in 1 .. MAX_HOPS
    /\ run.at \in {"clean", "system"} => run.k \in 0 .. 1

PingCost == Later(PING + POST_TIMEOUT, GAP)
TypeCost == 4 * EXCHANGE
TryCost == POST_TIMEOUT + POST_WAIT

(* Where a run is says what it has taken: mark follows a ping's beginning and
   holds a traceroute's deadline, which is looked at after each hop's post. *)
Clean == run.at = "clean" => clock = 0

Pinging ==
    tool = "ping" /\ run.at \in {"ping", "progress"} =>
        /\ run.k \in 1 .. COUNT
        /\ mark <= RESOLVE + (run.k - 1) * PingCost
        /\ clock <= IF run.at = "ping" THEN mark ELSE mark + PING

Tracing ==
    tool = "traceroute" /\ run.at \in {"hop", "progress"} =>
        /\ mark <= RESOLVE + TRACE_DEADLINE
        /\ clock <= IF run.at = "hop" THEN mark ELSE mark + HOP

Asking ==
    /\ run.at = "server" => run.k \in 1 .. Len(Types) /\ clock <= RESOLVE + (run.k - 1) * TypeCost
    /\ run.at = "system" => clock <= RESOLVE + Len(Types) * TypeCost

Posting ==
    /\ run.at \in {"post", "wait", "end"} => run.k \in 1 .. FINAL_TRIES
    /\ run.at = "post" => clock <= Work + (run.k - 1) * TryCost
    /\ run.at \in {"wait", "end"} => clock <= Work + (run.k - 1) * TryCost + POST_TIMEOUT
    /\ run.at = "wait" => run.k < FINAL_TRIES

DiagInv == DiagTypes /\ OwnSteps /\ Told /\ Clean /\ Pinging /\ Tracing /\ Asking /\ Posting
===============================================================================
