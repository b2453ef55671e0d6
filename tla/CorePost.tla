------------------------------- MODULE CorePost -------------------------------
(***************************************************************************)
(* How the probe's jobs post to Argus                                      *)
(* (probe-image/externalscripts/argus_corepost.py).                        *)
(***************************************************************************)
EXTENDS Naturals

(* A family's addresses when its lookup answers, none when it doesn't: an
   error only if both have none (addresses).  Each is tried (dial). *)
Families == {"none", "dead", "live"}
dial(v4, v6) == v4 = "live" \/ v6 = "live"

(* "unheard": Argus takes it and the answer is lost, or isn't a 2xx one. *)
PostOutcomes(v4, v6) ==
    {"failed"} \cup IF dial(v4, v6) THEN {"taken", "unheard"} ELSE {}

(* What follows the k-th try out of tries: post. *)
AfterTry(k, tries, outcome) ==
    IF outcome = "taken" THEN "posted" ELSE IF k < tries THEN "again" ELSE "over"
===============================================================================
