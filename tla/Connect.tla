------------------------------- MODULE Connect --------------------------------
(***************************************************************************)
(* What the HTTP and the TCP check have in common (argus_http.py,          *)
(* argus_tcp.py, where it is the same code): a connection by name, IPv4    *)
(* first, and the reason it failed for.                                    *)
(***************************************************************************)

(* What a family's lookup and its addresses come to: the resolver doesn't
   answer, there is no such name, no address connects, one does. *)
Lookups == {"again", "noname", "fail", "ok"}

(* IPv6 is also tried when IPv4's addresses fail.  A later error replaces an
   earlier one, but for "no such name". *)
create_connection(v4, v6) ==
    IF "ok" \in {v4, v6} THEN "ok" ELSE IF v6 = "noname" THEN v4 ELSE v6

Failures == {create_connection(v4, v6) : v4 \in Lookups, v6 \in Lookups} \ {"ok"}

why(e) == IF e = "again" THEN "resolver" ELSE e
===============================================================================
