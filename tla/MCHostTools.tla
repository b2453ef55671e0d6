----------------------------- MODULE MCHostTools ------------------------------
(* A small instance of HostTools: three releases of three files.  The second
   adds a unit and changes a script, the third takes the script back. *)
EXTENDS HostTools

CONSTANTS script, path, timer, v1, v2, v3

TheFiles == {script, path, timer}
TheReleases ==
    [v \in {v1, v2, v3} |->
       CASE v = v1 -> [f \in {script, path} |-> "a"]
         [] v = v2 -> [f \in TheFiles |-> IF f = script THEN "b" ELSE "a"]
         [] v = v3 -> [f \in TheFiles |-> "a"]]
Units == [v \in {v1, v2, v3} |-> IF v = v1 THEN {path} ELSE {path, timer}]
===============================================================================
