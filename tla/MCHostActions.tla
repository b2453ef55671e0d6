---------------------------- MODULE MCHostActions -----------------------------
(* A small instance of HostActions for TLC: the windows Argus hands out. *)
EXTENDS HostActions, FiniteSets

At(mode, day, hour, minute) == [mode |-> mode, day |-> day, hour |-> hour, minute |-> minute]

\* One on a day of its own, not at the full hour; one that leaves the decision to
\* a person; and one with an hour no clock shows, which host_files drops.
AllWindows == {At("auto", 1, 1, 1), At("notify", EveryDay, 0, 0), At("auto", EveryDay, HOURS, 0)}

\* The first two can be the VM's; Argus's automatic one has room for its slack.
ASSUME WindowsAssumption ==
    /\ Cardinality(AllWindows \cap GoodWindows) = 2
    /\ Roomy(At("auto", 1, 1, 1))
===============================================================================
