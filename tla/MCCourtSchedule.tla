-------------------------- MODULE MCCourtSchedule --------------------------
(***************************************************************************)
(* A group of three (matches 1 and 2 of its round robin) whose winner      *)
(* meets the first team again in a semifinal (3), and the final (4).       *)
(***************************************************************************)
EXTENDS CourtSchedule

MCMatches == 1..4
MCItems   == {"group", "knockout"}
MCSlots   == {"g1", "g2", "g3", "k1", "k2", "k3"}
MCTeams   == {"t1", "t2", "t3", "t4"}

MCTeamOf == [s \in MCSlots |->
    CASE s \in {"g1", "k2"} -> "t1" [] s = "g2" -> "t2" [] s = "g3" -> "t3"
      [] s = "k3" -> "t4" [] s = "k1" -> "noTeam"]
MCSourceOf == [s \in MCSlots |-> IF s = "k1" THEN "group" ELSE "noItem"]
MCItemOf  == [m \in MCMatches |-> IF m <= 2 THEN "group" ELSE "knockout"]
MCTypeOf  == [i \in MCItems |-> IF i = "group" THEN "ROUND_ROBIN" ELSE "SINGLE_ELIMINATION"]
MCRoundOf == <<1, 2, 3, 4>>
MCSide    == << <<"g1", "g2">>, <<"g3", "g1">>, <<"k1", "k2">>, <<"noSlot", "k3">> >>
MCFeeder  == << <<0, 0>>, <<0, 0>>, <<0, 0>>, <<3, 0>> >>
MCReferee == <<"g3", "g2", "k3", "k1">>
MCStageOf == [i \in MCItems |-> IF i = "group" THEN 1 ELSE 2]
MCLevelOf == [i \in MCItems |-> "open"]

At(court, start, minutes) ==
    [court |-> court, start |-> start, minutes |-> minutes, state |-> "NOT_STARTED"]

As(slot, state) == [slot EXCEPT !.state = state]

\* Everything in the tray, everything scheduled without a conflict, and a day
\* under way: the break before the second match was made shorter, the first
\* match is over, the second is played and the final was sent to the tray.
MCInitialPlans ==
    {<<At(0, 0, 10), At(0, 0, 10), At(0, 0, 10), At(0, 0, 15)>>,
     <<At(1, 0, 10), At(1, 15, 10), At(2, 25, 10), At(1, 40, 15)>>,
     <<As(At(1, 0, 10), "COMPLETED"), As(At(1, 10, 10), "IN_PROGRESS"), At(2, 25, 10), At(0, 0, 15)>>}

=============================================================================
