----------------------------- MODULE MCTaskPlanning ----------------------------
(* A week of two days and a cap of two: every pair of working weeks, up to   *)
(* two holidays within reach, every leave window of two assignees.           *)
EXTENDS TaskPlanning, FiniteSetsExt, TLC

CONSTANTS ann, bob, urgent, billing

MCCategory == [t \in Tags |-> IF t = urgent THEN "priority" ELSE "area"]
Window1 == {NoLeave} \cup [from : {0, 1, 2}, to : {1, 2, 3, 4}]
HolidayDays == [day : 0..4, scope : {"company", "branch", "elsewhere"}]
HolidaySets == {{}} \cup kSubset(1, HolidayDays)
                    \cup {{[day |-> 1, scope |-> "branch"], h} : h \in HolidayDays}
Leaves == {[u \in {ann} |-> w] : w \in Window1}
          \cup {[u \in {ann, bob} |-> IF u = ann THEN w ELSE [from |-> 1, to |-> 1]]
                  : w \in Window1}
MCCalendars == [company : SUBSET Weekdays, branch : {<<>>, <<{0}>>, <<{1}>>},
                holidays : HolidaySets, leave : Leaves]

Symmetry == Permutations(Tasks)
=============================================================================
