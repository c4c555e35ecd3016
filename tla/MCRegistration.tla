--------------------------- MODULE MCRegistration ---------------------------
(* Instances of Registration for TLC: two students of two coaches, in a     *)
(* kyorugi competition with two overlapping weight categories, for men only.*)
EXTENDS Registration, TLC

CONSTANTS ali, sara, c1, c2, k1, k2

MCRoleOf == [s \in Students |-> IF s = ali THEN "player" ELSE "both"]
MCCoachOf == [s \in Students |-> c1]
MCClubOf == [s \in Students |-> IF s = ali THEN "club" ELSE None]
MCBoardOf == [s \in Students |-> "board"]
MCGenderOf == [s \in Students |-> IF s = ali THEN "male" ELSE "female"]
MCBornOf == [s \in Students |-> IF s = ali THEN 5 ELSE 1]
MCFirstBelt == [s \in Students |-> "yellow"]
MCApplicants == [k \in Kinds |-> IF k = "kyorugi" THEN {c1} ELSE Coaches]
MCRequired == [k \in Kinds |-> None]
MCAges == [k \in Kinds |-> IF k = "kyorugi" THEN {<<0, 9>>} ELSE {<<4, 9>>}]
MCBeltGroups == [k \in Kinds |-> IF k = "kyorugi" THEN {{"yellow"}} ELSE {}]
MCLevelBelts == [k \in Kinds |-> IF k = "kyorugi" THEN {"red"} ELSE Belts]
MCPageBelts == [k \in Kinds |-> {"red"}]
MCCategories ==
  {[gender |-> "male", min |-> 0, max |-> 4, tolerance |-> 1],
   [gender |-> "male", min |-> 5, max |-> 9, tolerance |-> 1]}
MCOpens == [k \in Kinds |-> IF k = "kyorugi" THEN 0 ELSE 1]
MCCloses == MCOpens
MCSeminarDays == [d \in {"opens", "closes", "event"} |-> 0]
MCDate == [k \in Kinds |-> 3]

Symmetry == Permutations({k1, k2})

=============================================================================
