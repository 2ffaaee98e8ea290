---------------------------- MODULE MCExpirySweep ----------------------------
(* Two resources on two pages, tagged in one or another of these ways.     *)
EXTENDS ExpirySweep

CONSTANTS bucketA, bucketB

MCPages == <<{bucketA}, {bucketB}>>

Written(value, until, at) == [value |-> value, until |-> until, at |-> at]

(* Exemptions until a day, in one spelling or another, and until an        *)
(* instant, and none.                                                      *)
Choices == {Written("true", "date", 3), Written("true", "compact date", 3),
            Written("true", "timestamp", 6), Written("true", "unreadable", 0),
            Written("true in other letters", "date", 3), Written("absent", "absent", 0)}

=============================================================================
