--------------------------- MODULE SubjectDisplay ---------------------------
(***************************************************************************)
(* What the user of the network policy graph sees: a chosen subject, and   *)
(* under it a result and perhaps a failure, both of that subject.  Neither *)
(* is ever replaced by one from an older look at the cluster.  Evaluations *)
(* are records with a subject and the version of the cluster they saw.     *)
(***************************************************************************)
EXTENDS Naturals

CONSTANTS Subjects,
          Nothing       \* the evaluation shown when there is none

VARIABLES chosen, display, failure

vars == <<chosen, display, failure>>

Init ==
    /\ chosen \in Subjects
    /\ display = Nothing
    /\ failure = Nothing

Choose ==
    /\ chosen' \in Subjects
    /\ display' = Nothing
    /\ failure' = Nothing

(* A result clears the failure shown before; a failure of its own, of a    *)
(* cluster that could not be read completely, comes with it or later.      *)
Show ==
    /\ display'.subject = chosen
    /\ display'.version >= display.version
    /\ failure' # Nothing =>
          failure'.subject = chosen /\ failure'.version >= display'.version
    /\ UNCHANGED chosen

Fail ==
    /\ failure'.subject = chosen
    /\ failure'.version >= display.version
    /\ UNCHANGED <<chosen, display>>

Next == Choose \/ Show \/ Fail

Spec == Init /\ [][Next]_vars
=============================================================================
