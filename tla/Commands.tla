------------------------------ MODULE Commands ------------------------------
(***************************************************************************)
(* What an engine promises the user interface (include/FileZillaEngine.h,  *)
(* include/commands.h): Execute accepts a command when none is being       *)
(* executed, and each one accepted is answered by one notification, in     *)
(* order, before the next is accepted; and it is answered at last.         *)
(***************************************************************************)
EXTENDS Naturals, Sequences

VARIABLES
    pending,   \* the number of the command being executed, or 0
    answers    \* the numbers of the commands answered so far

vars == <<pending, answers>>

Init == pending = 0 /\ answers = <<>>

Accept ==
    /\ pending = 0
    /\ pending' = Len(answers) + 1
    /\ UNCHANGED answers

Answer ==
    /\ pending # 0
    /\ answers' = Append(answers, pending)
    /\ pending' = 0

Next == Accept \/ Answer

Safety == Init /\ [][Next]_vars
Spec == Safety /\ WF_vars(Answer)
=============================================================================
