----------------------------- MODULE TaskQueue -----------------------------
(***************************************************************************)
(* What a task queue with late acknowledgement promises to those who send  *)
(* it tasks: no task ends that was never started, none is taken back once  *)
(* it has ended, and each one sent does end, whatever happens to the       *)
(* processes that run it on the way.  How often it runs is not promised.   *)
(***************************************************************************)
EXTENDS Naturals

CONSTANT Task      \* the numbers of the tasks, an initial segment of Nat

VARIABLES sent, started, ended

Start(t) ==
    /\ t \in 1 .. sent
    /\ started' = started \cup {t}
    /\ UNCHANGED <<sent, ended>>

End(t) ==
    /\ t \in started
    /\ ended' = ended \cup {t}
    /\ UNCHANGED <<sent, started>>

Send == sent' = sent + 1 /\ UNCHANGED <<started, ended>>

Next == Send \/ \E t \in Task : Start(t) \/ End(t)

view == <<sent, started, ended>>

Init == sent = 0 /\ started = {} /\ ended = {}

Safety == Init /\ [][Next]_view

Spec ==
    /\ Safety
    /\ \A t \in Task : WF_view(Start(t)) /\ WF_view(End(t))
=============================================================================
