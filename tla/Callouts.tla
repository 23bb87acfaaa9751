------------------------------ MODULE Callouts -----------------------------
(***************************************************************************)
(* What the callout facility promises: a callout runs once for each time   *)
(* it is scheduled, unless it is changed or deleted first, never before    *)
(* its time, and never before another one that is due earlier.             *)
(***************************************************************************)
EXTENDS Integers

CONSTANTS Callout, Time, Never, Nobody

VARIABLES tod,      \* seconds since boot
          due,      \* callout -> when it is to run, or Never
          running   \* the callout whose callback runs, or Nobody

vars == <<tod, due, running>>

Init == tod = 0 /\ due = [c \in Callout |-> Never] /\ running = Nobody

Tick == tod' > tod /\ UNCHANGED <<due, running>>

\* Schedule, change, or delete (t = Never) one callout; a callback may, too.
Schedule(c, t) == due' = [due EXCEPT ![c] = t] /\ UNCHANGED <<tod, running>>

Fire(c) ==
    /\ running = Nobody
    /\ due[c] # Never /\ due[c] <= tod
    /\ \A d \in Callout : due[d] # Never => due[c] <= due[d]
    /\ due' = [due EXCEPT ![c] = Never]
    /\ running' = c
    /\ UNCHANGED tod

Return == running # Nobody /\ running' = Nobody /\ UNCHANGED <<tod, due>>

Next ==
    \/ Tick
    \/ \E c \in Callout : Fire(c)
    \/ Return
    \/ \E c \in Callout, t \in Time \cup {Never} : Schedule(c, t)

Spec == Init /\ [][Next]_vars
=============================================================================
