------------------------------- MODULE Tempus ------------------------------
(***************************************************************************)
(* The callout list of tempus.c: TempusCallout keeps it sorted,            *)
(* TempusMagnaCirculi, called by the super loop, runs what is due.  A      *)
(* callback may schedule, change or delete any callout, its own too, and   *)
(* the clock interrupt changes the time at any point.                      *)
(*                                                                         *)
(* list is the chain of next pointers from tempusList.                     *)
(***************************************************************************)
EXTENDS Integers, Sequences, SequencesExt

CONSTANTS Callout,   \* the TempusCallout_t of the callers
          Nobody,    \* no callout
          Delays,    \* what callers give Future()
          MaxTod     \* bound: seconds

TempusAssumption ==
    /\ Nobody \notin Callout
    /\ Delays \subseteq Nat
    /\ MaxTod \in Nat

VARIABLES tod0,   \* seconds since boot (rtc.c)
          time,   \* callout -> tmr->time, 0 for none
          list,   \* tempusList
          pc,     \* "app", or in TempusMagnaCirculi: "scan" or "callback"
          tod,    \* the time it took on entry
          tp      \* the callout whose callback it calls

vars == <<tod0, time, list, pc, tod, tp>>

Times == UNION {{t + d : d \in Delays} : t \in 0 .. MaxTod}
InList(c) == \E i \in DOMAIN list : list[i] = c

TypeOK ==
    /\ tod0 \in 0 .. MaxTod /\ tod \in 0 .. MaxTod
    /\ time \in [Callout -> {0} \cup Times]
    /\ list \in Seq(Callout)
    /\ pc \in {"app", "scan", "callback"}
    /\ tp \in Callout \cup {Nobody}

Init ==
    /\ tod0 = 0 /\ tod = 0
    /\ time = [c \in Callout |-> 0]
    /\ list = <<>>
    /\ pc = "app" /\ tp = Nobody

\* The clock interrupt moves the time on (updateTOD).
Tick ==
    /\ tod0 < MaxTod
    /\ tod0' = tod0 + 1
    /\ UNCHANGED <<time, list, pc, tod, tp>>

\* The list without c: it is only searched if c->time is set.
PositionOf(c) == CHOOSE i \in DOMAIN list : list[i] = c
Unlinked(c) ==
    IF time[c] # 0 /\ InList(c) THEN RemoveAt(list, PositionOf(c)) ELSE list

\* Where a callout for the time t goes into l: before the first later one.
Place(l, t) ==
    LET later == {i \in DOMAIN l : t < time[l[i]]}
    IN  IF later = {} THEN Len(l) + 1 ELSE CHOOSE i \in later : \A j \in later : i <= j

\* Mutant of TempusCallout: it does not look for c in the list.
BugNoRemove(c, t) ==
    /\ time' = [time EXCEPT ![c] = t]
    /\ list' = IF t = 0 THEN list ELSE InsertAt(list, Place(list, t), c)
    /\ UNCHANGED <<tod0, pc, tod, tp>>

\* TempusCallout: out of the list, and back in unless the time is 0.
TempusCallout(c, t) ==
    /\ time' = [time EXCEPT ![c] = t]
    /\ list' = IF t = 0 THEN Unlinked(c)
               ELSE InsertAt(Unlinked(c), Place(Unlinked(c), t), c)
    /\ UNCHANGED <<tod0, pc, tod, tp>>

\* A caller in the super loop deletes a callout, or sets it to Future(d).
AppCallout ==
    /\ pc = "app"
    /\ \E c \in Callout :
          TempusCallout(c, 0) \/ \E d \in Delays : TempusCallout(c, tod0 + d)

\* A callback does; its times are in the future.
CallbackCallout ==
    /\ pc = "callback"
    /\ \E c \in Callout :
          TempusCallout(c, 0) \/ \E d \in Delays \ {0} : TempusCallout(c, tod0 + d)

ScanBegin ==
    /\ pc = "app"
    /\ tod' = tod0
    /\ pc' = "scan"
    /\ UNCHANGED <<tod0, time, list, tp>>

\* Mutants of ScanFire: a callout runs a second early, or leaves the list only
\* when its callback is called for the next one.
BugFiresEarly ==
    /\ pc = "scan"
    /\ list # <<>> /\ time[Head(list)] <= tod + 1
    /\ tp' = Head(list)
    /\ list' = Tail(list)
    /\ pc' = "callback"
    /\ UNCHANGED <<tod0, time, tod>>
BugFiresOnlyOne ==
    /\ pc = "scan"
    /\ Len(list) = 1 /\ time[Head(list)] <= tod
    /\ tp' = Head(list)
    /\ list' = Tail(list)
    /\ pc' = "callback"
    /\ UNCHANGED <<tod0, time, tod>>

\* The top entry is due: take it off the list, then call it.
ScanFire ==
    /\ pc = "scan"
    /\ list # <<>> /\ time[Head(list)] <= tod
    /\ tp' = Head(list)
    /\ list' = Tail(list)
    /\ pc' = "callback"
    /\ UNCHANGED <<tod0, time, tod>>

Return ==
    /\ pc = "callback"
    /\ pc' = "scan" /\ tp' = Nobody
    /\ UNCHANGED <<tod0, time, list, tod>>

ScanEnd ==
    /\ pc = "scan"
    /\ list # <<>> => tod < time[Head(list)]
    /\ pc' = "app"
    /\ UNCHANGED <<tod0, time, list, tod, tp>>

TempusMagnaCirculi == ScanBegin \/ ScanFire \/ Return \/ ScanEnd

Next ==
    \/ Tick
    \/ AppCallout
    \/ CallbackCallout
    \/ TempusMagnaCirculi

Spec == Init /\ [][Next]_vars

\* The super loop calls TempusMagnaCirculi every time round; callbacks return.
FairSpec == Spec /\ WF_vars(TempusMagnaCirculi)

-----------------------------------------------------------------------------
Service == INSTANCE Callouts WITH
    Never   <- 0,
    Time    <- Times,
    tod     <- tod0,
    due     <- [c \in Callout |-> IF InList(c) THEN time[c] ELSE 0],
    running <- tp

\* Callouts of the same second run in the order they were scheduled: no step
\* puts one in front of another that was already waiting for that second.
FirstComeFirstServed ==
    [][\A i, j \in DOMAIN list' :
          (/\ i < j
           /\ time'[list'[i]] = time'[list'[j]]
           /\ InList(list'[j]) /\ time[list'[j]] = time'[list'[j]])
          => /\ InList(list'[i])
             /\ time[list'[i]] = time'[list'[i]]]_vars

\* Whatever callbacks do to the list that is being run, no callout is lost,
\* run twice, run early or run before an earlier one, and those of the same
\* second run in the order they were scheduled.
IsCalloutService == Service!Spec /\ FirstComeFirstServed

\* The list is sorted and holds a callout once (a callout linked in twice
\* makes the chain a circle), and every callout in it has its time set, so
\* that the next TempusCallout finds it.
ListSound ==
    /\ \A i, j \in DOMAIN list : i < j => /\ list[i] # list[j]
                                          /\ time[list[i]] <= time[list[j]]
    /\ \A i \in DOMAIN list : time[list[i]] # 0

\* A callout that is due is run, unless somebody changes or deletes it.
EventuallyRun ==
    \A c \in Callout :
        (InList(c) /\ time[c] <= tod0) ~> (~InList(c) \/ time[c] > tod0)
=============================================================================
