---------------------------- MODULE DurableConfig ---------------------------
(***************************************************************************)
(* What the storage manager promises about the configuration, whatever it  *)
(* does to the flash to keep the promise (config.c:108-118, 127-158): the  *)
(* flash always holds one whole configuration, the durable one; a save     *)
(* replaces it in one step by a copy of the running configuration; a       *)
(* restart runs the durable one.                                           *)
(*                                                                         *)
(* A configuration is abstracted to its version: every change of any field *)
(* makes a new one.                                                        *)
(***************************************************************************)
EXTENDS Integers

None == -1   \* no save under way

VARIABLES ram,      \* the version in Config
          staged,   \* the version being saved
          durable,  \* the version a restart would find
          latest    \* the newest version there has been

vars == <<ram, staged, durable, latest>>

TypeOK ==
    /\ ram \in Nat /\ durable \in Nat /\ latest \in Nat
    /\ staged \in Nat \cup {None}

Init == ram = 0 /\ staged = None /\ durable = 0 /\ latest = 0

\* Some field of the running configuration changes.
Change ==
    /\ latest' = latest + 1
    /\ ram' = latest + 1
    /\ UNCHANGED <<staged, durable>>

\* A save begins with a copy of the running configuration.
Snapshot ==
    /\ staged = None
    /\ staged' = ram
    /\ UNCHANGED <<ram, durable, latest>>

\* The copy becomes what a restart would find.
Commit ==
    /\ staged # None
    /\ durable' = staged
    /\ UNCHANGED <<ram, staged, latest>>

\* The save ends, and only once the copy is durable.
Acknowledge ==
    /\ staged # None
    /\ durable = staged
    /\ staged' = None
    /\ UNCHANGED <<ram, durable, latest>>

\* Power is lost at any point.
Restart ==
    /\ ram' = durable
    /\ staged' = None
    /\ UNCHANGED <<durable, latest>>

Next == Change \/ Snapshot \/ Commit \/ Acknowledge \/ Restart

Spec == Init /\ [][Next]_vars

-----------------------------------------------------------------------------
\* The running configuration is never older than the durable one.
NeverBehind ==
    /\ durable <= ram /\ ram <= latest
    /\ staged # None => (durable <= staged /\ staged <= ram)

\* A restart never finds an older configuration than an earlier one would have.
NeverGoesBack == [][durable' >= durable]_vars
=============================================================================
