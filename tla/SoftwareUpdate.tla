--------------------------- MODULE SoftwareUpdate --------------------------
(***************************************************************************)
(* What the boot loader promises about the program in flash: it changes    *)
(* only by installing, whole and in one step, an update that is offered in *)
(* full and asked for, and never an older one than the newest offered.     *)
(***************************************************************************)
EXTENDS Integers

CONSTANTS Updates,   \* [seq, ver, start, end, data]; data: chunk -> contents
          Original   \* chunk -> contents: the program the device came with

VARIABLES image,     \* the program the device runs: chunk -> contents
          offered    \* the updates that are complete and have been executed

vars == <<image, offered>>

\* The program img with the update u over it.
Overlay(img, u) == [c \in DOMAIN img |-> IF c \in u.start .. u.end - 1
                                         THEN u.data[c] ELSE img[c]]

Init == image = Original /\ offered = {}

\* The application stores records of updates, or recycles old ones.
Offer == /\ offered' \in SUBSET Updates
         /\ UNCHANGED image

Install(u) ==
    /\ u \in offered
    /\ \A v \in offered : v.seq <= u.seq
    /\ image' = Overlay(image, u)
    /\ UNCHANGED offered

Next == Offer \/ \E u \in Updates : Install(u)

Spec == Init /\ [][Next]_vars
=============================================================================
