----------------------------- MODULE CommandLine ---------------------------
(***************************************************************************)
(* The debugger's command line, main/cmd.c: CommandLoop takes one          *)
(* character each time round the super loop, edits the line and, at its    *)
(* end, cuts it into words and runs the command.                           *)
(*                                                                         *)
(* A character is one of Chars: a letter, a blank (the space), CR, LF,     *)
(* backspace, or another control character (a tab, too: it is dropped).    *)
(* Words share the line's bytes: the blank after each becomes the NUL that *)
(* ends it.                                                                *)
(***************************************************************************)
EXTENDS Integers, Sequences, SequencesExt

CONSTANTS Letters,   \* printable characters, but for the blank
          LineSize,  \* sizeof line (256)
          ArgSize    \* entries of args (16)

Chars == Letters \cup {"blank", "cr", "lf", "bs", "ctrl"}

CommandAssumption ==
    /\ LineSize \in Nat \ {0} /\ ArgSize \in Nat \ {0}
    /\ Letters \cap {"blank", "cr", "lf", "bs", "ctrl"} = {}

VARIABLES beenHere,  \* the greeting is out
          CR,        \* the last character was a CR
          line,      \* the characters before linep
          ran,       \* args of the command this call has run, <<>> for none
          last       \* history: the last character taken, or "none"

vars == <<beenHere, CR, line, ran, last>>

TypeOK ==
    /\ beenHere \in BOOLEAN /\ CR \in BOOLEAN
    /\ line \in Seq(Letters \cup {"blank"}) /\ Len(line) < LineSize
    /\ ran \in Seq(Seq(Letters)) /\ Len(ran) < ArgSize
    /\ last \in Chars \cup {"none"}

Init == beenHere = FALSE /\ CR = FALSE /\ line = <<>> /\ ran = <<>> /\ last = "none"

\* The first call only says hello.
Greet == ~beenHere /\ beenHere' = TRUE /\ UNCHANGED <<CR, line, ran, last>>

\* Where the word that begins at i ends in l: before the next blank or the NUL.
WordEnd(l, i) ==
    CHOOSE e \in i .. Len(l) : /\ \A j \in i .. e : l[j] # "blank"
                               /\ e < Len(l) => l[e + 1] = "blank"

\* Mutant of NextBegin: the scan stays at the word's NUL, which ends it.
BugStopsAtNul(l, e) == Len(l) + 1

\* Where the scan goes on after a word that ends at e: past its NUL, if the
\* NUL took the place of a blank.
NextBegin(l, e) == IF e < Len(l) THEN e + 2 ELSE e + 1

\* Where the next word begins, from cp on; past the end when there is none.
Skip(l, cp) ==
    CHOOSE i \in cp .. Len(l) + 1 : /\ \A j \in cp .. i - 1 : l[j] = "blank"
                                    /\ i <= Len(l) => l[i] # "blank"

\* The variables of the loop that cuts a line into words.
CutLoop == {x \in [line : Seq(Letters \cup {"blank"}), cp : Nat \ {0}, args : Seq(Seq(Letters))] :
              x.cp <= Len(x.line) + 1}

\* There is another word, and room for it.
MoreWords(x) == Len(x.args) < ArgSize - 1 /\ Skip(x.line, x.cp) <= Len(x.line)

\* Once round the loop: the next word goes to args.
CutWord(x) ==
    LET i == Skip(x.line, x.cp)
        e == WordEnd(x.line, i)
    IN  [x EXCEPT !.cp = NextBegin(x.line, e), !.args = Append(@, SubSeq(x.line, i, e))]

args[x \in CutLoop] == IF MoreWords(x) THEN args[CutWord(x)] ELSE x.args

\* The words of the line l, as many as there is room for.
Words(l) == args[[line |-> l, cp |-> 1, args |-> <<>>]]

\* An LF that belongs to the CR before it is dropped.
Folded(c) == CR /\ c = "lf"

\* CR or LF: the words of the line are run, unless there are none.
EndOfLine(c) ==
    /\ c \in {"cr", "lf"} /\ ~Folded(c)
    /\ line' = <<>>
    /\ ran' = Words(line)

\* Any other character edits the line; what does not fit is dropped.
Edit(c) ==
    /\ c \notin {"cr", "lf"} \/ Folded(c)
    /\ line' = CASE c = "bs" /\ line # <<>> -> Front(line)
                 [] c \in Letters \cup {"blank"} /\ Len(line) < LineSize - 1 -> Append(line, c)
                 [] OTHER -> line
    /\ ran' = <<>>

\* A call that finds a character; the others change nothing.
CommandLoop(c) ==
    /\ beenHere
    /\ EndOfLine(c) \/ Edit(c)
    /\ CR' = (c = "cr")
    /\ last' = c
    /\ UNCHANGED beenHere

Next == Greet \/ \E c \in Chars : CommandLoop(c)

Spec == Init /\ [][Next]_vars

-----------------------------------------------------------------------------
(* What was meant: a word is a longest run of letters, the words of a line *)
(* are its runs from left to right, and a line ends at a CR, an LF or both.*)
Runs(l) == {r \in (1 .. Len(l)) \X (1 .. Len(l)) :
    /\ r[1] <= r[2]
    /\ \A j \in r[1] .. r[2] : l[j] # "blank"
    /\ r[1] > 1 => l[r[1] - 1] = "blank"
    /\ r[2] < Len(l) => l[r[2] + 1] = "blank"}

\* w is the words of l, or the first of them if there are more than args holds.
AreWords(w, l) ==
    /\ Len(w) < ArgSize
    /\ \E runs \in [1 .. Len(w) -> Runs(l)] :
          /\ \A i, j \in 1 .. Len(w) : i < j => runs[i][2] < runs[j][1]
          /\ \A i \in 1 .. Len(w) : w[i] = SubSeq(l, runs[i][1], runs[i][2])
          /\ \A r \in Runs(l) : \/ \E i \in 1 .. Len(w) : runs[i] = r
                               \/ /\ Len(w) = ArgSize - 1
                                  /\ \A i \in 1 .. Len(w) : runs[i][2] < r[1]

\* Each line end runs the words of the line before it, once: CR LF together is
\* one end, words are cut at blanks, none is lost but those past args
\* (cmd.c:335-356).
RunsTheLine ==
    [][LET end == last' = "cr" \/ (last' = "lf" /\ last # "cr")
       IN  IF end THEN AreWords(ran', line) ELSE ran' = <<>>]_vars
=============================================================================
