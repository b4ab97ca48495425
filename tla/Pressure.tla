------------------------------ MODULE Pressure ------------------------------
(***************************************************************************)
(* Pressure stall information of a node (pkg/pressure/pressure.go).  A PSI *)
(* file is the sequence of its lines, each a word and the value of its     *)
(* avg10 in tenths of a percent; NoFile stands for one that cannot be      *)
(* opened or read.  The other averages are handled like avg10.             *)
(***************************************************************************)
EXTENDS Integers, Sequences, FiniteSets

CONSTANT NoFile

Resources == {"cpu", "memory", "io"}

\* The value of the last line that begins with this word, or 0.
Avg10(file, word) ==
    LET lines == {i \in DOMAIN file : file[i].word = word}
    IN  IF lines = {} THEN 0
        ELSE file[CHOOSE i \in lines : \A j \in lines : j <= i].avg10

\* A line whose fields cannot be parsed has zeroes: a value that is not a
\* number is 0 in the file as this module sees it.
readPSIFile(file) ==
    IF file = NoFile THEN [available |-> FALSE, some |-> 0, full |-> 0]
    ELSE [available |-> TRUE, some |-> Avg10(file, "some"), full |-> Avg10(file, "full")]

Unavailable == [r \in Resources |-> readPSIFile(NoFile)]

Readable(read) == Cardinality({r \in Resources : read[r].available})

PressureStatus(read) == CASE Readable(read) = 0 -> "no_data"
                          [] Readable(read) = 3 -> "full"
                          [] OTHER -> "partial"

\* The resources named in HighPressureAlert: ten percent or more.
detectHighPressure(read) == {r \in Resources : read[r].available /\ read[r].full >= 100}

\* What Collect returns after it has read the three files.
PressureData(read) == [status |-> PressureStatus(read), read |-> read,
                       alert |-> detectHighPressure(read)]

\* The directory is missing, or the feature is disabled.
NoPressure(status) == [status |-> status, read |-> Unavailable, alert |-> {}]
=============================================================================
