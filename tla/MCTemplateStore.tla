-------------------------- MODULE MCTemplateStore --------------------------
(***************************************************************************)
(* Instances of TemplateStore for TLC: three slots of a file of which two  *)
(* are loaded, two persons, enrolments of two touches.                     *)
(***************************************************************************)
EXTENDS TemplateStore, Sequences, TLC

CONSTANTS a, b, c
Symmetry == Permutations({a, b, c})

NoFiles == {<<>>}

\* A file with the fingers fs in its first slots, numbered from 1; it ends
\* behind the last slot saved.
FileOf(fs) ==
    [num  |-> [k \in {0} |-> Len(fs)],
     ids  |-> [k \in FileSlots |-> IF k < Len(fs) THEN k + 1 ELSE 0],
     tpls |-> [k \in 0 .. Len(fs) - 1 |-> {fs[k + 1]}]]

\* No file, or another person's, before or after the device's own.
MayBeAnothers ==
    NoFiles \cup {[n \in {m} |-> FileOf(<<f>>)] : m \in Names \ {OwnName}, f \in Fingers}

\* What configname copies to /mnt: a file per person.
TwoPersons == {[n \in Names \ {OwnName} |-> FileOf(IF n = 1 THEN <<a>> ELSE <<b>>)]}
=============================================================================
