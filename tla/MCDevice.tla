------------------------------ MODULE MCDevice ------------------------------
(***************************************************************************)
(* Instances of Device for TLC: what the user enters is right or wrong,    *)
(* and each kind of disturbance is tried with the ones it may interfere    *)
(* with.                                                                   *)
(***************************************************************************)
EXTENDS Device
Entries == {<<1, 0, 1, 0, 1, 0>>, <<9, 0, 1, 0, 1, 0>>}
Budget(downloads, inputs, changes, cuts) ==
    [downloads |-> downloads, inputs |-> inputs, changes |-> changes, cuts |-> cuts]

\* Three inputs other than a download; a download, and a change of the network or
\* a power cut; a network that comes and goes, and a power cut.
Safe == {Budget(0, 3, 0, 0), Budget(1, 0, 1, 0), Budget(1, 0, 0, 1), Budget(0, 0, 2, 1)}

\* The same without power cuts and entries, for liveness.
Live == {Budget(1, 0, 1, 0), Budget(0, 0, 2, 0)}
=============================================================================
