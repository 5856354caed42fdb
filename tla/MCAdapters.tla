----------------------------- MODULE MCAdapters -----------------------------
(***************************************************************************)
(* An instance of Adapters: two or three threads for every subject.        *)
(***************************************************************************)
EXTENDS Adapters

Two == {0, 1}

Cpus == [package : Two, core : Two]

MCMachines == UNION {[1 .. n -> Cpus] : n \in {1, 3}}

Field(lowest, size) == [offset |-> lowest, bits |-> size]

\* Members of two, one and one bits, and an array of two elements.
MCLayouts == {{Field(0, 2), Field(2, 1), Field(3, 1)}, {Field(0, 2), Field(2, 2)}, {Field(0, 3)}}
=============================================================================
