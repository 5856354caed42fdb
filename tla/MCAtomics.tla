----------------------------- MODULE MCAtomics -----------------------------
(***************************************************************************)
(* An instance of Atomics: two threads call every operation, with one      *)
(* choice of arguments each, ordered to acquire or to release.             *)
(***************************************************************************)
EXTENDS Atomics, TLC

Op(op, expected, operand, order, failure) ==
    [op |-> op, expected |-> expected, operand |-> operand, order |-> order, failure |-> failure]

MCCalls ==
    {Op("load", 0, 0, "acquire", "relaxed"),
     Op("store", 0, 1, "release", "relaxed"),
     Op("exchange", 0, 1, "acquire", "relaxed"),
     Op("exchange", 0, 1, "release", "relaxed"),
     Op("compareExchange", 1, 2, "acquire", "relaxed"),
     Op("compareExchange", 1, 2, "release", "relaxed"),
     Op("compareExchangeStrong", 1, 0, "acq_rel", "relaxed"),
     Op("compareExchangeWeak", 1, 0, "release", "acquire"),
     Op("compareExchangeWeak", 1, 0, "acquire", "relaxed"),
     Op("fetchAdd", 0, 3, "release", "relaxed"),
     Op("fetchSub", 0, 1, "acquire", "relaxed"),
     Op("fetchAnd", 0, 2, "acquire", "relaxed"),
     Op("fetchOr", 0, 2, "relaxed", "relaxed")}

Symmetry == Permutations(Threads)
=============================================================================
