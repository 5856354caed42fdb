----------------------------- MODULE SpinKicker -----------------------------
(***************************************************************************)
(* One spin gate (src/turf/extra/SpinKicker.h).  Workers announce          *)
(* themselves by incrementing the counter and spin until it is zero again; *)
(* the kicking thread spins until enough workers have announced themselves *)
(* and stores zero.  Each atomic access of the code is one operator here,  *)
(* so that a user of the gate gives every access a step of its own: in     *)
(* particular the last load of kick() and its store are two steps, and an  *)
(* increment that falls between them would be lost.                        *)
(*                                                                         *)
(* The counter has the width of a machine word and never exceeds the       *)
(* number of threads, so it is an unbounded natural here.  The operators   *)
(* are sequentially consistent: only one location is involved, and the     *)
(* release/acquire pair the code uses on it is what lets the users treat   *)
(* their plain fields as published by a kick.                              *)
(***************************************************************************)
EXTENDS Naturals

VARIABLE m_kickVar

TypeOK == m_kickVar \in Nat

Init == m_kickVar = 0

\* waitForKick(): the fetchAdd, then the condition under which its loop exits.
Arrive == m_kickVar' = m_kickVar + 1

Released == ~(m_kickVar > 0)

\* Mutant: the wait ends one worker short.
ReadyOneShort(count) == ~(m_kickVar + 1 < count)

\* kick(count): the condition under which its loop exits, then the store.
Ready(count) == ~(m_kickVar < count)

Kick == m_kickVar' = 0
=============================================================================
