----------------------------- MODULE AtomicCell -----------------------------
(***************************************************************************)
(* What every atomic type of turf promises: an operation takes effect at   *)
(* one instant between its call and its return, whatever the processor     *)
(* needs to get there.  Only the weak compare-exchange may fail without a  *)
(* reason, and then it leaves the value alone.                             *)
(*                                                                         *)
(* A request names the operation, what the caller expects to find          *)
(* (compare-exchange), its operand, and the memory orders.  The answer is  *)
(* what the call returns: did it succeed, and the value it found.          *)
(***************************************************************************)
EXTENDS Integers

CONSTANTS Threads, Requests, NoRequest, Bits

VARIABLES value, phase, request, answer

vars == <<value, phase, request, answer>>

Values   == 0 .. 2^Bits - 1
NoAnswer == [ok |-> FALSE, found |-> 0]

BitsOf(v) == {b \in 0 .. Bits - 1 : (v \div 2^b) % 2 = 1}
Number(S) == CHOOSE v \in Values : BitsOf(v) = S

Comparing == {"compareExchange", "compareExchangeStrong", "compareExchangeWeak"}

\* The value after operation r on a cell that holds v.
Effect(r, v) ==
    CASE r.op = "load" -> v
      [] r.op \in {"store", "exchange"} -> r.operand
      [] r.op \in Comparing -> IF v = r.expected THEN r.operand ELSE v
      [] r.op = "fetchAdd" -> (v + r.operand) % 2^Bits
      [] r.op = "fetchSub" -> (v - r.operand) % 2^Bits
      [] r.op = "fetchAnd" -> Number(BitsOf(v) \cap BitsOf(r.operand))
      [] r.op = "fetchOr"  -> Number(BitsOf(v) \cup BitsOf(r.operand))

\* Only the strong and the weak compare-exchange report success; a store
\* reports nothing.
Answer(r, v) ==
    [ok    |-> r.op \in {"compareExchangeStrong", "compareExchangeWeak"} => v = r.expected,
     found |-> IF r.op = "store" THEN 0 ELSE v]

Init ==
    /\ value \in Values
    /\ phase = [t \in Threads |-> "idle"]
    /\ request = [t \in Threads |-> NoRequest]
    /\ answer = [t \in Threads |-> NoAnswer]

Call(t, r) ==
    /\ phase[t] = "idle"
    /\ phase' = [phase EXCEPT ![t] = "called"]
    /\ request' = [request EXCEPT ![t] = r]
    /\ UNCHANGED <<value, answer>>

Reply(t, a) ==
    /\ phase[t] = "called"
    /\ phase' = [phase EXCEPT ![t] = "done"]
    /\ answer' = [answer EXCEPT ![t] = a]
    /\ UNCHANGED request

TakeEffect(t) ==
    /\ Reply(t, Answer(request[t], value))
    /\ value' = Effect(request[t], value)

FailSpuriously(t) ==
    /\ \E v \in Values : Reply(t, [ok |-> FALSE, found |-> v])
    /\ request[t].op = "compareExchangeWeak"
    /\ UNCHANGED value

Return(t) ==
    /\ phase[t] = "done"
    /\ phase' = [phase EXCEPT ![t] = "idle"]
    /\ request' = [request EXCEPT ![t] = NoRequest]
    /\ answer' = [answer EXCEPT ![t] = NoAnswer]
    /\ UNCHANGED value

Next ==
    \E t \in Threads :
        \/ \E r \in Requests : Call(t, r)
        \/ TakeEffect(t)
        \/ FailSpuriously(t)
        \/ Return(t)

Spec == Init /\ [][Next]_vars
=============================================================================
