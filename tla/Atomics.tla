------------------------------ MODULE Atomics ------------------------------
(***************************************************************************)
(* Threads that call the atomic operations of turf on one cell: each call  *)
(* runs its program (module AtomicCode) one access to memory at a time,    *)
(* between the fences its wrapper puts around it for the memory order.     *)
(*                                                                         *)
(* Besides the value, memory orders are about what a thread can know.      *)
(* Every thread writes plain data before it calls; its name stands for the *)
(* news of that data.  Reading the cell makes a thread able to acquire     *)
(* what the value carries; only an acquire fence lets it know.  A release  *)
(* fence fixes what the thread's later writes carry (C++11 29.8).          *)
(***************************************************************************)
EXTENDS AtomicCode

CONSTANTS
    Threads,
    Calls,       \* the operations called, with their arguments and orders
    NoCall

ASSUME CallsAssumption ==
    /\ Calls \subseteq [op : Operations, expected : 0 .. 3, operand : 0 .. 3,
                        order : STRING, failure : STRING]
    /\ NoCall \notin Calls

VARIABLES
    used,        \* the implementation in use
    cell,        \* the value of the cell
    carries,     \* the news that whoever reads the value may acquire
    published,   \* what it carries by the orders the callers asked for
    thread       \* each thread: its call, program counter, registers, news

vars == <<used, cell, carries, published, thread>>

NotCalling == [call |-> NoCall, pc |-> 0, settled |-> FALSE, previous |-> 0, desired |-> 0,
               failed |-> FALSE, monitor |-> FALSE]

code == Implementations[used]

Init ==
    /\ used \in Distinct
    /\ cell \in code.starts
    /\ carries = {} /\ published = {}
    /\ thread = [t \in Threads |->
           [registers |-> NotCalling, knows |-> {t}, acquirable |-> {}, releasing |-> {}, owed |-> {}]]

Registers(t) == thread[t].registers
Request(t)   == Registers(t).call
Program(t)   == code.programs[Request(t).op]
Step(t)      == Program(t).code[Registers(t).pc]
Calling(t)   == Request(t) # NoCall
Running(t)   == Calling(t) /\ Registers(t).pc <= Len(Program(t).code)
At(t, name)  == Running(t) /\ Step(t)[1] = name

----------------------------------------------------------------------------
(* Memory orders: c/atomic.h.                                              *)

Releasing == {"release", "acq_rel"}
Acquiring == {"acquire", "acq_rel"}

\* The weak compare-exchange fences before if either order asks for it, and
\* after by the order of its outcome.
Releases(r) == r.order \in Releasing \/ (r.op = "compareExchangeWeak" /\ r.failure \in Releasing)
OrderAfter(r, ok) == IF r.op = "compareExchangeWeak" /\ ~ok THEN r.failure ELSE r.order
Acquires(r, ok) == OrderAfter(r, ok) \in Acquiring

\* What the orders promise: a load publishes nothing, a store learns nothing.
Publishes(r) == r.op # "load" /\ r.order \in Releasing
Learns(r, ok) == r.op # "store" /\ Acquires(r, ok)

----------------------------------------------------------------------------
(* Steps of a program.                                                     *)

Low(v)  == v % 2
High(v) == v \div 2
Word(high, low) == 2 * high + low

\* and, orr and add word by word, the last with the carry of the low word.
Combine(op, v, w) ==
    CASE op = "fetchAnd" -> Word(High(v) * High(w), Low(v) * Low(w))
      [] op = "fetchOr"  -> Word((High(v) + High(w) + 1) \div 2, (Low(v) + Low(w) + 1) \div 2)
      [] op = "fetchAdd" -> (v + w) % code.size
      [] op = "fetchSub" -> (v + (code.size - w)) % code.size

\* Does the step that t takes decide its operation, if it worked?  It does
\* unless the program goes back on failure.
Decides(t, worked) ==
    LET next == Registers(t).pc + 1
    IN  worked \/ next > Len(Program(t).code) \/ Program(t).code[next][1] # "retry"

\* t goes on with these registers.
Goes(t, registers) == thread' = [thread EXCEPT ![t].registers = registers]
Continue(t, registers) == Goes(t, [registers EXCEPT !.pc = @ + 1])

\* An access that reads: what the value carries can be acquired.
Reads(t, registers, settles) ==
    thread' = [thread EXCEPT
        ![t].registers  = [registers EXCEPT !.pc = @ + 1, !.settled = settles],
        ![t].acquirable = @ \cup carries,
        ![t].owed       = published]

\* A write of v by t ends the exclusive access of the others.
Writes(t, v, registers, keepsNews) ==
    /\ cell' = v
    /\ carries' = thread[t].releasing \cup (IF keepsNews THEN carries ELSE {})
    /\ published' = (IF Publishes(Request(t)) THEN thread[t].knows ELSE {})
                    \cup (IF keepsNews THEN published ELSE {})
    /\ thread' = [u \in Threads |->
           IF u # t THEN [thread[u] EXCEPT !.registers.monitor = FALSE]
           ELSE [thread[t] EXCEPT
               !.registers  = [registers EXCEPT !.pc = @ + 1, !.settled = TRUE, !.monitor = FALSE],
               !.acquirable = IF keepsNews THEN @ \cup carries ELSE @,
               !.owed       = IF keepsNews THEN published ELSE {}]]

UnchangedCell == UNCHANGED <<used, cell, carries, published>>

\* Plain accesses, of a word or of half of one.
Read(t) ==
    /\ At(t, "read")
    /\ Reads(t, [Registers(t) EXCEPT !.previous = cell], Len(Program(t).code) = 1)
    /\ UnchangedCell

ReadLow(t) ==
    /\ At(t, "readLow")
    /\ Reads(t, [Registers(t) EXCEPT !.previous = Word(High(@), Low(cell))], FALSE)
    /\ UnchangedCell

ReadHigh(t) ==
    /\ At(t, "readHigh")
    /\ Reads(t, [Registers(t) EXCEPT !.previous = Word(High(cell), Low(@))],
             Registers(t).pc = Len(Program(t).code))
    /\ UnchangedCell

Write(t) ==
    /\ At(t, "write")
    /\ Writes(t, Registers(t).desired, Registers(t), FALSE)
    /\ UNCHANGED used

\* ARM.
LoadExclusive(t) ==
    /\ At(t, "ldrex")
    /\ LET leaves == /\ Program(t).code[Registers(t).pc + 1][1] = "leaveUnlessExpected"
                     /\ cell # Request(t).expected
       IN  Reads(t, [Registers(t) EXCEPT !.previous = cell, !.monitor = TRUE], leaves)
    /\ UnchangedCell

Leave(t) ==
    /\ At(t, "leaveUnlessExpected")
    /\ LET r == Registers(t)
       IN  IF r.previous = Request(t).expected THEN Continue(t, r)
           ELSE Goes(t, [r EXCEPT !.pc = Len(Program(t).code) + 1])
    /\ UnchangedCell

StoreExclusive(t) ==
    /\ At(t, "strex")
    /\ Registers(t).monitor
    /\ Writes(t, Registers(t).desired, [Registers(t) EXCEPT !.failed = FALSE], TRUE)
    /\ UNCHANGED used

\* It fails if the exclusive access was lost, and may fail at any time.
StoreExclusiveFails(t) ==
    /\ At(t, "strex")
    /\ Continue(t, [Registers(t) EXCEPT !.failed = TRUE, !.monitor = FALSE, !.settled = Decides(t, FALSE)])
    /\ UnchangedCell

\* x86.
CompareExchange(t) ==
    /\ At(t, "cmpxchg") \/ At(t, "cmpxchgWeak")
    /\ LET r == Registers(t)
       IN  \/ /\ cell = r.previous
              /\ Writes(t, r.desired, [r EXCEPT !.failed = FALSE], TRUE)
              /\ UNCHANGED used
           \/ /\ cell # r.previous \/ At(t, "cmpxchgWeak")
              /\ Reads(t, [r EXCEPT !.previous = cell, !.failed = TRUE], Decides(t, FALSE))
              /\ UnchangedCell

\* cmpxchg8b without lock.  As the code's comment has it, the write is atomic
\* and a failed compare does not write.
Compare8b(t) ==
    /\ At(t, "compare8b")
    /\ LET r == Registers(t)
       IN  Reads(t, [r EXCEPT !.previous = cell, !.failed = (cell # r.previous)], FALSE)
    /\ UnchangedCell

Write8b(t) ==
    /\ At(t, "write8b")
    /\ IF Registers(t).failed THEN Continue(t, Registers(t)) /\ UnchangedCell
       ELSE Writes(t, Registers(t).desired, Registers(t), FALSE) /\ UNCHANGED used

ExchangeAny(t) ==
    /\ At(t, "xchg") \/ At(t, "xadd")
    /\ LET r == Registers(t)
           v == IF At(t, "xchg") THEN r.desired ELSE Combine(Request(t).op, cell, Request(t).operand)
       IN  Writes(t, v, [r EXCEPT !.previous = cell], TRUE)
    /\ UNCHANGED used

\* Registers only.  The carry of adds is not kept in a register of its own:
\* the low sum is less than the low operand when it wrapped.
Compute(r, step, request) ==
    CASE step = "expect"    -> [r EXCEPT !.previous = request.expected]
      [] step = "keep"      -> [r EXCEPT !.desired = r.previous]
      [] step = "combine"   -> [r EXCEPT !.desired = Combine(request.op, r.previous, request.operand)]
      [] step = "adds"      -> [r EXCEPT !.desired = Word(0, Low(Low(r.previous) + Low(request.operand)))]
      [] step = "adc"       ->
            LET carry == IF r.desired < Low(request.operand) THEN 1 ELSE 0
            IN  [r EXCEPT !.desired = Word(Low(High(r.previous) + High(request.operand) + carry), @)]
      [] step = "setFailed" -> [r EXCEPT !.failed = TRUE]

InRegisters(t) ==
    /\ \E s \in {"expect", "keep", "combine", "adds", "adc", "setFailed"} :
           At(t, s) /\ Continue(t, Compute(Registers(t), s, Request(t)))
    /\ UnchangedCell

\* A register that was never set.
Unset(t) ==
    /\ At(t, "any")
    /\ \E v \in 0 .. code.size - 1 : Continue(t, [Registers(t) EXCEPT !.previous = v])
    /\ UnchangedCell

RetryIfFailed(t) ==
    /\ At(t, "retry")
    /\ LET r == Registers(t)
       IN  IF r.failed THEN Goes(t, [r EXCEPT !.pc = Step(t)[2]]) ELSE Continue(t, r)
    /\ UnchangedCell

----------------------------------------------------------------------------
(* Calling and returning.                                                  *)

\* t has written new data: what others knew of it is old.
Forget(news, t) == news \ {t}

\* The release fence of the wrapper, or none; the status of the weak
\* compare-exchange is whatever its register held.
Enter(t, r, failed) ==
    LET fenced == Releases(r) /\ "release" \in code.fences[r.op]
    IN  /\ ~Calling(t)
        /\ carries' = Forget(carries, t) /\ published' = Forget(published, t)
        /\ thread' = [u \in Threads |->
               IF u = t
               THEN [thread[t] EXCEPT
                    !.registers = [NotCalling EXCEPT !.call = r, !.pc = 1, !.desired = r.operand,
                                                     !.failed = failed],
                    !.releasing = IF fenced THEN thread[t].knows ELSE Forget(@, t),
                    !.acquirable = Forget(@, t), !.owed = {}]
               ELSE [thread[u] EXCEPT !.knows = Forget(@, t), !.acquirable = Forget(@, t),
                                      !.releasing = Forget(@, t), !.owed = Forget(@, t)]]
        /\ UNCHANGED <<used, cell>>

Call(t, r) ==
    /\ r.op \in DOMAIN code.programs
    /\ r.expected < code.size /\ r.operand < code.size
    /\ \E failed \in {FALSE} \cup {r.op = "compareExchangeWeak"} : Enter(t, r, failed)

\* What the call returns, from the registers.
Found(t) == IF Request(t).op = "store" THEN 0 ELSE Registers(t).previous
Succeeds(t) ==
    CASE Program(t).matched = "always"  -> TRUE
      [] Program(t).matched = "status"  -> ~Registers(t).failed
      [] Program(t).matched = "compare" -> Registers(t).previous = Request(t).expected

\* The acquire fence of the wrapper, or none.
Return(t) ==
    /\ Calling(t) /\ ~Running(t)
    /\ LET fenced == Acquires(Request(t), Succeeds(t)) /\ "acquire" \in code.fences[Request(t).op]
       IN  thread' = [thread EXCEPT ![t].registers = NotCalling,
                                    ![t].knows = IF fenced THEN @ \cup thread[t].acquirable ELSE @,
                                    ![t].owed = IF Learns(Request(t), Succeeds(t)) THEN @ ELSE {}]
    /\ UnchangedCell

Next ==
    \E t \in Threads :
        \/ \E r \in Calls : Call(t, r)
        \/ Read(t) \/ ReadLow(t) \/ ReadHigh(t) \/ Write(t)
        \/ LoadExclusive(t) \/ Leave(t) \/ StoreExclusive(t) \/ StoreExclusiveFails(t)
        \/ CompareExchange(t) \/ Compare8b(t) \/ Write8b(t) \/ ExchangeAny(t)
        \/ InRegisters(t) \/ Unset(t) \/ RetryIfFailed(t)
        \/ Return(t)

Spec == Init /\ [][Next]_vars

----------------------------------------------------------------------------
(* Properties.                                                             *)

Cell == INSTANCE AtomicCell WITH
    Requests <- Calls, NoRequest <- NoCall,
    Bits     <- 2,
    value    <- cell,
    phase    <- [t \in Threads |->
                    IF ~Calling(t) THEN "idle" ELSE IF Registers(t).settled THEN "done" ELSE "called"],
    request  <- [t \in Threads |-> Request(t)],
    answer   <- [t \in Threads |->
                    IF Calling(t) /\ Registers(t).settled
                    THEN [ok |-> Succeeds(t), found |-> Found(t)]
                    ELSE [ok |-> FALSE, found |-> 0]]

\* Every operation that AtomicCode lists takes effect at one instant
\* between its call and its return, and returns what it found then: neither
\* retries, nor torn reads, nor a spurious failure can be seen by a caller.
ImplementsCell == Cell!Spec

\* A thread that has returned from an acquiring operation knows everything
\* that was known to the thread whose releasing write it read, or to those
\* whose read-modify-writes led from that write to the value read.
AcquireSeesRelease == \A t \in Threads : ~Calling(t) => thread[t].owed \subseteq thread[t].knows
=============================================================================
