---------------------------- MODULE ThreadLocal ----------------------------
(***************************************************************************)
(* turf::TLSPtr and turf::Thread under TLSPtrTester: main runs the test of *)
(* the interface, starts a thread for every slot of its vector and joins   *)
(* them; each thread stores a value of its own in the shared TLSPtr and    *)
(* reads it back.  A TLSPtr owns the values stored in it: it deletes a     *)
(* value when another replaces it, and the last one when it is destroyed.  *)
(***************************************************************************)
EXTENDS Integers, FiniteSets

CONSTANTS
    Main,         \* the thread of test()
    Children,     \* the threads it starts: threadNum, 0 .. n - 1
    Stores,       \* bound: how often a thread replaces its value
    NoValue       \* the null pointer

ThreadLocalAssumption ==
    /\ Children \subseteq Nat /\ Main \notin Children
    /\ Stores \in Nat
    /\ NoValue \notin (Children \cup {Main}) \X Nat

VARIABLES
    system,    \* the adapters
    key,       \* "none", or whose test uses the TLSPtr: "interface", "threads"
    slot,      \* the value each thread has stored under the key
    objects,   \* the objects the program has allocated and not deleted
    leaked,    \* those nothing will ever delete
    bad,       \* a deleted object was used or deleted, or an assertion failed
    place,     \* where each thread is
    attached,  \* m_attached, joinable() of the turf::Thread objects
    results    \* m_tlsValuesByThreadNum

vars == <<system, key, slot, objects, leaked, bad, place, attached, results>>

Systems == {"POSIX", "Win32", "Boost"}

Threads == Children \cup {Main}

\* A value is an object of a thread: the thread and a serial number.
Values == Threads \X (1 .. Stores)

Start(kind) ==
    /\ system = kind
    /\ key = "none"
    /\ slot = [t \in Threads |-> NoValue]
    /\ objects = {} /\ leaked = {} /\ bad = FALSE
    /\ place = [t \in Threads |-> IF t = Main THEN "testInterface" ELSE "unborn"]
    /\ attached = [t \in Children |-> FALSE]
    /\ results = [t \in Children |-> -1]

Init == \E kind \in Systems : Start(kind)

(***************************************************************************)
(* TLSPtr.                                                                 *)
(***************************************************************************)
\* delete of a null pointer does nothing.
Deleted(value) == IF value = NoValue THEN {} ELSE {value}

Broken(value) == value # NoValue /\ value \notin objects

\* pthread_key_create, TlsAlloc: the value is null in every thread.
CreateKey(use) ==
    /\ key' = use
    /\ slot' = [t \in Threads |-> NoValue]

\* The value's old owner deletes it before the new one is stored.
setData(t, value) ==
    /\ slot' = [slot EXCEPT ![t] = value]
    /\ objects' = (objects \ Deleted(slot[t])) \cup {value}
    /\ bad' = (bad \/ Broken(slot[t]))

\* Mutant: the destructor does not delete the calling thread's value.
DestroyKeepsValue(t) ==
    /\ key' = "none"
    /\ slot' = [u \in Threads |-> NoValue]
    /\ UNCHANGED <<objects, bad>>

\* The destructor deletes the value of the thread that runs it; Boost's has
\* deleted those of the threads that are gone when they went.
DestroyKey(t) ==
    /\ key' = "none"
    /\ slot' = [u \in Threads |-> NoValue]
    /\ objects' = objects \ Deleted(slot[t])
    /\ bad' = (bad \/ Broken(slot[t]))

(***************************************************************************)
(* Threads.                                                                *)
(***************************************************************************)
Go(t, to) == place' = [place EXCEPT ![t] = to]

At(t, where) == place[t] = where

Same == UNCHANGED system

NoTLS == UNCHANGED <<key, slot, objects, leaked, bad>>

NoThreads == UNCHANGED <<attached, results>>

\* Thread::run creates the thread; it asserts that the object has none.
run(c) ==
    /\ At(Main, "starting") /\ At(c, "unborn")
    /\ bad' = (bad \/ attached[c])
    /\ attached' = [attached EXCEPT ![c] = TRUE]
    /\ Go(c, "threadFunc")
    /\ Same /\ UNCHANGED <<key, slot, objects, leaked, results>>

\* Thread::join waits for the thread to end and forgets it.
join(c) ==
    /\ At(Main, "joining") /\ attached[c] /\ At(c, "ended")
    /\ attached' = [attached EXCEPT ![c] = FALSE]
    /\ Same /\ NoTLS /\ UNCHANGED <<place, results>>

(***************************************************************************)
(* A child: it stores a new value, perhaps replaces it, and reports what   *)
(* it finds under the key when it has slept.                               *)
(***************************************************************************)
Serial(t) == IF slot[t] = NoValue THEN 0 ELSE slot[t][2]

NextValue(t) == <<t, Serial(t) + 1>>

Store(c) ==
    /\ At(c, "threadFunc") /\ Serial(c) < Stores
    /\ setData(c, NextValue(c))
    /\ Same /\ NoThreads /\ UNCHANGED <<key, leaked, place>>

Report(c) ==
    /\ At(c, "threadFunc") /\ slot[c] # NoValue
    /\ results' = [results EXCEPT ![c] = slot[c][1]]
    /\ bad' = (bad \/ Broken(slot[c]) \/ key = "none")
    /\ Go(c, "ending")
    /\ Same /\ UNCHANGED <<key, slot, objects, leaked, attached>>

\* A thread that ends deletes its value if it is one of Boost's; the keys of
\* POSIX and Win32 have no destructor, and the value is out of reach.
End(c) ==
    /\ At(c, "ending")
    /\ IF system = "Boost"
       THEN /\ objects' = objects \ Deleted(slot[c])
            /\ bad' = (bad \/ Broken(slot[c]))
            /\ UNCHANGED leaked
       ELSE /\ leaked' = leaked \cup Deleted(slot[c])
            /\ UNCHANGED <<objects, bad>>
    /\ slot' = [slot EXCEPT ![c] = NoValue]
    /\ Go(c, "ended")
    /\ Same /\ NoThreads /\ UNCHANGED key

(***************************************************************************)
(* Main.                                                                   *)
(***************************************************************************)
Create ==
    \/ /\ At(Main, "testInterface") /\ CreateKey("interface") /\ Go(Main, "using")
       /\ Same /\ NoThreads /\ UNCHANGED <<objects, leaked, bad>>
    \/ /\ At(Main, "testFunctionality") /\ CreateKey("threads") /\ Go(Main, "starting")
       /\ Same /\ NoThreads /\ UNCHANGED <<objects, leaked, bad>>

StoreOwn ==
    /\ At(Main, "using") /\ Serial(Main) < Stores
    /\ setData(Main, NextValue(Main))
    /\ Same /\ NoThreads /\ UNCHANGED <<key, leaked, place>>

\* testInterface destroys its TLSPtr with or without a value stored in it.
Destroy ==
    \/ /\ At(Main, "using") /\ DestroyKey(Main) /\ Go(Main, "testFunctionality")
       /\ Same /\ NoThreads /\ UNCHANGED leaked
    \/ /\ At(Main, "checking") /\ DestroyKey(Main) /\ Go(Main, "done")
       /\ Same /\ NoThreads /\ UNCHANGED leaked

StartedAll ==
    /\ At(Main, "starting") /\ \A c \in Children : attached[c]
    /\ Go(Main, "joining")
    /\ Same /\ NoThreads /\ NoTLS

JoinedAll ==
    /\ At(Main, "joining") /\ \A c \in Children : ~attached[c]
    /\ Go(Main, "checking")
    /\ Same /\ NoThreads /\ NoTLS

Child(c) == Store(c) \/ Report(c) \/ End(c)

Next ==
    \/ Create \/ StoreOwn \/ Destroy \/ StartedAll \/ JoinedAll
    \/ \E c \in Children : run(c) \/ join(c) \/ Child(c)

(***************************************************************************)
(* What a TLSPtr promises.                                                 *)
(***************************************************************************)
\* Nobody uses or deletes a value that has been deleted, every thread reads
\* back its own, and when the TLSPtr is gone nothing is left of it but what
\* POSIX and Win32 cannot reach any more: the value each thread had when it
\* ended, and no value it had replaced before.
ValuesDisposedOf ==
    /\ ~bad
    /\ At(Main, "checking") => \A c \in Children : results[c] = c
    /\ key = "none" => objects = leaked
    /\ system = "Boost" => leaked = {}
    /\ \A v, w \in leaked : v[1] = w[1] => v = w
=============================================================================
