----------------------------- MODULE FlatMemory -----------------------------
(***************************************************************************)
(* What a guest's memory promises the threads that share it (obligations 7 *)
(* and 10 of Bap/Jit.lean): a total map of words to bytes, 0 where nothing *)
(* was written, in which a load or a store within one word happens all at  *)
(* once, at some moment between its call and its return.                   *)
(***************************************************************************)
CONSTANTS Threads, Addresses, Offsets, Bytes, Nothing, Failed

VARIABLES
    mem,        \* the bytes of each word
    asked,      \* what each thread has called for and was not yet done
    answer      \* what the last load of each thread gave

flatVars == <<mem, asked, answer>>

Word == [Offsets -> Bytes]
Zeros == [o \in Offsets |-> 0]

\* A word with some of its bytes replaced.
With(word, bytes) == [o \in Offsets |-> IF o \in DOMAIN bytes THEN bytes[o] ELSE word[o]]

\* An access of one word: of no bytes for a load, of those that it writes for a store.
Access == [at : Addresses, bytes : UNION {[s -> Bytes] : s \in SUBSET Offsets}]

Init ==
    /\ mem = [a \in Addresses |-> Zeros]
    /\ asked = [t \in Threads |-> Nothing]
    /\ answer = [t \in Threads |-> Nothing]

Ask(t) ==
    /\ asked[t] = Nothing /\ asked'[t] \in Access
    /\ asked' = [asked EXCEPT ![t] = asked'[t]]
    /\ answer' = [answer EXCEPT ![t] = Nothing]
    /\ UNCHANGED mem

Load(t) ==
    /\ asked[t] # Nothing
    /\ DOMAIN asked[t].bytes = {}
    /\ answer' = [answer EXCEPT ![t] = mem[asked[t].at]]
    /\ asked' = [asked EXCEPT ![t] = Nothing]
    /\ UNCHANGED mem

Store(t) ==
    /\ asked[t] # Nothing
    /\ DOMAIN asked[t].bytes # {}
    /\ mem' = [mem EXCEPT ![asked[t].at] = With(@, asked[t].bytes)]
    /\ asked' = [asked EXCEPT ![t] = Nothing]
    /\ UNCHANGED answer

\* What cannot be done, as the host has no memory left, is not done at all, and the thread
\* is told so.
Refuse(t) ==
    /\ asked[t] # Nothing
    /\ answer' = [answer EXCEPT ![t] = Failed]
    /\ asked' = [asked EXCEPT ![t] = Nothing]
    /\ UNCHANGED mem

Next == \E t \in Threads :
    \/ Ask(t)
    \/ Load(t)
    \/ Store(t)
    \/ Refuse(t)

Spec == Init /\ [][Next]_flatVars
=============================================================================
