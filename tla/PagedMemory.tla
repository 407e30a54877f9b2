---------------------------- MODULE PagedMemory ----------------------------
(***************************************************************************)
(* The memory of a guest in the host, native/paged_memory.h: pages found   *)
(* through a table that nothing locks, which threads load from and store   *)
(* to at once, and the list of what was written since a step began.  A     *)
(* thread reads and writes the memory in calls from Lean, "read", "write"  *)
(* and "zero", and in a compiled program, "run", that remembers where it   *)
(* last found a page and says what it wrote when it ends.                  *)
(*                                                                         *)
(* The table has two levels here and four in the code, whose loop does the *)
(* same at each but the last.  An atomic access of the code is one step;   *)
(* each is an acquire or a release of the one place that it is about, and  *)
(* what it is not ordered with (obligation 10) no step here relies on.     *)
(***************************************************************************)
EXTENDS Naturals, Sequences, FiniteSets

CONSTANTS
    Threads,
    Indices,        \* the entries of a node of the table
    Words,          \* the words of a page
    Offsets,        \* the bytes of a word
    Bytes,          \* what a byte may hold, 0 among it
    Nodes,          \* where the host puts a node
    ChunkPages,     \* chunkPages
    MaxChunks,      \* bound: the chunks that the system has to give
    StepLimit,      \* stepLimit
    Calls,          \* the calls that threads make
    MaxCalls,       \* bound: how many they make
    Null,
    Failed          \* the answer of a call that failed

Numbers   == Indices \X Indices
Addresses == Indices \X Indices \X Words
Pages     == (1 .. MaxChunks) \X (0 .. ChunkPages - 1)
Word      == [Offsets -> Bytes]
Zeros     == [o \in Offsets |-> 0]

\* What a call does in one word: it loads if it has no bytes.  A program does an access
\* "fast", by an instruction, if it is aligned, and else "slow", as all others do, where
\* what is in further words of the same access is the "rest" of it.
Stores == UNION {[s -> Bytes] : s \in SUBSET Offsets}
Piece == [at : Addresses, bytes : Stores, way : {"fast", "slow", "rest"}]
AllZero(bytes) == \A o \in DOMAIN bytes : bytes[o] = 0
Loads(piece) == DOMAIN piece.bytes = {}
Call  == [kind : {"read", "write", "zero", "run"}, pieces : Seq(Piece)]

ASSUME SizesAssumption == ChunkPages \in Nat \ {0} /\ MaxChunks \in Nat /\ StepLimit \in Nat /\ MaxCalls \in Nat
ASSUME ZeroAssumption  == 0 \in Bytes
ASSUME NullAssumption  == /\ Null \notin Nodes /\ Null \notin Pages /\ Null \notin Word
                          /\ Null \notin [at : Addresses, bytes : Stores]
\* zeroRange goes by the page, and keeps nothing from one to the next: a call is of one page.
ASSUME CallsAssumption ==
    \A call \in Calls :
        /\ call \in Call
        /\ call.kind = "zero" => \A i, k \in DOMAIN call.pieces :
              /\ call.pieces[i].at[1] = call.pieces[k].at[1]
              /\ call.pieces[i].at[2] = call.pieces[k].at[2]
              /\ ~Loads(call.pieces[i])
              /\ AllZero(call.pieces[i].bytes)
        /\ call.kind # "run" => \A i \in DOMAIN call.pieces : call.pieces[i].way # "fast"

VARIABLES
    root,           \* the first level of the table
    entries,        \* the entries of each node of the second
    chunks,         \* how many chunks there are
    chunkUsed,      \* how many pages of the last one are given out
    unused,         \* pages that lost a race, the last to be given out first
    content,        \* what is in each page
    stepOpen, stepWrites, stepSize, stepOverflowed,
    since,          \* history: the bytes stored since the step began
    left,           \* how many more calls may be made
    pc, kind, todo, \* where each thread is, in what call, and the pieces still to do
    node, made, page, expected,     \* what each has in hand
    known,          \* the page that its run found last, with its number (pageEntries)
    log,            \* what it wrote and has not told the step yet
    answer          \* what its last load gave, or that it failed

table   == <<root, entries>>
pool    == <<chunks, chunkUsed, unused>>
stepped == <<stepOpen, stepWrites, stepSize, stepOverflowed>>
hands   == <<node, made, page, expected>>
vars    == <<table, pool, content, stepped, since, left, pc, kind, todo, hands, known, log, answer>>

Piece1(t) == Head(todo[t])
Number(a) == <<a[1], a[2]>>
BytesOf(piece) == {piece.at} \X DOMAIN piece.bytes
Slowly(piece) == [at |-> piece.at, bytes |-> piece.bytes, way |-> "slow"]
With(word, bytes) == [o \in Offsets |-> IF o \in DOMAIN bytes THEN bytes[o] ELSE word[o]]

\* ensure makes the page that is not there, find does not: what was never written is 0, and
\* neither a load nor zeros need a page to say so, but for those of an instruction.
Ensures(piece) == ~Loads(piece) /\ (piece.way = "fast" \/ ~AllZero(piece.bytes))

\* Nodes that are not in the table and that no one has made.
FreeNodes == {n \in Nodes : /\ \A i \in Indices : root[i] # n
                            /\ \A t \in Threads : ~(pc[t] = "node" /\ made[t] = n)}

Goes(t, place) == pc' = [pc EXCEPT ![t] = place]

Init ==
    /\ root = [i \in Indices |-> Null]
    /\ entries = [n \in Nodes |-> [i \in Indices |-> Null]]
    /\ chunks = 0 /\ chunkUsed = ChunkPages /\ unused = << >>
    /\ content = [p \in Pages |-> [w \in Words |-> Zeros]]
    /\ stepOpen = FALSE /\ stepWrites = {} /\ stepSize = 0 /\ stepOverflowed = FALSE
    /\ since = {} /\ left = MaxCalls
    /\ pc = [t \in Threads |-> "idle"]
    /\ kind = [t \in Threads |-> "read"]
    /\ todo = [t \in Threads |-> << >>]
    /\ node = [t \in Threads |-> Null] /\ made = [t \in Threads |-> Null]
    /\ page = [t \in Threads |-> Null] /\ expected = [t \in Threads |-> Null]
    /\ known = [t \in Threads |-> Null]
    /\ log = [t \in Threads |-> {}]
    /\ answer = [t \in Threads |-> Null]

-----------------------------------------------------------------------------
(* A call, piece by piece. *)

Begin(t, call) ==
    /\ pc[t] = "idle" /\ left > 0
    /\ left' = left - 1
    /\ Goes(t, "next")
    /\ kind' = [kind EXCEPT ![t] = call.kind]
    /\ todo' = [todo EXCEPT ![t] = call.pieces]
    /\ known' = [known EXCEPT ![t] = Null]
    /\ UNCHANGED <<table, pool, content, stepped, since, hands, log, answer>>

\* Mutant: an entry of pageEntries is taken for that of any page that falls on it.
Remembers_AnyTag(t, piece) == piece.way = "fast" /\ known[t] # Null

\* The compiled access finds the page in pageEntries, by the whole number of it.
Remembers(t, piece) ==
    piece.way = "fast" /\ known[t] # Null /\ known[t].number = Number(piece.at)

\* The next piece: with the page in hand in what zeroRange goes on with, and of an access
\* that the run remembers the page of, and else with a look for the page.
GoOn(t) ==
    /\ pc[t] = "next" /\ todo[t] # << >>
    /\ answer' = [answer EXCEPT ![t] = Null]
    /\ \/ /\ kind[t] = "zero" /\ page[t] # Null
          /\ Goes(t, "inspect")
          /\ UNCHANGED page
       \/ /\ kind[t] # "zero" /\ Remembers(t, Piece1(t))
          /\ Goes(t, "word")
          /\ page' = [page EXCEPT ![t] = known[t].page]
       \/ /\ IF kind[t] = "zero" THEN page[t] = Null ELSE ~Remembers(t, Piece1(t))
          /\ Goes(t, "root")
          /\ UNCHANGED page
    /\ UNCHANGED <<table, pool, content, stepped, since, left, kind, todo,
                   node, made, expected, known, log>>

\* Mutant: the bytes of a run that failed are not told.
Throw_Untold(t) ==
    /\ pc[t] = "next" /\ kind[t] = "run" /\ todo[t] # << >> /\ Piece1(t).way # "rest"
    /\ todo' = [todo EXCEPT ![t] = << >>]
    /\ known' = [known EXCEPT ![t] = Null]
    /\ log' = [log EXCEPT ![t] = {}]
    /\ UNCHANGED <<table, pool, content, stepped, since, left, pc, kind, hands, answer>>

\* The observer of an access throws: no access after it takes effect.
Throw(t) ==
    /\ pc[t] = "next" /\ kind[t] = "run" /\ todo[t] # << >> /\ Piece1(t).way # "rest"
    /\ todo' = [todo EXCEPT ![t] = << >>]
    /\ known' = [known EXCEPT ![t] = Null]
    /\ UNCHANGED <<table, pool, content, stepped, since, left, pc, kind, hands, log, answer>>

\* All is done: a run has what it wrote to tell the step, if one is open.
Return(t) ==
    /\ pc[t] = "next" /\ todo[t] = << >>
    /\ \/ /\ log[t] # {} /\ stepOpen
          /\ Goes(t, "note")
          /\ UNCHANGED <<log, page>>
       \/ /\ log[t] = {} \/ ~stepOpen
          /\ Goes(t, "idle")
          /\ log' = [log EXCEPT ![t] = {}]
          /\ page' = [page EXCEPT ![t] = Null]
    /\ UNCHANGED <<table, pool, content, stepped, since, left, kind, todo,
                   node, made, expected, known, answer>>

-----------------------------------------------------------------------------
(* The page of a piece: find and ensure. *)

\* A piece is done that stored its bytes: a call tells the step of them at once, and a run
\* has them in its StoreLog, each byte once.
Stored(t) ==
    /\ todo' = [todo EXCEPT ![t] = Tail(@)]
    /\ log' = [log EXCEPT ![t] = IF kind[t] = "run" THEN @ \cup {{b} : b \in BytesOf(Piece1(t))}
                                 ELSE {BytesOf(Piece1(t))}]
    /\ Goes(t, IF kind[t] = "run" THEN "next" ELSE "note")
    /\ page' = [page EXCEPT ![t] = IF kind[t] = "zero" THEN @ ELSE Null]
    /\ UNCHANGED answer

\* A piece is done that loaded a word.
Loaded(t, word) ==
    /\ todo' = [todo EXCEPT ![t] = Tail(@)]
    /\ answer' = [answer EXCEPT ![t] = word]
    /\ Goes(t, "next")
    /\ page' = [page EXCEPT ![t] = Null]
    /\ UNCHANGED log

\* There is no page and none is made.  A load of an instruction goes the slow way, which
\* looks again, and zeroRange is done with the page.
Absent(t) ==
    \/ /\ kind[t] = "zero"
       /\ todo' = [todo EXCEPT ![t] = << >>]
       /\ Goes(t, "next")
       /\ UNCHANGED <<page, log, answer>>
    \/ /\ kind[t] # "zero" /\ Piece1(t).way = "fast"
       /\ todo' = [todo EXCEPT ![t] = <<Slowly(Piece1(t))>> \o Tail(@)]
       /\ Goes(t, "root")
       /\ UNCHANGED <<page, log, answer>>
    \/ /\ kind[t] # "zero" /\ Piece1(t).way # "fast" /\ Loads(Piece1(t))
       /\ Loaded(t, Zeros)
    \/ /\ kind[t] # "zero" /\ Piece1(t).way # "fast" /\ ~Loads(Piece1(t))
       /\ Stored(t)

\* The page is found, which a run then remembers.
Found(t, p) ==
    /\ page' = [page EXCEPT ![t] = p]
    /\ known' = IF Piece1(t).way = "fast"
                THEN [known EXCEPT ![t] = [number |-> Number(Piece1(t).at), page |-> p]]
                ELSE known
    /\ Goes(t, IF kind[t] = "zero" /\ page[t] = Null THEN "inspect" ELSE "word")

LookRoot(t) ==
    /\ pc[t] = "root"
    /\ LET child == root[Piece1(t).at[1]] IN
       \/ /\ child # Null
          /\ node' = [node EXCEPT ![t] = child]
          /\ Goes(t, "leaf")
          /\ UNCHANGED <<todo, made, page, log, answer>>
       \/ /\ child = Null /\ Ensures(Piece1(t))
          /\ \E n \in FreeNodes : made' = [made EXCEPT ![t] = n]
          /\ Goes(t, "node")
          /\ UNCHANGED <<todo, node, page, log, answer>>
       \/ /\ child = Null /\ ~Ensures(Piece1(t))
          /\ Absent(t)
          /\ UNCHANGED <<node, made>>
    /\ UNCHANGED <<table, pool, content, stepped, since, left, kind, expected, known>>

\* compare_exchange: of two that made a node, the second uses that of the first.
PutNode(t) ==
    /\ pc[t] = "node"
    /\ LET i == Piece1(t).at[1] IN
       /\ root' = IF root[i] = Null THEN [root EXCEPT ![i] = made[t]] ELSE root
       /\ node' = [node EXCEPT ![t] = root'[i]]
    /\ Goes(t, "leaf")
    /\ UNCHANGED <<entries, pool, content, stepped, since, left, kind, todo,
                   made, page, expected, known, log, answer>>

LookLeaf(t) ==
    /\ pc[t] = "leaf"
    /\ LET child == entries[node[t]][Piece1(t).at[2]] IN
       \/ /\ child # Null
          /\ Found(t, child)
          /\ UNCHANGED <<todo, log, answer>>
       \/ /\ child = Null /\ Ensures(Piece1(t))
          /\ Goes(t, "new")
          /\ UNCHANGED <<todo, page, known, log, answer>>
       \/ /\ child = Null /\ ~Ensures(Piece1(t))
          /\ Absent(t)
          /\ UNCHANGED known
    /\ UNCHANGED <<table, pool, content, stepped, since, left, kind, node, made, expected>>

\* Mutant: a chunk is full one page late.
NewPage_OffByOne(t) ==
    /\ pc[t] = "new"
    /\ unused = << >>
    /\ made' = [made EXCEPT ![t] = IF chunkUsed > ChunkPages \/ chunks = 0 THEN <<chunks + 1, 0>>
                                   ELSE <<chunks, chunkUsed>>]
    /\ chunks' = IF chunkUsed > ChunkPages \/ chunks = 0 THEN chunks + 1 ELSE chunks
    /\ chunkUsed' = IF chunkUsed > ChunkPages \/ chunks = 0 THEN 1 ELSE chunkUsed + 1
    /\ Goes(t, "page")
    /\ UNCHANGED <<table, unused, content, stepped, since, left, kind, todo,
                   node, page, expected, known, log, answer>>

\* Mutant: a page that lost a race stays among the unused when it is given out.
NewPage_Kept(t) ==
    /\ pc[t] = "new"
    /\ \/ /\ unused # << >>
          /\ made' = [made EXCEPT ![t] = unused[Len(unused)]]
          /\ UNCHANGED pool
       \/ /\ unused = << >> /\ chunkUsed < ChunkPages
          /\ made' = [made EXCEPT ![t] = <<chunks, chunkUsed>>]
          /\ chunkUsed' = chunkUsed + 1
          /\ UNCHANGED <<chunks, unused>>
       \/ /\ unused = << >> /\ chunkUsed = ChunkPages /\ chunks < MaxChunks
          /\ made' = [made EXCEPT ![t] = <<chunks + 1, 0>>]
          /\ chunks' = chunks + 1 /\ chunkUsed' = 1
          /\ UNCHANGED unused
    /\ Goes(t, "page")
    /\ UNCHANGED <<table, content, stepped, since, left, kind, todo,
                   node, page, expected, known, log, answer>>

\* newPage, under chunkLock: one that lost a race, or the next of the last chunk.
NewPage(t) ==
    /\ pc[t] = "new"
    /\ \/ /\ unused # << >>
          /\ made' = [made EXCEPT ![t] = unused[Len(unused)]]
          /\ unused' = SubSeq(unused, 1, Len(unused) - 1)
          /\ UNCHANGED <<chunks, chunkUsed>>
       \/ /\ unused = << >> /\ chunkUsed < ChunkPages
          /\ made' = [made EXCEPT ![t] = <<chunks, chunkUsed>>]
          /\ chunkUsed' = chunkUsed + 1
          /\ UNCHANGED <<chunks, unused>>
       \/ /\ unused = << >> /\ chunkUsed = ChunkPages /\ chunks < MaxChunks
          /\ made' = [made EXCEPT ![t] = <<chunks + 1, 0>>]
          /\ chunks' = chunks + 1 /\ chunkUsed' = 1
          /\ UNCHANGED unused
    /\ Goes(t, "page")
    /\ UNCHANGED <<table, content, stepped, since, left, kind, todo,
                   node, page, expected, known, log, answer>>

\* The system has no chunk to give: bap_jit_memory_write fails with what it has written.
Refuse(t) ==
    /\ pc[t] = "new" /\ kind[t] = "write"
    /\ unused = << >> /\ chunkUsed = ChunkPages
    /\ todo' = [todo EXCEPT ![t] = << >>]
    /\ answer' = [answer EXCEPT ![t] = Failed]
    /\ Goes(t, "next")
    /\ UNCHANGED <<table, pool, content, stepped, since, left, kind, hands, known, log>>

\* Mutant: the page is put in without a look at whether another has put one in.
PutPage_Blind(t) ==
    /\ pc[t] = "page"
    /\ entries' = [entries EXCEPT ![node[t]][Piece1(t).at[2]] = made[t]]
    /\ Found(t, made[t])
    /\ UNCHANGED <<root, pool, content, stepped, since, left, kind, todo,
                   node, made, expected, log, answer>>

PutPage(t) ==
    /\ pc[t] = "page"
    /\ LET j == Piece1(t).at[2] IN
       \/ /\ entries[node[t]][j] = Null
          /\ entries' = [entries EXCEPT ![node[t]][j] = made[t]]
          /\ Found(t, made[t])
       \/ /\ entries[node[t]][j] # Null
          /\ Goes(t, "lost")
          /\ UNCHANGED <<entries, page, known>>
    /\ UNCHANGED <<root, pool, content, stepped, since, left, kind, todo,
                   node, made, expected, log, answer>>

\* unusedPage, under chunkLock: the page that lost, for the next that needs one.
LosePage(t) ==
    /\ pc[t] = "lost"
    /\ unused' = Append(unused, made[t])
    /\ Found(t, entries[node[t]][Piece1(t).at[2]])
    /\ UNCHANGED <<table, chunks, chunkUsed, content, stepped, since, left, kind, todo,
                   node, made, expected, log, answer>>

-----------------------------------------------------------------------------
(* The word: loadWord, storeInWord, and the accesses of compiled code. *)

Puts(t, word) ==
    /\ content' = [content EXCEPT ![page[t]][Piece1(t).at[3]] = word]
    /\ since' = since \cup BytesOf(Piece1(t))
    /\ Stored(t)

AtWord(t) ==
    /\ pc[t] = "word"
    /\ LET word  == content[page[t]][Piece1(t).at[3]]
           bytes == Piece1(t).bytes
       IN  \/ /\ Loads(Piece1(t))
              /\ Loaded(t, word)
              /\ UNCHANGED <<content, since, expected>>
           \/ /\ ~Loads(Piece1(t))
              /\ Piece1(t).way = "fast" \/ DOMAIN bytes = Offsets
              /\ Puts(t, With(word, bytes))
              /\ UNCHANGED expected
           \/ /\ ~Loads(Piece1(t)) /\ Piece1(t).way # "fast" /\ DOMAIN bytes # Offsets
              /\ expected' = [expected EXCEPT ![t] = word]
              /\ Goes(t, "exchange")
              /\ UNCHANGED <<content, since, todo, page, log, answer>>
    /\ UNCHANGED <<table, pool, stepped, left, kind, node, made, known>>

\* Mutant: the word is stored with the other bytes as they were read.
Exchange_Blind(t) ==
    /\ pc[t] = "exchange"
    /\ Puts(t, With(expected[t], Piece1(t).bytes))
    /\ UNCHANGED <<table, pool, stepped, left, kind, node, made, expected, known>>

\* compare_exchange: again with what is there if it is not what was expected.
Exchange(t) ==
    /\ pc[t] = "exchange"
    /\ LET word == content[page[t]][Piece1(t).at[3]] IN
       \/ /\ word = expected[t]
          /\ Puts(t, With(expected[t], Piece1(t).bytes))
          /\ UNCHANGED expected
       \/ /\ word # expected[t]
          /\ expected' = [expected EXCEPT ![t] = word]
          /\ UNCHANGED <<content, since, pc, todo, page, log, answer>>
    /\ UNCHANGED <<table, pool, stepped, left, kind, node, made, known>>

\* zeroRange looks at the word first, and stores zeros only over what is not.
Inspect(t) ==
    /\ pc[t] = "inspect"
    /\ LET word == content[page[t]][Piece1(t).at[3]] IN
       \/ /\ \A o \in DOMAIN Piece1(t).bytes : word[o] = 0
          /\ todo' = [todo EXCEPT ![t] = Tail(@)]
          /\ Goes(t, "next")
       \/ /\ \E o \in DOMAIN Piece1(t).bytes : word[o] # 0
          /\ Goes(t, "root")
          /\ UNCHANGED todo
    /\ UNCHANGED <<table, pool, content, stepped, since, left, kind, hands, known, log, answer>>

\* trim gives the system back a page that holds zeros, while no one stores there: what is
\* given back reads as zeros.
Trim(number) ==
    /\ root[number[1]] # Null /\ entries[root[number[1]]][number[2]] # Null
    /\ \A t \in Threads : todo[t] # << >> /\ Number(Piece1(t).at) = number => Loads(Piece1(t))
    /\ LET p == entries[root[number[1]]][number[2]] IN
       /\ \A w \in Words : content[p][w] = Zeros
       /\ content' = [content EXCEPT ![p] = [w \in Words |-> Zeros]]
    /\ UNCHANGED <<table, pool, stepped, since, left, pc, kind, todo, hands, known, log, answer>>

-----------------------------------------------------------------------------
(* The step. *)

BeginStep ==
    /\ stepOpen' = TRUE
    /\ stepWrites' = {} /\ stepSize' = 0 /\ stepOverflowed' = FALSE
    /\ since' = {}
    /\ UNCHANGED <<table, pool, content, left, pc, kind, todo, hands, known, log, answer>>

EndStep ==
    /\ stepOpen
    /\ stepOpen' = FALSE
    /\ stepWrites' = {} /\ stepSize' = 0 /\ stepOverflowed' = FALSE
    /\ UNCHANGED <<table, pool, content, since, left, pc, kind, todo, hands, known, log, answer>>

\* An entry of the log is told or need not be, and the next is looked at.
Told(t, entry) ==
    /\ log' = [log EXCEPT ![t] = @ \ {entry}]
    /\ Goes(t, IF log[t] = {entry} THEN "next" ELSE "note")

\* noteStep looks at whether a step is open before it takes the lock.
Note(t) ==
    /\ pc[t] = "note"
    /\ \/ /\ stepOpen
          /\ Goes(t, "mark")
          /\ UNCHANGED log
       \/ /\ ~stepOpen
          /\ \E entry \in log[t] : Told(t, entry)
    /\ UNCHANGED <<table, pool, content, stepped, since, left, kind, todo, hands, known, answer>>

\* noteStep, under stepLock.
Mark(t) ==
    /\ pc[t] = "mark"
    /\ \E entry \in log[t] :
          /\ Told(t, entry)
          /\ \/ /\ stepOverflowed
                /\ UNCHANGED <<stepWrites, stepSize, stepOverflowed>>
             \/ /\ ~stepOverflowed /\ stepSize >= StepLimit
                /\ stepOverflowed' = TRUE
                /\ stepWrites' = {} /\ stepSize' = 0
             \/ /\ ~stepOverflowed /\ stepSize < StepLimit
                /\ stepWrites' = stepWrites \cup entry /\ stepSize' = stepSize + 1
                /\ UNCHANGED stepOverflowed
    /\ UNCHANGED <<table, pool, content, stepOpen, since, left, kind, todo, hands, known, answer>>

-----------------------------------------------------------------------------
ThreadNext(t) ==
    \/ \E call \in Calls : Begin(t, call)
    \/ GoOn(t) \/ Throw(t) \/ Return(t)
    \/ LookRoot(t) \/ PutNode(t) \/ LookLeaf(t) \/ NewPage(t) \/ Refuse(t) \/ PutPage(t) \/ LosePage(t)
    \/ AtWord(t) \/ Exchange(t) \/ Inspect(t)
    \/ Note(t) \/ Mark(t)

Next ==
    \/ \E t \in Threads : ThreadNext(t)
    \/ \E number \in Numbers : Trim(number)
    \/ BeginStep
    \/ EndStep

Spec == Init /\ [][Next]_vars
-----------------------------------------------------------------------------
PageAt(number) == IF root[number[1]] = Null THEN Null ELSE entries[root[number[1]]][number[2]]

\* The pages that have been taken from chunks.
Given == {p \in Pages : p[1] < chunks \/ (p[1] = chunks /\ p[2] < chunkUsed)}

InHand(t) == IF pc[t] \in {"page", "lost"} THEN {made[t]} ELSE {}

Places == {"idle", "next", "root", "node", "leaf", "new", "page", "lost",
           "word", "exchange", "inspect", "note", "mark"}
\* A thread is doing its piece.
Doing == {"root", "node", "leaf", "new", "page", "lost", "word", "exchange", "inspect"}

\* The state is one that the declarations of PagedMemory, BapCells and StoreLog allow, and
\* a chunk is never given out past its end.
TypeOK ==
    /\ root \in [Indices -> Nodes \cup {Null}]
    /\ entries \in [Nodes -> [Indices -> Pages \cup {Null}]]
    /\ chunks \in 0 .. MaxChunks /\ chunkUsed \in 0 .. ChunkPages
    /\ unused \in Seq(Pages)
    /\ content \in [Pages -> [Words -> Word]]
    /\ stepOpen \in BOOLEAN /\ stepOverflowed \in BOOLEAN
    /\ stepWrites \subseteq Addresses \X Offsets
    /\ stepSize \in 0 .. StepLimit
    /\ since \subseteq Addresses \X Offsets
    /\ left \in 0 .. MaxCalls
    /\ pc \in [Threads -> Places]
    /\ kind \in [Threads -> {"read", "write", "zero", "run"}]
    /\ todo \in [Threads -> Seq(Piece)]
    /\ \A t \in Threads : pc[t] \in Doing => todo[t] # << >>
    /\ node \in [Threads -> Nodes \cup {Null}] /\ made \in [Threads -> Nodes \cup Pages \cup {Null}]
    /\ expected \in [Threads -> Word \cup {Null}]
    /\ \A t \in Threads : pc[t] = "node" => made[t] \in Nodes
    /\ \A t \in Threads : pc[t] \in {"leaf", "new", "page", "lost"} => node[t] \in Nodes
    /\ \A t \in Threads : pc[t] \in {"page", "lost"} => made[t] \in Pages
    /\ \A t \in Threads : pc[t] = "exchange" => expected[t] \in Word
    /\ page \in [Threads -> Pages \cup {Null}]
    /\ known \in [Threads -> [number : Numbers, page : Pages] \cup {Null}]
    /\ log \in [Threads -> SUBSET (SUBSET (Addresses \X Offsets))]
    /\ answer \in [Threads -> Word \cup {Null, Failed}]

\* No page is in two places: in two places of the table, given back to be used again and
\* still in the table, or in the hands of two threads that make one (newPage, unusedPage,
\* and the two exchanges of ensure); and one that is not in the table is still all zeros.
PagesApart ==
    /\ \A m, n \in Numbers : PageAt(m) # Null /\ PageAt(m) = PageAt(n) => m = n
    /\ \A k \in DOMAIN unused : \A n \in Numbers : PageAt(n) # unused[k]
    /\ \A k, l \in DOMAIN unused : unused[k] = unused[l] => k = l
    /\ \A t \in Threads : \A p \in InHand(t) :
          /\ \A n \in Numbers : PageAt(n) # p
          /\ \A k \in DOMAIN unused : unused[k] # p
          /\ \A u \in Threads \ {t} : p \notin InHand(u)
    /\ \A p \in Pages : (\A n \in Numbers : PageAt(n) # p) => content[p] = [w \in Words |-> Zeros]

\* A page that a thread has found, or that its run remembers, is the one that is in the
\* table for the address it is about to access (pageEntries and what find and ensure gave).
HandsRight ==
    \A t \in Threads :
        /\ pc[t] \in {"word", "exchange", "inspect"} => page[t] = PageAt(Number(Piece1(t).at))
        /\ known[t] # Null => known[t].page = PageAt(known[t].number)

\* A page, once there, stays until the memory goes (the head of paged_memory.h).
PagesStay == [][\A n \in Numbers : PageAt(n) # Null => PageAt(n)' = PageAt(n)]_vars

\* While a step is open and has not had too many writes, each byte stored since it began is
\* among what memoryStepWrites says, or is one that a thread has still to tell before its call
\* returns, also if its run failed (obligation 13: this is what a step that fails takes back).
StepKnows ==
    stepOpen /\ ~stepOverflowed =>
        since \subseteq stepWrites \cup UNION {UNION log[t] : t \in Threads}

\* What a thread that reads the memory is to see in each word, and what a thread has asked
\* for and was not yet done.
Memory ==
    [a \in Addresses |-> IF PageAt(Number(a)) = Null THEN Zeros ELSE content[PageAt(Number(a))][a[3]]]
Asked ==
    [t \in Threads |-> IF pc[t] \in Doing THEN [at |-> Piece1(t).at, bytes |-> Piece1(t).bytes] ELSE Null]

Flat == INSTANCE FlatMemory WITH Nothing <- Null, mem <- Memory, asked <- Asked

\* Whatever threads do at once, what they see is one map of words, 0 where nothing was
\* written, in which each access of a word is done at once (obligations 7, 10, 12 and 14).
ImplementsFlat == Flat!Spec
=============================================================================
