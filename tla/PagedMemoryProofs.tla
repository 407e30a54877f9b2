------------------------- MODULE PagedMemoryProofs -------------------------
(***************************************************************************)
(* Proofs about the memory of PagedMemory, for any threads, sizes, calls   *)
(* and interleaving.                                                       *)
(***************************************************************************)
EXTENDS PagedMemory, TLAPS

-----------------------------------------------------------------------------
(* What the operators return. *)

\* The head and the tail of what a thread has still to do (the loops over an access).
LEMMA SeqFacts ==
    ASSUME NEW S, NEW s \in Seq(S), s # << >>
    PROVE  /\ Head(s) \in S /\ Head(s) = s[1] /\ 1 \in DOMAIN s
           /\ Tail(s) \in Seq(S)
           /\ \A k \in DOMAIN Tail(s) : k + 1 \in DOMAIN s /\ Tail(s)[k] = s[k + 1]
  OBVIOUS

\* The parts of a piece have their types.
LEMMA PieceFacts ==
    ASSUME NEW piece \in Piece
    PROVE  /\ piece.at \in Addresses /\ piece.way \in {"fast", "slow", "rest"}
           /\ piece.at[1] \in Indices /\ piece.at[2] \in Indices /\ piece.at[3] \in Words
           /\ Number(piece.at) \in Numbers
           /\ Number(piece.at)[1] = piece.at[1] /\ Number(piece.at)[2] = piece.at[2]
           /\ piece.bytes \in Stores
           /\ DOMAIN piece.bytes \subseteq Offsets
           /\ \A o \in DOMAIN piece.bytes : piece.bytes[o] \in Bytes
           /\ BytesOf(piece) \subseteq Addresses \X Offsets
           /\ Slowly(piece) \in Piece
  <1>1. /\ piece.at \in Addresses /\ piece.way \in {"fast", "slow", "rest"} /\ piece.bytes \in Stores
        /\ Slowly(piece) \in Piece
    BY DEF Piece, Slowly
  <1>2. /\ piece.at[1] \in Indices /\ piece.at[2] \in Indices /\ piece.at[3] \in Words
    BY <1>1 DEF Addresses
  <1>3. /\ Number(piece.at) \in Numbers
        /\ Number(piece.at)[1] = piece.at[1] /\ Number(piece.at)[2] = piece.at[2]
    BY <1>2 DEF Number, Numbers
  <1>4. PICK s \in SUBSET Offsets : piece.bytes \in [s -> Bytes]
    BY <1>1 DEF Stores
  <1>5. /\ DOMAIN piece.bytes \subseteq Offsets
        /\ \A o \in DOMAIN piece.bytes : piece.bytes[o] \in Bytes
    BY <1>4
  <1>6. BytesOf(piece) \subseteq Addresses \X Offsets
    BY <1>1, <1>5 DEF BytesOf
  <1> QED BY <1>1, <1>2, <1>3, <1>5, <1>6

LEMMA ZerosFacts == Zeros \in Word /\ \A o \in Offsets : Zeros[o] = 0
  BY ZeroAssumption DEF Zeros, Word

\* storeInWord makes a word of a word.
LEMMA WithType ==
    ASSUME NEW word \in Word, NEW piece \in Piece
    PROVE  With(word, piece.bytes) \in Word
  <1>1. \A o \in Offsets : (IF o \in DOMAIN piece.bytes THEN piece.bytes[o] ELSE word[o]) \in Bytes
    BY PieceFacts DEF Word
  <1> QED BY <1>1 DEF With, Word

-----------------------------------------------------------------------------
(* The inductive invariant. *)

Rooted(n) == \E i \in Indices : root[i] = n
Listed(p) == \E n \in Nodes, j \in Indices : entries[n][j] = p
Makes(t)  == pc[t] \in {"page", "lost"}

\* A node is in one place of the table or still empty, and a thread looks into the one that
\* is in the table for its piece.
TableRight ==
    /\ \A i, j \in Indices : root[i] # Null /\ root[i] = root[j] => i = j
    /\ \A n \in Nodes : ~Rooted(n) => \A j \in Indices : entries[n][j] = Null
    /\ \A t \in Threads : pc[t] = "node" => ~Rooted(made[t])
    /\ \A t, u \in Threads : pc[t] = "node" /\ pc[u] = "node" /\ made[t] = made[u] => t = u
    /\ \A t \in Threads : pc[t] \in {"leaf", "new", "page", "lost"} => node[t] = root[Piece1(t).at[1]]
    /\ \A t \in Threads : pc[t] = "lost" => entries[node[t]][Piece1(t).at[2]] # Null

\* A page that was given out is in one place of the table, unused, or in the hands of one
\* thread, and is zeros until it is in the table.
PoolRight ==
    /\ chunks = 0 => chunkUsed = ChunkPages
    /\ \A m, n \in Nodes, i, j \in Indices : entries[m][i] # Null /\ entries[m][i] = entries[n][j] => m = n /\ i = j
    /\ \A n \in Nodes, j \in Indices : entries[n][j] # Null => entries[n][j] \in Given
    /\ \A k \in DOMAIN unused : unused[k] \in Given /\ ~Listed(unused[k])
    /\ \A k, l \in DOMAIN unused : unused[k] = unused[l] => k = l
    /\ \A t \in Threads : Makes(t) =>
          made[t] \in Given /\ ~Listed(made[t]) /\ \A k \in DOMAIN unused : unused[k] # made[t]
    /\ \A t, u \in Threads : Makes(t) /\ Makes(u) /\ made[t] = made[u] => t = u
    /\ \A p \in Pages : ~Listed(p) => content[p] = [w \in Words |-> Zeros]

\* What a call has still to do is as it was made, and what it has to tell is told at once
\* unless it is a run.
CallRight(t) ==
    /\ kind[t] = "zero" => \A i, k \in DOMAIN todo[t] :
          /\ todo[t][i].at[1] = todo[t][k].at[1] /\ todo[t][i].at[2] = todo[t][k].at[2]
          /\ ~Loads(todo[t][i]) /\ AllZero(todo[t][i].bytes) /\ todo[t][i].way # "fast"
    /\ pc[t] = "idle" => log[t] = {} /\ page[t] = Null
    /\ kind[t] # "run" /\ pc[t] \notin {"note", "mark"} => log[t] = {}

\* A thread has the page of its piece in hand.
HandRight(t) ==
    /\ pc[t] \in {"word", "exchange", "inspect"} => page[t] = PageAt(Number(Piece1(t).at)) /\ page[t] # Null
    /\ known[t] # Null => known[t].page = PageAt(known[t].number)
    /\ kind[t] = "zero" /\ page[t] # Null => \A k \in DOMAIN todo[t] : page[t] = PageAt(Number(todo[t][k].at))

\* zeroRange alone inspects, and an exchange is of a store.
PlaceRight(t) ==
    /\ pc[t] = "inspect" => kind[t] = "zero"
    /\ pc[t] = "exchange" => ~Loads(Piece1(t))

IInv ==
    /\ TypeOK /\ TableRight /\ PoolRight /\ StepKnows
    /\ \A t \in Threads : CallRight(t) /\ HandRight(t) /\ PlaceRight(t)

-----------------------------------------------------------------------------
(* Type correctness. *)

\* The state that memory starts in has its type.
LEMMA InitType == Init => TypeOK
  <1> SUFFICES ASSUME Init PROVE TypeOK
    OBVIOUS
  <1>1. stepOpen \in BOOLEAN /\ stepOverflowed \in BOOLEAN
    BY Zenon DEF Init
  <1>2. chunks \in 0 .. MaxChunks /\ chunkUsed \in 0 .. ChunkPages /\ stepSize \in 0 .. StepLimit /\ left \in 0 .. MaxCalls
    BY SizesAssumption DEF Init
  <1>3. content \in [Pages -> [Words -> Word]]
    BY ZerosFacts DEF Init
  <1>4. pc \in [Threads -> Places] /\ \A t \in Threads : pc[t] = "idle"
    BY DEF Init, Places
  <1>5. /\ stepWrites \subseteq Addresses \X Offsets /\ since \subseteq Addresses \X Offsets
        /\ log \in [Threads -> SUBSET (SUBSET (Addresses \X Offsets))]
    BY DEF Init
  <1>6. /\ root \in [Indices -> Nodes \cup {Null}]
        /\ entries \in [Nodes -> [Indices -> Pages \cup {Null}]]
        /\ unused \in Seq(Pages)
        /\ kind \in [Threads -> {"read", "write", "zero", "run"}]
        /\ todo \in [Threads -> Seq(Piece)]
    BY DEF Init
  <1>7. /\ node \in [Threads -> Nodes \cup {Null}] /\ made \in [Threads -> Nodes \cup Pages \cup {Null}]
        /\ expected \in [Threads -> Word \cup {Null}]
        /\ page \in [Threads -> Pages \cup {Null}]
        /\ known \in [Threads -> [number : Numbers, page : Pages] \cup {Null}]
        /\ answer \in [Threads -> Word \cup {Null, Failed}]
    BY DEF Init
  <1> QED BY <1>1, <1>2, <1>3, <1>4, <1>5, <1>6, <1>7 DEF TypeOK, Doing

\* The piece that a thread is doing, as what it has to do has its type.
LEMMA Piece1Facts ==
    ASSUME TypeOK, NEW t \in Threads, todo[t] # << >>
    PROVE  /\ Piece1(t) \in Piece /\ Piece1(t) = todo[t][1] /\ 1 \in DOMAIN todo[t]
           /\ Tail(todo[t]) \in Seq(Piece)
           /\ \A k \in DOMAIN Tail(todo[t]) : k + 1 \in DOMAIN todo[t] /\ Tail(todo[t])[k] = todo[t][k + 1]
           /\ <<Slowly(Piece1(t))>> \o Tail(todo[t]) \in Seq(Piece)
           /\ <<Slowly(Piece1(t))>> \o Tail(todo[t]) # << >>
  <1>1. todo[t] \in Seq(Piece)
    BY DEF TypeOK
  <1>2. Piece1(t) \in Piece /\ Tail(todo[t]) \in Seq(Piece) /\ Piece1(t) = todo[t][1] /\ 1 \in DOMAIN todo[t]
    BY <1>1, SeqFacts DEF Piece1
  <1>3. \A k \in DOMAIN Tail(todo[t]) : k + 1 \in DOMAIN todo[t] /\ Tail(todo[t])[k] = todo[t][k + 1]
    BY <1>1, SeqFacts
  <1>4. Slowly(Piece1(t)) \in Piece
    BY <1>2, PieceFacts
  <1>5. <<Slowly(Piece1(t))>> \in Seq(Piece) /\ <<Slowly(Piece1(t))>> # << >>
    BY <1>4
  <1> QED BY <1>2, <1>3, <1>5

\* What Told leaves of the log has its type, and the thread goes on or is done with it.
LEMMA ToldFacts ==
    ASSUME TypeOK, NEW t \in Threads, NEW entry \in log[t], Told(t, entry)
    PROVE  /\ log' \in [Threads -> SUBSET (SUBSET (Addresses \X Offsets))]
           /\ \A u \in Threads : u # t => log'[u] = log[u] /\ pc'[u] = pc[u]
           /\ log'[t] = log[t] \ {entry}
           /\ pc'[t] \in {"next", "note"}
           /\ pc'[t] = "next" => log'[t] = {}
           /\ pc' \in [Threads -> Places]
           /\ entry \subseteq Addresses \X Offsets
  <1>1. log[t] \in SUBSET (SUBSET (Addresses \X Offsets))
    BY DEF TypeOK
  <1>2. log[t] \ {entry} \in SUBSET (SUBSET (Addresses \X Offsets)) /\ entry \subseteq Addresses \X Offsets
    BY <1>1
  <1>3. log' = [log EXCEPT ![t] = log[t] \ {entry}] /\ pc' = [pc EXCEPT ![t] = IF log[t] = {entry} THEN "next" ELSE "note"]
    BY DEF Told, Goes
  <1>4. DOMAIN log = Threads /\ DOMAIN pc = Threads
    BY DEF TypeOK
  <1>5. log' \in [Threads -> SUBSET (SUBSET (Addresses \X Offsets))]
    BY <1>2, <1>3 DEF TypeOK
  <1>6. pc' \in [Threads -> Places]
    BY <1>3 DEF TypeOK, Places
  <1> QED BY <1>2, <1>3, <1>4, <1>5, <1>6

\* What the other threads have in hand stays as it is.
OthersSame(t) == \A u \in Threads \ {t} : /\ pc'[u] = pc[u] /\ todo'[u] = todo[u]
                                         /\ page'[u] = page[u] /\ log'[u] = log[u]

\* A piece that is stored or loaded, or whose page is not there, leaves what it changes of its type.
LEMMA StoredFacts ==
    ASSUME TypeOK, NEW t \in Threads, todo[t] # << >>, Stored(t)
    PROVE  /\ todo' \in [Threads -> Seq(Piece)] /\ todo'[t] = Tail(todo[t])
           /\ log' \in [Threads -> SUBSET (SUBSET (Addresses \X Offsets))]
           /\ log'[t] = IF kind[t] = "run" THEN log[t] \cup {{b} : b \in BytesOf(Piece1(t))} ELSE {BytesOf(Piece1(t))}
           /\ pc' \in [Threads -> Places] /\ pc'[t] = (IF kind[t] = "run" THEN "next" ELSE "note")
           /\ page' \in [Threads -> Pages \cup {Null}]
           /\ page'[t] = (IF kind[t] = "zero" THEN page[t] ELSE Null)
           /\ answer' = answer
           /\ OthersSame(t)
  <1>1. Tail(todo[t]) \in Seq(Piece) /\ BytesOf(Piece1(t)) \subseteq Addresses \X Offsets
    BY Piece1Facts, PieceFacts
  <1>2. log[t] \in SUBSET (SUBSET (Addresses \X Offsets))
    BY DEF TypeOK
  <1>3. {{b} : b \in BytesOf(Piece1(t))} \in SUBSET (SUBSET (Addresses \X Offsets))
    BY <1>1
  <1> DEFINE more == IF kind[t] = "run" THEN log[t] \cup {{b} : b \in BytesOf(Piece1(t))} ELSE {BytesOf(Piece1(t))}
  <1>4. more \in SUBSET (SUBSET (Addresses \X Offsets))
    BY <1>1, <1>2, <1>3
  <1>5. /\ todo' = [todo EXCEPT ![t] = Tail(todo[t])]
        /\ log' = [log EXCEPT ![t] = more]
        /\ pc' = [pc EXCEPT ![t] = IF kind[t] = "run" THEN "next" ELSE "note"]
        /\ page' = [page EXCEPT ![t] = IF kind[t] = "zero" THEN page[t] ELSE Null]
        /\ answer' = answer
    BY DEF Stored, Goes
  <1> HIDE DEF more
  <1>6. log' \in [Threads -> SUBSET (SUBSET (Addresses \X Offsets))] /\ log'[t] = more
        /\ \A u \in Threads \ {t} : log'[u] = log[u]
    BY <1>4, <1>5 DEF TypeOK
  <1>7. /\ todo' \in [Threads -> Seq(Piece)] /\ todo'[t] = Tail(todo[t])
        /\ page' \in [Threads -> Pages \cup {Null}]
        /\ page'[t] = (IF kind[t] = "zero" THEN page[t] ELSE Null)
        /\ \A u \in Threads \ {t} : todo'[u] = todo[u] /\ page'[u] = page[u]
    BY <1>1, <1>5 DEF TypeOK
  <1>8. /\ pc' \in [Threads -> Places] /\ pc'[t] = (IF kind[t] = "run" THEN "next" ELSE "note")
        /\ \A u \in Threads \ {t} : pc'[u] = pc[u]
    BY <1>5 DEF TypeOK, Places
  <1> QED BY <1>5, <1>6, <1>7, <1>8 DEF OthersSame, more

LEMMA LoadedFacts ==
    ASSUME TypeOK, NEW t \in Threads, todo[t] # << >>, NEW word \in Word, Loaded(t, word)
    PROVE  /\ todo' \in [Threads -> Seq(Piece)] /\ todo'[t] = Tail(todo[t])
           /\ answer' \in [Threads -> Word \cup {Null, Failed}] /\ answer' = [answer EXCEPT ![t] = word]
           /\ pc' \in [Threads -> Places] /\ pc'[t] = "next"
           /\ page' \in [Threads -> Pages \cup {Null}] /\ page'[t] = Null
           /\ log' = log
           /\ OthersSame(t)
  <1>1. Tail(todo[t]) \in Seq(Piece)
    BY Piece1Facts
  <1> QED BY <1>1 DEF Loaded, TypeOK, Goes, Places, OthersSame

LEMMA AbsentFacts ==
    ASSUME TypeOK, NEW t \in Threads, todo[t] # << >>, Absent(t)
    PROVE  /\ todo' \in [Threads -> Seq(Piece)]
           /\ answer' \in [Threads -> Word \cup {Null, Failed}]
           /\ pc' \in [Threads -> Places] /\ pc'[t] \in {"next", "note", "root"}
           /\ pc'[t] = "root" => todo'[t] # << >>
           /\ page' \in [Threads -> Pages \cup {Null}]
           /\ log' \in [Threads -> SUBSET (SUBSET (Addresses \X Offsets))]
           /\ OthersSame(t)
  <1>1. CASE /\ todo' = [todo EXCEPT ![t] = << >>] /\ Goes(t, "next")
             /\ UNCHANGED <<page, log, answer>>
    BY <1>1 DEF TypeOK, Goes, Places, OthersSame
  <1>2. CASE /\ todo' = [todo EXCEPT ![t] = <<Slowly(Piece1(t))>> \o Tail(@)] /\ Goes(t, "root")
             /\ UNCHANGED <<page, log, answer>>
    <2>1. <<Slowly(Piece1(t))>> \o Tail(todo[t]) \in Seq(Piece) /\ <<Slowly(Piece1(t))>> \o Tail(todo[t]) # << >>
      BY Piece1Facts
    <2>2. /\ todo' \in [Threads -> Seq(Piece)] /\ todo'[t] # << >>
          /\ \A u \in Threads \ {t} : todo'[u] = todo[u]
      BY <1>2, <2>1 DEF TypeOK
    <2> QED BY <1>2, <2>2 DEF TypeOK, Goes, Places, OthersSame
  <1>3. CASE Loaded(t, Zeros)
    BY <1>3, ZerosFacts, LoadedFacts DEF TypeOK
  <1>4. CASE Stored(t)
    BY <1>4, StoredFacts DEF TypeOK
  <1> QED BY <1>1, <1>2, <1>3, <1>4 DEF Absent

\* The page that is found is of its type, and goes to whoever asked for it.
LEMMA FoundFacts ==
    ASSUME TypeOK, NEW t \in Threads, todo[t] # << >>, NEW p \in Pages, Found(t, p)
    PROVE  /\ page' \in [Threads -> Pages \cup {Null}] /\ page' = [page EXCEPT ![t] = p]
           /\ known' \in [Threads -> [number : Numbers, page : Pages] \cup {Null}]
           /\ \A u \in Threads \ {t} : known'[u] = known[u]
           /\ known'[t] = known[t] \/ (known'[t].number = Number(Piece1(t).at) /\ known'[t].page = p)
           /\ pc' \in [Threads -> Places]
           /\ pc' = [pc EXCEPT ![t] = IF kind[t] = "zero" /\ page[t] = Null THEN "inspect" ELSE "word"]
  <1>1. Number(Piece1(t).at) \in Numbers
    BY Piece1Facts, PieceFacts
  <1> DEFINE it == [number |-> Number(Piece1(t).at), page |-> p]
  <1>2. /\ it \in [number : Numbers, page : Pages]
        /\ it.number = Number(Piece1(t).at) /\ it.page = p
    BY <1>1
  <1>3. known' = known \/ known' = [known EXCEPT ![t] = it]
    BY DEF Found
  <1> HIDE DEF it
  <1>a. known \in [Threads -> [number : Numbers, page : Pages] \cup {Null}]
    BY DEF TypeOK
  <1>b. /\ known' \in [Threads -> [number : Numbers, page : Pages] \cup {Null}]
        /\ \A u \in Threads \ {t} : known'[u] = known[u]
        /\ known'[t] = known[t] \/ known'[t] = it
    BY <1>2, <1>3, <1>a
  <1>4. /\ known' \in [Threads -> [number : Numbers, page : Pages] \cup {Null}]
        /\ \A u \in Threads \ {t} : known'[u] = known[u]
        /\ known'[t] = known[t] \/ (known'[t].number = Number(Piece1(t).at) /\ known'[t].page = p)
    BY <1>2, <1>b
  <1>5. /\ page' \in [Threads -> Pages \cup {Null}] /\ page' = [page EXCEPT ![t] = p]
        /\ pc' \in [Threads -> Places]
        /\ pc' = [pc EXCEPT ![t] = IF kind[t] = "zero" /\ page[t] = Null THEN "inspect" ELSE "word"]
    BY DEF Found, Goes, TypeOK, Places
  <1> QED BY <1>4, <1>5

\* Each step of a thread leaves the state of its type.
LEMMA ThreadType ==
    ASSUME IInv, NEW t \in Threads, ThreadNext(t)
    PROVE  TypeOK'
  <1> USE DEF Goes
  <1>0. TypeOK
    BY DEF IInv
  <1>1. ASSUME NEW call \in Calls, Begin(t, call) PROVE TypeOK'
    <2>1. call.kind \in {"read", "write", "zero", "run"} /\ call.pieces \in Seq(Piece)
      BY CallsAssumption DEF Call
    <2> QED BY <1>0, <1>1, <2>1, SizesAssumption DEF Begin, TypeOK, Places, Doing, table, pool, stepped, hands
  <1>2. CASE GoOn(t)
    BY <1>0, <1>2 DEF GoOn, TypeOK, Places, Doing, table, pool, stepped, Remembers
  <1>3. CASE Throw(t)
    BY <1>0, <1>3 DEF Throw, TypeOK, Places, Doing, table, pool, stepped, hands
  <1>4. CASE Return(t)
    BY <1>0, <1>4 DEF Return, TypeOK, Places, Doing, table, pool, stepped
  <1>5. CASE Refuse(t)
    BY <1>0, <1>5 DEF Refuse, TypeOK, Places, Doing, table, pool, stepped, hands
  <1>6. CASE PutNode(t)
    <2>1. Piece1(t).at[1] \in Indices
      BY <1>0, <1>6, Piece1Facts, PieceFacts DEF PutNode, TypeOK, Doing
    <2> QED BY <1>0, <1>6, <2>1 DEF PutNode, TypeOK, Places, Doing, pool, stepped
  <1>7. CASE Note(t)
    <2>1. CASE stepOpen /\ Goes(t, "mark") /\ UNCHANGED log
      BY <1>0, <1>7, <2>1 DEF Note, TypeOK, Places, Doing, table, pool, stepped, hands
    <2>2. ASSUME NEW entry \in log[t], Told(t, entry) PROVE TypeOK'
      <3>1. pc' \in [Threads -> Places] /\ \A u \in Threads : pc'[u] = pc[u] \/ pc'[u] \in {"next", "note"}
        BY <1>0, <2>2, ToldFacts
      <3>2. log' \in [Threads -> SUBSET (SUBSET (Addresses \X Offsets))]
        BY <1>0, <2>2, ToldFacts
      <3> QED BY <1>0, <1>7, <3>1, <3>2 DEF Note, TypeOK, Doing, table, pool, stepped, hands
    <2> QED BY <1>7, <2>1, <2>2 DEF Note
  <1>8. CASE Mark(t)
    <2>1. PICK entry \in log[t] : Told(t, entry) /\ stepWrites' \in {stepWrites, {}, stepWrites \cup entry}
      BY <1>8 DEF Mark
    <2>2. pc' \in [Threads -> Places] /\ \A u \in Threads : pc'[u] = pc[u] \/ pc'[u] \in {"next", "note"}
      BY <1>0, <2>1, ToldFacts
    <2>3. log' \in [Threads -> SUBSET (SUBSET (Addresses \X Offsets))] /\ entry \subseteq Addresses \X Offsets
      BY <1>0, <2>1, ToldFacts
    <2>4. stepWrites' \subseteq Addresses \X Offsets
      BY <1>0, <2>1, <2>3 DEF TypeOK
    <2>5. stepSize' \in 0 .. StepLimit
      BY <1>0, <1>8, SizesAssumption DEF Mark, TypeOK
    <2>6. stepOverflowed' \in BOOLEAN
      BY <1>0, <1>8 DEF Mark, TypeOK
    <2> QED BY <1>0, <1>8, <2>2, <2>3, <2>4, <2>5, <2>6 DEF Mark, TypeOK, Doing, table, pool, hands
  <1>9. CASE Inspect(t)
    <2>1. Tail(todo[t]) \in Seq(Piece) /\ todo[t] # << >>
      BY <1>0, <1>9, Piece1Facts DEF Inspect, TypeOK, Doing
    <2>2. \/ todo' = [todo EXCEPT ![t] = Tail(todo[t])] /\ pc' = [pc EXCEPT ![t] = "next"]
          \/ todo' = todo /\ pc' = [pc EXCEPT ![t] = "root"] /\ pc[t] = "inspect"
      BY <1>9 DEF Inspect
    <2>3. UNCHANGED <<table, pool, content, stepped, since, left, kind, hands, known, log, answer>>
      BY <1>9 DEF Inspect
    <2>4. /\ todo' \in [Threads -> Seq(Piece)] /\ pc' \in [Threads -> Places]
          /\ \A u \in Threads : (pc'[u] = pc[u] /\ todo'[u] = todo[u]) \/ (u = t /\ pc'[u] \in {"next", "root"})
          /\ pc'[t] = "root" => todo'[t] # << >>
      <3>1. todo \in [Threads -> Seq(Piece)] /\ pc \in [Threads -> Places] /\ {"next", "root"} \subseteq Places
        BY <1>0 DEF TypeOK, Places
      <3>2. CASE todo' = [todo EXCEPT ![t] = Tail(todo[t])] /\ pc' = [pc EXCEPT ![t] = "next"]
        BY <2>1, <3>1, <3>2
      <3>3. CASE todo' = todo /\ pc' = [pc EXCEPT ![t] = "root"]
        BY <2>1, <3>1, <3>3
      <3> QED BY <2>2, <3>2, <3>3
    <2> QED BY <1>0, <2>3, <2>4 DEF TypeOK, Doing, table, pool, stepped, hands
  <1>10. CASE LookRoot(t)
    <2>1. /\ todo[t] # << >> /\ Piece1(t).at[1] \in Indices
      BY <1>0, <1>10, Piece1Facts, PieceFacts DEF LookRoot, TypeOK, Doing
    <2>2. UNCHANGED <<table, pool, content, stepped, since, left, kind, expected, known>>
      BY <1>10 DEF LookRoot
    <2>3. CASE /\ root[Piece1(t).at[1]] # Null
               /\ node' = [node EXCEPT ![t] = root[Piece1(t).at[1]]]
               /\ Goes(t, "leaf")
               /\ UNCHANGED <<todo, made, page, log, answer>>
      BY <1>0, <2>1, <2>2, <2>3 DEF TypeOK, Places, Doing, table, pool, stepped
    <2>4. CASE /\ \E n \in FreeNodes : made' = [made EXCEPT ![t] = n]
               /\ Goes(t, "node")
               /\ UNCHANGED <<todo, node, page, log, answer>>
      BY <1>0, <2>1, <2>2, <2>4 DEF TypeOK, Places, Doing, table, pool, stepped, FreeNodes
    <2>5. CASE Absent(t) /\ UNCHANGED <<node, made>>
      BY <1>0, <2>1, <2>2, <2>5, AbsentFacts DEF TypeOK, Doing, table, pool, stepped, OthersSame
    <2> QED BY <1>10, <2>3, <2>4, <2>5 DEF LookRoot
  <1>11. CASE LookLeaf(t)
    <2>1. /\ todo[t] # << >> /\ Piece1(t).at[2] \in Indices /\ node[t] \in Nodes
      BY <1>0, <1>11, Piece1Facts, PieceFacts DEF LookLeaf, TypeOK, Doing
    <2>2. UNCHANGED <<table, pool, content, stepped, since, left, kind, node, made, expected>>
      BY <1>11 DEF LookLeaf
    <2> DEFINE child == entries[node[t]][Piece1(t).at[2]]
    <2>3. CASE child # Null /\ Found(t, child) /\ UNCHANGED <<todo, log, answer>>
      <3>1. child \in Pages
        BY <1>0, <2>1, <2>3 DEF TypeOK
      <3>2. /\ page' \in [Threads -> Pages \cup {Null}] /\ pc' \in [Threads -> Places]
            /\ known' \in [Threads -> [number : Numbers, page : Pages] \cup {Null}]
            /\ \A u \in Threads : pc'[u] = pc[u] \/ (u = t /\ pc'[u] \in {"inspect", "word"})
        BY <1>0, <2>1, <2>3, <3>1, FoundFacts DEF TypeOK
      <3> QED BY <1>0, <2>1, <2>2, <2>3, <3>2 DEF TypeOK, Doing, table, pool, stepped
    <2>4. CASE Goes(t, "new") /\ UNCHANGED <<todo, page, known, log, answer>>
      BY <1>0, <1>11, <2>1, <2>2, <2>4 DEF TypeOK, Places, Doing, table, pool, stepped
    <2>5. CASE Absent(t) /\ UNCHANGED known
      BY <1>0, <2>1, <2>2, <2>5, AbsentFacts DEF TypeOK, Doing, table, pool, stepped, OthersSame
    <2> QED BY <1>11, <2>3, <2>4, <2>5 DEF LookLeaf
  <1>12. CASE NewPage(t)
    <2>1. chunks = 0 => chunkUsed = ChunkPages
      BY DEF IInv, PoolRight
    <2>2. /\ chunks \in 0 .. MaxChunks /\ chunkUsed \in 0 .. ChunkPages
          /\ ChunkPages \in Nat \ {0} /\ MaxChunks \in Nat /\ unused \in Seq(Pages)
      BY <1>0, SizesAssumption DEF TypeOK
    <2>3. PICK p \in Pages : /\ made' = [made EXCEPT ![t] = p]
                            /\ chunks' \in 0 .. MaxChunks /\ chunkUsed' \in 0 .. ChunkPages
                            /\ unused' \in Seq(Pages)
      <3>1. CASE /\ unused # << >>
                 /\ made' = [made EXCEPT ![t] = unused[Len(unused)]]
                 /\ unused' = SubSeq(unused, 1, Len(unused) - 1)
                 /\ UNCHANGED <<chunks, chunkUsed>>
        <4>1. unused[Len(unused)] \in Pages /\ SubSeq(unused, 1, Len(unused) - 1) \in Seq(Pages)
          BY <2>2, <3>1
        <4> QED BY <2>2, <3>1, <4>1
      <3>2. CASE /\ chunkUsed < ChunkPages
                 /\ made' = [made EXCEPT ![t] = <<chunks, chunkUsed>>]
                 /\ chunkUsed' = chunkUsed + 1
                 /\ UNCHANGED <<chunks, unused>>
        <4>1. <<chunks, chunkUsed>> \in Pages
          BY <2>1, <2>2, <3>2 DEF Pages
        <4>2. chunks' \in 0 .. MaxChunks /\ chunkUsed' \in 0 .. ChunkPages /\ unused' \in Seq(Pages)
          BY <2>2, <3>2
        <4> WITNESS <<chunks, chunkUsed>> \in Pages
        <4> QED BY <3>2, <4>2
      <3>3. CASE /\ chunks < MaxChunks
                 /\ made' = [made EXCEPT ![t] = <<chunks + 1, 0>>]
                 /\ chunks' = chunks + 1 /\ chunkUsed' = 1
                 /\ UNCHANGED unused
        <4>1. <<chunks + 1, 0>> \in Pages
          BY <2>2, <3>3 DEF Pages
        <4>2. chunks' \in 0 .. MaxChunks /\ chunkUsed' \in 0 .. ChunkPages /\ unused' \in Seq(Pages)
          BY <2>2, <3>3
        <4> WITNESS <<chunks + 1, 0>> \in Pages
        <4> QED BY <3>3, <4>2
      <3> QED BY <1>12, <3>1, <3>2, <3>3 DEF NewPage
    <2>4. /\ pc[t] = "new" /\ pc' = [pc EXCEPT ![t] = "page"]
          /\ UNCHANGED <<table, content, stepped, since, left, kind, todo, node, page, expected, known, log, answer>>
      BY <1>12 DEF NewPage
    <2> QED BY <1>0, <2>3, <2>4 DEF TypeOK, Places, Doing, table, stepped
  <1>13. CASE PutPage(t)
    <2>1. /\ todo[t] # << >> /\ Piece1(t).at[2] \in Indices /\ node[t] \in Nodes /\ made[t] \in Pages
      BY <1>0, <1>13, Piece1Facts, PieceFacts DEF PutPage, TypeOK, Doing
    <2>2. UNCHANGED <<root, pool, content, stepped, since, left, kind, todo, node, made, expected, log, answer>>
      BY <1>13 DEF PutPage
    <2>3. CASE /\ entries' = [entries EXCEPT ![node[t]][Piece1(t).at[2]] = made[t]]
               /\ Found(t, made[t])
      <3>1. /\ page' \in [Threads -> Pages \cup {Null}] /\ pc' \in [Threads -> Places]
            /\ known' \in [Threads -> [number : Numbers, page : Pages] \cup {Null}]
            /\ \A u \in Threads : pc'[u] = pc[u] \/ (u = t /\ pc'[u] \in {"inspect", "word"})
        BY <1>0, <2>1, <2>3, FoundFacts DEF TypeOK
      <3>2. entries' \in [Nodes -> [Indices -> Pages \cup {Null}]]
        BY <1>0, <2>1, <2>3 DEF TypeOK
      <3> QED BY <1>0, <2>1, <2>2, <3>1, <3>2 DEF TypeOK, Doing, pool, stepped
    <2>4. CASE Goes(t, "lost") /\ UNCHANGED <<entries, page, known>>
      BY <1>0, <1>13, <2>1, <2>2, <2>4 DEF TypeOK, Places, Doing, pool, stepped
    <2> QED BY <1>13, <2>3, <2>4 DEF PutPage
  <1>14. CASE LosePage(t)
    <2>1. /\ todo[t] # << >> /\ Piece1(t).at[2] \in Indices /\ node[t] \in Nodes /\ made[t] \in Pages
      BY <1>0, <1>14, Piece1Facts, PieceFacts DEF LosePage, TypeOK, Doing
    <2>2. UNCHANGED <<table, chunks, chunkUsed, content, stepped, since, left, kind, todo, node, made, expected, log, answer>>
      BY <1>14 DEF LosePage
    <2>3. entries[node[t]][Piece1(t).at[2]] \in Pages
      BY <1>0, <1>14, <2>1 DEF LosePage, TypeOK, IInv, TableRight
    <2>4. /\ page' \in [Threads -> Pages \cup {Null}] /\ pc' \in [Threads -> Places]
          /\ known' \in [Threads -> [number : Numbers, page : Pages] \cup {Null}]
          /\ \A u \in Threads : pc'[u] = pc[u] \/ (u = t /\ pc'[u] \in {"inspect", "word"})
      BY <1>0, <1>14, <2>1, <2>3, FoundFacts DEF LosePage, TypeOK
    <2>5. unused' \in Seq(Pages)
      BY <1>0, <1>14, <2>1 DEF LosePage, TypeOK
    <2> QED BY <1>0, <2>1, <2>2, <2>4, <2>5 DEF TypeOK, Doing, table, stepped
  <1>15. ASSUME pc[t] \in {"word", "exchange"}, NEW word \in Word, Puts(t, word),
                UNCHANGED <<table, pool, stepped, left, kind, node, made, expected, known>>
         PROVE  TypeOK'
    <2>1. /\ todo[t] # << >> /\ Piece1(t) \in Piece /\ Piece1(t).at[3] \in Words
          /\ BytesOf(Piece1(t)) \subseteq Addresses \X Offsets
      BY <1>0, <1>15, Piece1Facts, PieceFacts DEF TypeOK, Doing
    <2>2. /\ content' \in [Pages -> [Words -> Word]] /\ since' \subseteq Addresses \X Offsets
      BY <1>0, <1>15, <2>1 DEF TypeOK, Puts
    <2>3. /\ todo' \in [Threads -> Seq(Piece)]
          /\ log' \in [Threads -> SUBSET (SUBSET (Addresses \X Offsets))]
          /\ pc' \in [Threads -> Places] /\ pc'[t] \in {"next", "note"}
          /\ page' \in [Threads -> Pages \cup {Null}]
          /\ answer' = answer
          /\ OthersSame(t)
      BY <1>0, <1>15, <2>1, StoredFacts DEF Puts
    <2> QED BY <1>0, <1>15, <2>2, <2>3 DEF TypeOK, Doing, table, pool, stepped, OthersSame
  <1>16. ASSUME pc[t] \in {"word", "exchange"}
         PROVE  /\ content[page[t]][Piece1(t).at[3]] \in Word /\ todo[t] # << >> /\ Piece1(t) \in Piece
    <2>1. page[t] \in Pages
      BY <1>0, <1>16, NullAssumption DEF IInv, HandRight, TypeOK
    <2> QED BY <1>0, <1>16, <2>1, Piece1Facts, PieceFacts DEF TypeOK, Doing
  <1>17. CASE AtWord(t)
    <2> DEFINE word == content[page[t]][Piece1(t).at[3]]
    <2>1. pc[t] = "word" /\ UNCHANGED <<table, pool, stepped, left, kind, node, made, known>>
      BY <1>17 DEF AtWord
    <2>2. word \in Word /\ todo[t] # << >> /\ Piece1(t) \in Piece
      BY <1>16, <2>1
    <2> HIDE DEF word
    <2>3. CASE Loaded(t, word) /\ UNCHANGED <<content, since, expected>>
      BY <1>0, <2>1, <2>2, <2>3, LoadedFacts DEF TypeOK, Doing, table, pool, stepped, OthersSame
    <2>4. CASE Puts(t, With(word, Piece1(t).bytes)) /\ UNCHANGED expected
      BY <1>15, <2>1, <2>2, <2>4, WithType
    <2>5. CASE /\ expected' = [expected EXCEPT ![t] = word] /\ Goes(t, "exchange")
               /\ UNCHANGED <<content, since, todo, page, log, answer>>
      BY <1>0, <2>1, <2>2, <2>5 DEF TypeOK, Places, Doing, table, pool, stepped
    <2> QED BY <1>17, <2>3, <2>4, <2>5 DEF AtWord, word
  <1>18. CASE Exchange(t)
    <2> DEFINE word == content[page[t]][Piece1(t).at[3]]
    <2>1. pc[t] = "exchange" /\ UNCHANGED <<table, pool, stepped, left, kind, node, made, known>>
      BY <1>18 DEF Exchange
    <2>2. word \in Word /\ todo[t] # << >> /\ Piece1(t) \in Piece /\ expected[t] \in Word
      BY <1>0, <1>16, <2>1 DEF TypeOK
    <2> HIDE DEF word
    <2>3. CASE Puts(t, With(expected[t], Piece1(t).bytes)) /\ UNCHANGED expected
      BY <1>15, <2>1, <2>2, <2>3, WithType
    <2>4. CASE expected' = [expected EXCEPT ![t] = word] /\ UNCHANGED <<content, since, pc, todo, page, log, answer>>
      BY <1>0, <2>1, <2>2, <2>4 DEF TypeOK, Places, Doing, table, pool, stepped
    <2> QED BY <1>18, <2>3, <2>4 DEF Exchange, word
  <1> QED BY <1>1, <1>2, <1>3, <1>4, <1>5, <1>6, <1>7, <1>8, <1>9, <1>10, <1>11, <1>12, <1>13, <1>14, <1>17, <1>18
          DEF ThreadNext

\* So do trim and the beginning and the end of a step.
LEMMA MemoryType ==
    ASSUME TypeOK, (\E number \in Numbers : Trim(number)) \/ BeginStep \/ EndStep
    PROVE  TypeOK'
  <1>1. ASSUME NEW number \in Numbers, Trim(number) PROVE TypeOK'
    <2>1. [w \in Words |-> Zeros] \in [Words -> Word]
      BY ZerosFacts
    <2> DEFINE zeros == [w \in Words |-> Zeros]
    <2> HIDE DEF zeros
    <2>2. \E p : content' = [content EXCEPT ![p] = zeros]
      BY <1>1 DEF Trim, zeros
    <2>3. content' \in [Pages -> [Words -> Word]]
      BY <2>1, <2>2 DEF TypeOK, zeros
    <2>4. UNCHANGED <<table, pool, stepped, since, left, pc, kind, todo, hands, known, log, answer>>
      BY <1>1 DEF Trim
    <2> QED BY <2>3, <2>4 DEF TypeOK, table, pool, stepped, hands
  <1>2. CASE BeginStep
    <2>1. stepOpen' \in BOOLEAN /\ stepOverflowed' \in BOOLEAN
      BY <1>2, Zenon DEF BeginStep
    <2> QED BY <1>2, <2>1, SizesAssumption DEF BeginStep, TypeOK, table, pool, hands
  <1>3. CASE EndStep
    <2>1. stepOpen' \in BOOLEAN /\ stepOverflowed' \in BOOLEAN
      BY <1>3, Zenon DEF EndStep
    <2> QED BY <1>3, <2>1, SizesAssumption DEF EndStep, TypeOK, table, pool, hands
  <1> QED BY <1>1, <1>2, <1>3
-----------------------------------------------------------------------------
(* A step of a thread leaves what the others have in hand. *)

OthersKeep(t) ==
    /\ OthersSame(t)
    /\ \A u \in Threads \ {t} : /\ node'[u] = node[u] /\ made'[u] = made[u]
                               /\ known'[u] = known[u] /\ kind'[u] = kind[u]

LEMMA ThreadOthers ==
    ASSUME IInv, NEW t \in Threads, ThreadNext(t)
    PROVE  OthersKeep(t)
  <1> USE DEF Goes, OthersKeep
  <1>0. TypeOK
    BY DEF IInv
  <1>a. pc[t] \in Doing => todo[t] # << >>
    BY <1>0 DEF TypeOK
  <1>1. ASSUME NEW call \in Calls, Begin(t, call) PROVE OthersKeep(t)
    BY <1>0, <1>1 DEF Begin, TypeOK, hands, OthersSame
  <1>2. CASE GoOn(t)
    BY <1>0, <1>2 DEF GoOn, TypeOK, OthersSame
  <1>3. CASE Throw(t)
    BY <1>0, <1>3 DEF Throw, TypeOK, hands, OthersSame
  <1>4. CASE Return(t)
    BY <1>0, <1>4 DEF Return, TypeOK, OthersSame
  <1>5. CASE Refuse(t)
    BY <1>0, <1>5 DEF Refuse, TypeOK, hands, OthersSame
  <1>6. CASE PutNode(t)
    BY <1>0, <1>6 DEF PutNode, TypeOK, OthersSame
  <1>7. CASE Note(t)
    <2>1. UNCHANGED <<kind, todo, hands, known>>
      BY <1>7 DEF Note
    <2>2. CASE Goes(t, "mark") /\ UNCHANGED log
      BY <1>0, <2>1, <2>2 DEF TypeOK, hands, OthersSame
    <2>3. CASE \E entry \in log[t] : Told(t, entry)
      BY <1>0, <2>1, <2>3, ToldFacts DEF hands, OthersSame
    <2> QED BY <1>7, <2>2, <2>3 DEF Note
  <1>8. CASE Mark(t)
    <2>1. UNCHANGED <<kind, todo, hands, known>> /\ \E entry \in log[t] : Told(t, entry)
      BY <1>8 DEF Mark
    <2> QED BY <1>0, <2>1, ToldFacts DEF hands, OthersSame
  <1>9. CASE Inspect(t)
    BY <1>0, <1>9 DEF Inspect, TypeOK, hands, OthersSame
  <1>10. CASE LookRoot(t)
    <2>1. todo[t] # << >> /\ UNCHANGED <<kind, known>>
      BY <1>10, <1>a DEF LookRoot, Doing
    <2>2. CASE Absent(t) /\ UNCHANGED <<node, made>>
      BY <1>0, <2>1, <2>2, AbsentFacts
    <2>3. CASE /\ Goes(t, "leaf") \/ Goes(t, "node")
               /\ UNCHANGED <<todo, page, log>>
               /\ \/ UNCHANGED made /\ \E n : node' = [node EXCEPT ![t] = n]
                  \/ UNCHANGED node /\ \E n : made' = [made EXCEPT ![t] = n]
      BY <1>0, <2>1, <2>3 DEF TypeOK, OthersSame
    <2> QED BY <1>10, <2>2, <2>3 DEF LookRoot
  <1>11. CASE LookLeaf(t)
    <2>1. todo[t] # << >> /\ UNCHANGED <<kind, node, made>>
      BY <1>11, <1>a DEF LookLeaf, Doing
    <2>2. CASE Absent(t) /\ UNCHANGED known
      BY <1>0, <2>1, <2>2, AbsentFacts
    <2>3. CASE Goes(t, "new") /\ UNCHANGED <<todo, page, known, log>>
      BY <1>0, <2>1, <2>3 DEF TypeOK, OthersSame
    <2>4. CASE (\E p : Found(t, p)) /\ UNCHANGED <<todo, log>>
      BY <1>0, <2>1, <2>4 DEF Found, TypeOK, OthersSame
    <2> QED BY <1>11, <2>2, <2>3, <2>4 DEF LookLeaf
  <1>12. CASE NewPage(t)
    BY <1>0, <1>12 DEF NewPage, TypeOK, OthersSame
  <1>13. CASE PutPage(t)
    <2>1. UNCHANGED <<kind, todo, node, made, log>>
      BY <1>13 DEF PutPage
    <2>2. CASE Goes(t, "lost") /\ UNCHANGED <<page, known>>
      BY <1>0, <2>1, <2>2 DEF TypeOK, OthersSame
    <2>3. CASE Found(t, made[t])
      BY <1>0, <2>1, <2>3 DEF Found, TypeOK, OthersSame
    <2> QED BY <1>13, <2>2, <2>3 DEF PutPage
  <1>14. CASE LosePage(t)
    BY <1>0, <1>14 DEF LosePage, Found, TypeOK, OthersSame
  <1>15. CASE AtWord(t)
    <2>1. todo[t] # << >> /\ UNCHANGED <<kind, node, made, known>>
      BY <1>15, <1>a DEF AtWord, Doing
    <2>2. CASE Goes(t, "exchange") /\ UNCHANGED <<todo, page, log>>
      BY <1>0, <2>1, <2>2 DEF TypeOK, OthersSame
    <2>3. CASE Stored(t)
      BY <1>0, <2>1, <2>3, StoredFacts
    <2>4. CASE \E word : Loaded(t, word)
      BY <1>0, <2>1, <2>4 DEF Loaded, TypeOK, OthersSame
    <2> QED BY <1>15, <2>2, <2>3, <2>4 DEF AtWord, Puts
  <1>16. CASE Exchange(t)
    <2>1. todo[t] # << >> /\ UNCHANGED <<kind, node, made, known>>
      BY <1>16, <1>a DEF Exchange, Doing
    <2>2. CASE UNCHANGED <<pc, todo, page, log>>
      BY <2>1, <2>2 DEF OthersSame
    <2>3. CASE Stored(t)
      BY <1>0, <2>1, <2>3, StoredFacts
    <2> QED BY <1>16, <2>2, <2>3 DEF Exchange, Puts
  <1> QED BY <1>1, <1>2, <1>3, <1>4, <1>5, <1>6, <1>7, <1>8, <1>9, <1>10, <1>11, <1>12, <1>13, <1>14, <1>15, <1>16
          DEF ThreadNext
-----------------------------------------------------------------------------
(* The table. *)

\* A step of one thread that leaves the table alone keeps TableRight if where that thread
\* comes to is right.
LEMMA TableFrame ==
    ASSUME TypeOK, TableRight, NEW t \in Threads, OthersKeep(t), UNCHANGED table,
           pc'[t] = "node" => /\ ~Rooted(made'[t])
                              /\ \A u \in Threads \ {t} : pc[u] = "node" => made[u] # made'[t],
           pc'[t] \in {"leaf", "new", "page", "lost"} => node'[t] = root[Head(todo'[t]).at[1]],
           pc'[t] = "lost" => entries[node'[t]][Head(todo'[t]).at[2]] # Null
    PROVE  TableRight'
  BY DEF TableRight, Rooted, OthersKeep, OthersSame, table, Piece1

LEMMA ThreadTable ==
    ASSUME IInv, NEW t \in Threads, ThreadNext(t)
    PROVE  TableRight'
  <1>0. TypeOK /\ TableRight /\ OthersKeep(t)
    BY ThreadOthers DEF IInv
  <1>a. pc \in [Threads -> Places] /\ node \in [Threads -> Nodes \cup {Null}]
        /\ made \in [Threads -> Nodes \cup Pages \cup {Null}]
    BY <1>0 DEF TypeOK
  <1>b. pc[t] \in Doing => todo[t] # << >>
    BY <1>0 DEF TypeOK
  <1>1. ASSUME UNCHANGED table, pc'[t] \notin {"node", "leaf", "new", "page", "lost"} PROVE TableRight'
    BY <1>0, <1>1, TableFrame
  <1>2. CASE \E call \in Calls : Begin(t, call)
    BY <1>1, <1>2, <1>a DEF Begin, Goes, table
  <1>3. CASE GoOn(t) \/ Throw(t) \/ Return(t) \/ Refuse(t) \/ Inspect(t)
    BY <1>1, <1>3, <1>a DEF GoOn, Throw, Return, Refuse, Inspect, Goes, table
  <1>4. CASE Note(t) \/ Mark(t)
    <2>1. UNCHANGED table /\ (Goes(t, "mark") \/ \E entry \in log[t] : Told(t, entry))
      BY <1>4 DEF Note, Mark
    <2>2. pc'[t] \in {"mark", "next", "note"}
      BY <1>0, <1>a, <2>1, ToldFacts DEF Goes
    <2> QED BY <1>1, <2>1, <2>2
  <1>5. CASE AtWord(t) \/ Exchange(t)
    <2>1. UNCHANGED table /\ (Goes(t, "exchange") \/ Stored(t) \/ (\E word : Loaded(t, word)) \/ (pc' = pc /\ pc[t] = "exchange"))
      BY <1>5 DEF AtWord, Exchange, Puts
    <2>2. pc'[t] \in {"exchange", "next", "note"}
      BY <1>a, <2>1 DEF Goes, Stored, Loaded
    <2> QED BY <1>1, <2>1, <2>2
  <1>6. CASE LookRoot(t)
    <2>1. todo[t] # << >> /\ UNCHANGED table
      BY <1>6, <1>b DEF LookRoot, Doing
    <2>2. CASE Absent(t)
      BY <1>0, <1>1, <2>1, <2>2, AbsentFacts
    <2>3. CASE /\ node' = [node EXCEPT ![t] = root[Piece1(t).at[1]]]
               /\ Goes(t, "leaf") /\ UNCHANGED todo
      BY <1>0, <1>a, <2>1, <2>3, TableFrame DEF Goes, Piece1
    <2>4. ASSUME NEW n \in FreeNodes, made' = [made EXCEPT ![t] = n], Goes(t, "node")
          PROVE  TableRight'
      <3>1. pc'[t] = "node" /\ made'[t] = n
        BY <1>a, <2>4 DEF Goes
      <3>2. ~Rooted(n) /\ \A u \in Threads : pc[u] = "node" => made[u] # n
        BY <2>4 DEF FreeNodes, Rooted
      <3> QED BY <1>0, <2>1, <3>1, <3>2, TableFrame
    <2> QED BY <1>6, <2>2, <2>3, <2>4 DEF LookRoot
  <1>7. CASE LookLeaf(t)
    <2>1. todo[t] # << >> /\ UNCHANGED <<table, node>>
      BY <1>7, <1>b DEF LookLeaf, Doing
    <2>2. CASE Absent(t)
      BY <1>0, <1>1, <2>1, <2>2, AbsentFacts
    <2>3. CASE \E p : Found(t, p)
      BY <1>1, <1>a, <2>1, <2>3 DEF Found, Goes
    <2>4. CASE Goes(t, "new") /\ UNCHANGED todo
      <3>1. pc'[t] = "new" /\ node'[t] = root[Head(todo'[t]).at[1]]
        BY <1>0, <1>7, <1>a, <2>1, <2>4 DEF LookLeaf, Goes, TableRight, Piece1
      <3> QED BY <1>0, <2>1, <3>1, TableFrame
    <2> QED BY <1>7, <2>2, <2>3, <2>4 DEF LookLeaf
  <1>8. CASE NewPage(t)
    <2>1. pc'[t] = "page" /\ UNCHANGED table /\ node'[t] = root[Head(todo'[t]).at[1]]
      BY <1>0, <1>8, <1>a DEF NewPage, Goes, TableRight, Piece1
    <2> QED BY <1>0, <2>1, TableFrame
  <1>9. CASE LosePage(t)
    BY <1>1, <1>9, <1>a DEF LosePage, Found, Goes
  <1>10. CASE PutNode(t)
    <2> DEFINE i == Piece1(t).at[1]
    <2>1. i \in Indices /\ made[t] \in Nodes /\ pc[t] = "node" /\ root \in [Indices -> Nodes \cup {Null}]
      BY <1>0, <1>10, <1>b, Piece1Facts, PieceFacts DEF PutNode, TypeOK, Doing
    <2>2. /\ pc' = [pc EXCEPT ![t] = "leaf"] /\ entries' = entries /\ todo' = todo /\ made' = made
          /\ root' = (IF root[i] = Null THEN [root EXCEPT ![i] = made[t]] ELSE root)
          /\ node' = [node EXCEPT ![t] = root'[i]]
      BY <1>10 DEF PutNode, Goes
    <2> HIDE DEF i
    <2>3. \A k \in Indices : root[k] # Null => root'[k] = root[k]
      BY <2>1, <2>2
    <2>4. \A k \in Indices : root'[k] = root[k] \/ (k = i /\ root[k] = Null /\ root'[k] = made[t])
      BY <2>1, <2>2
    <2>5. \A k \in Indices : root[k] # made[t]
      BY <1>0, <2>1 DEF TableRight, Rooted
    <2>6. \A k, l \in Indices : root'[k] # Null /\ root'[k] = root'[l] => k = l
      BY <1>0, <2>4, <2>5 DEF TableRight
    <2>7. \A n \in Nodes : ~Rooted(n)' => \A j \in Indices : entries'[n][j] = Null
      <3>1. \A n \in Nodes : Rooted(n) => Rooted(n)'
        BY <2>3, NullAssumption DEF Rooted
      <3> QED BY <1>0, <2>2, <3>1 DEF TableRight
    <2>8. \A u \in Threads : pc'[u] = "node" => ~Rooted(made[u])' /\ pc[u] = "node" /\ u # t
      <3>1. \A u \in Threads : pc'[u] = "node" => pc[u] = "node" /\ u # t
        BY <1>a, <2>2
      <3>2. \A u \in Threads : pc[u] = "node" /\ u # t => made[u] # made[t] /\ ~Rooted(made[u])
        BY <1>0, <2>1 DEF TableRight
      <3> QED BY <2>2, <2>4, <3>1, <3>2 DEF Rooted
    <2>9. \A u \in Threads : pc'[u] \in {"leaf", "new", "page", "lost"} => node'[u] = root'[Piece1(u).at[1]]
      <3>1. node'[t] = root'[Piece1(t).at[1]]
        BY <1>a, <2>2 DEF i
      <3>2. ASSUME NEW u \in Threads, u # t, pc'[u] \in {"leaf", "new", "page", "lost"}
            PROVE  node'[u] = root'[Piece1(u).at[1]]
        <4>1. /\ pc[u] \in {"leaf", "new", "page", "lost"} /\ node'[u] = node[u]
              /\ node[u] = root[Piece1(u).at[1]] /\ node[u] \in Nodes
          BY <1>0, <1>a, <2>2, <3>2 DEF TableRight, TypeOK
        <4>2. Piece1(u).at[1] \in Indices
          <5>1. todo[u] # << >>
            BY <1>0, <4>1 DEF TypeOK, Doing
          <5> QED BY <1>0, <5>1, Piece1Facts, PieceFacts
        <4> QED BY <2>3, <4>1, <4>2, NullAssumption
      <3> QED BY <3>1, <3>2
    <2>10. \A u \in Threads : pc'[u] = "lost" => entries'[node'[u]][Piece1(u).at[2]] # Null
      BY <1>0, <1>a, <2>2 DEF TableRight
    <2>11. \A u \in Threads : Piece1(u)' = Piece1(u)
      BY <2>2 DEF Piece1
    <2>12. \A u, v \in Threads : pc'[u] = "node" /\ pc'[v] = "node" /\ made[u] = made[v] => u = v
      BY <1>0, <2>8 DEF TableRight
    <2> QED BY <2>2, <2>6, <2>7, <2>8, <2>9, <2>10, <2>11, <2>12 DEF TableRight
  <1>11. CASE PutPage(t)
    <2> DEFINE j == Piece1(t).at[2]
    <2>1. j \in Indices /\ node[t] \in Nodes /\ made[t] \in Pages /\ pc[t] = "page"
          /\ node[t] = root[Piece1(t).at[1]] /\ Piece1(t).at[1] \in Indices
      BY <1>0, <1>11, <1>b, Piece1Facts, PieceFacts DEF PutPage, TypeOK, Doing, TableRight
    <2>2. UNCHANGED <<root, todo, node, made>>
      BY <1>11 DEF PutPage
    <2>3. CASE entries[node[t]][j] # Null /\ Goes(t, "lost") /\ UNCHANGED entries
      <3>1. pc'[t] = "lost" /\ UNCHANGED table
        BY <1>a, <2>2, <2>3 DEF Goes, table
      <3> QED BY <1>0, <2>1, <2>2, <2>3, <3>1, TableFrame DEF Piece1
    <2>4. CASE /\ entries' = [entries EXCEPT ![node[t]][j] = made[t]]
               /\ Found(t, made[t])
      <3>1. /\ pc'[t] \in {"inspect", "word"}
            /\ \A u \in Threads \ {t} : pc'[u] = pc[u]
        BY <1>a, <2>4 DEF Found, Goes
      <3> HIDE DEF j
      <3>2. \A n \in Nodes, k \in Indices : entries'[n][k] = entries[n][k] \/ (n = node[t] /\ k = j /\ entries'[n][k] = made[t])
        BY <1>0, <2>1, <2>4 DEF TypeOK
      <3>3. Rooted(node[t])
        BY <2>1 DEF Rooted
      <3>4. \A n \in Nodes : ~Rooted(n)' => \A k \in Indices : entries'[n][k] = Null
        BY <1>0, <2>2, <3>2, <3>3 DEF TableRight, Rooted
      <3>5. \A u \in Threads : pc'[u] = "lost" => entries'[node[u]][Piece1(u).at[2]] # Null
        <4> SUFFICES ASSUME NEW u \in Threads, pc'[u] = "lost" PROVE entries'[node[u]][Piece1(u).at[2]] # Null
          OBVIOUS
        <4>1. pc[u] = "lost" /\ entries[node[u]][Piece1(u).at[2]] # Null /\ node[u] \in Nodes /\ todo[u] # << >>
          BY <1>0, <3>1 DEF TableRight, TypeOK, Doing
        <4>2. Piece1(u).at[2] \in Indices
          BY <1>0, <4>1, Piece1Facts, PieceFacts
        <4> QED BY <2>1, <3>2, <4>1, <4>2, NullAssumption
      <3>6. \A u \in Threads : Piece1(u)' = Piece1(u)
        BY <2>2 DEF Piece1
      <3> QED BY <1>0, <2>2, <3>1, <3>4, <3>5, <3>6 DEF TableRight, Rooted
    <2> QED BY <1>11, <2>3, <2>4 DEF PutPage
  <1> QED BY <1>2, <1>3, <1>4, <1>5, <1>6, <1>7, <1>8, <1>9, <1>10, <1>11 DEF ThreadNext
-----------------------------------------------------------------------------
(* The pages. *)

\* Where find looks: the entry of the node that the root has.
LEMMA PageAtFacts ==
    ASSUME TypeOK, NEW n \in Numbers
    PROVE  /\ n[1] \in Indices /\ n[2] \in Indices
           /\ PageAt(n) \in Pages \cup {Null}
           /\ PageAt(n) # Null => /\ root[n[1]] \in Nodes /\ PageAt(n) = entries[root[n[1]]][n[2]]
                                  /\ Listed(PageAt(n))
  <1>1. n[1] \in Indices /\ n[2] \in Indices
    BY DEF Numbers
  <1>2. root[n[1]] \in Nodes \cup {Null}
    BY <1>1 DEF TypeOK
  <1>3. root[n[1]] \in Nodes => entries[root[n[1]]][n[2]] \in Pages \cup {Null}
    BY <1>1 DEF TypeOK
  <1> QED BY <1>1, <1>2, <1>3 DEF PageAt, Listed

\* The number of a page is what it is about.
LEMMA NumberFacts ==
    ASSUME TypeOK, NEW t \in Threads, todo[t] # << >>
    PROVE  /\ Number(Piece1(t).at) \in Numbers
           /\ Number(Piece1(t).at)[1] = Piece1(t).at[1] /\ Number(Piece1(t).at)[2] = Piece1(t).at[2]
           /\ Piece1(t).at[1] \in Indices /\ Piece1(t).at[2] \in Indices /\ Piece1(t).at[3] \in Words
           /\ Piece1(t).at \in Addresses
  BY Piece1Facts, PieceFacts

\* The page that a thread has in hand is in the table.
LEMMA HandListed ==
    ASSUME IInv, NEW t \in Threads, pc[t] \in {"word", "exchange", "inspect"}
    PROVE  /\ page[t] \in Pages /\ Listed(page[t]) /\ page[t] = PageAt(Number(Piece1(t).at))
           /\ todo[t] # << >>
  <1>1. TypeOK /\ todo[t] # << >>
    BY DEF IInv, TypeOK, Doing
  <1>2. page[t] = PageAt(Number(Piece1(t).at)) /\ page[t] # Null
    BY DEF IInv, HandRight
  <1> QED BY <1>1, <1>2, NumberFacts, PageAtFacts

\* A step of one thread that leaves the pages alone keeps PoolRight.
LEMMA PoolFrame ==
    ASSUME TypeOK, PoolRight, NEW t \in Threads, OthersKeep(t), UNCHANGED <<entries, pool>>,
           \A p \in Pages : ~Listed(p) => content'[p] = content[p],
           Makes(t)' => Makes(t) /\ made'[t] = made[t]
    PROVE  PoolRight'
  <1>1. \A u \in Threads : Makes(u)' => Makes(u) /\ made'[u] = made[u]
    BY DEF OthersKeep, OthersSame, Makes
  <1>2. /\ Given' = Given /\ \A p : Listed(p)' <=> Listed(p)
        /\ unused' = unused /\ chunks' = chunks /\ chunkUsed' = chunkUsed /\ entries' = entries
    BY DEF Given, Listed, pool
  <1> QED BY <1>1, <1>2 DEF PoolRight

\* What newPage gives is a page that no one has.
LEMMA NewPagePool ==
    ASSUME IInv, NEW t \in Threads, NewPage(t)
    PROVE  PoolRight'
  <1>0. TypeOK /\ PoolRight
    BY DEF IInv
  <1>1. /\ chunks \in Nat /\ chunks <= MaxChunks /\ chunkUsed \in Nat /\ chunkUsed <= ChunkPages
        /\ unused \in Seq(Pages) /\ made \in [Threads -> Nodes \cup Pages \cup {Null}]
        /\ pc \in [Threads -> Places]
    BY <1>0, SizesAssumption DEF TypeOK
  <1>2. UNCHANGED <<entries, content>> /\ pc' = [pc EXCEPT ![t] = "page"]
    BY DEF NewPage, table, Goes
  <1>3. PICK p : made' = [made EXCEPT ![t] = p]
    BY DEF NewPage
  <1>4. made'[t] = p /\ \A u \in Threads \ {t} : made'[u] = made[u] /\ pc'[u] = pc[u]
    BY <1>1, <1>2, <1>3
  <1> DEFINE Right ==
        /\ chunks' = 0 => chunkUsed' = ChunkPages
        /\ Given \subseteq Given'
        /\ p \in Given' /\ ~Listed(p)
        /\ \A k \in DOMAIN unused' : k \in DOMAIN unused /\ unused'[k] = unused[k] /\ unused'[k] # p
        /\ \A u \in Threads : Makes(u) => made[u] # p
  <1>5. ASSUME unused # << >>, p = unused[Len(unused)], unused' = SubSeq(unused, 1, Len(unused) - 1),
               UNCHANGED <<chunks, chunkUsed>>
        PROVE  Right
    <2>1. Len(unused) \in DOMAIN unused /\ \A k \in DOMAIN unused' : k \in DOMAIN unused /\ unused'[k] = unused[k] /\ k # Len(unused)
      BY <1>1, <1>5
    <2>2. Given' = Given
      BY <1>5 DEF Given
    <2>3. p \in Given /\ ~Listed(p) /\ \A u \in Threads : Makes(u) => made[u] # p
      BY <1>0, <1>5, <2>1 DEF PoolRight
    <2>4. \A k \in DOMAIN unused' : unused'[k] # p
      BY <1>0, <1>5, <2>1 DEF PoolRight
    <2>5. chunks' = 0 => chunkUsed' = ChunkPages
      BY <1>0, <1>5 DEF PoolRight
    <2> QED BY <2>1, <2>2, <2>3, <2>4, <2>5
  <1>6. ASSUME p \in Pages, p \notin Given, p \in Given', Given \subseteq Given', unused = << >>, unused' = unused,
               chunks' # 0
        PROVE  Right
    <2>1. ~Listed(p) /\ \A u \in Threads : Makes(u) => made[u] # p
      BY <1>0, <1>6, NullAssumption DEF PoolRight, Listed
    <2> QED BY <1>6, <2>1
  <1>7. ASSUME unused = << >>, chunkUsed < ChunkPages, p = <<chunks, chunkUsed>>,
               chunkUsed' = chunkUsed + 1, UNCHANGED <<chunks, unused>>
        PROVE  Right
    <2>1. chunks # 0
      BY <1>0, <1>1, <1>7, SizesAssumption DEF PoolRight
    <2>2. p \in Pages /\ p[1] = chunks /\ p[2] = chunkUsed
      BY <1>1, <1>7, <2>1, SizesAssumption DEF Pages
    <2>3. p \notin Given /\ p \in Given'
      BY <1>1, <1>7, <2>2 DEF Given
    <2>4. Given \subseteq Given'
      <3> SUFFICES ASSUME NEW q \in Given PROVE q \in Given'
        OBVIOUS
      <3>1. q \in Pages /\ q[2] \in Nat /\ (q[1] < chunks \/ (q[1] = chunks /\ q[2] < chunkUsed))
        BY SizesAssumption DEF Given, Pages
      <3> QED BY <1>1, <1>7, <3>1 DEF Given
    <2> QED BY <1>6, <1>7, <2>1, <2>2, <2>3, <2>4
  <1>8. ASSUME unused = << >>, chunkUsed = ChunkPages, chunks < MaxChunks, p = <<chunks + 1, 0>>,
               chunks' = chunks + 1, chunkUsed' = 1, UNCHANGED unused
        PROVE  Right
    <2>1. p \in Pages /\ p[1] = chunks + 1 /\ p[2] = 0
      BY <1>1, <1>8, SizesAssumption DEF Pages
    <2>2. p \notin Given /\ p \in Given' /\ chunks' # 0
      BY <1>1, <1>8, <2>1 DEF Given
    <2>3. Given \subseteq Given'
      <3> SUFFICES ASSUME NEW q \in Given PROVE q \in Given'
        OBVIOUS
      <3>1. q \in Pages /\ q[1] \in Nat /\ (q[1] < chunks \/ q[1] = chunks)
        BY SizesAssumption DEF Given, Pages
      <3> QED BY <1>1, <1>8, <3>1 DEF Given
    <2> QED BY <1>6, <1>8, <2>1, <2>2, <2>3
  <1>9. Right
    <2>1. \A q : made' = [made EXCEPT ![t] = q] => q = p
      BY <1>1, <1>3
    <2> HIDE DEF Right
    <2> QED BY <1>5, <1>7, <1>8, <2>1 DEF NewPage
  <1> QED
    <2>1. entries' = entries /\ content' = content
      BY <1>2
    <2>2. \A u \in Threads : Makes(u)' => u = t \/ (Makes(u) /\ made'[u] = made[u])
      BY <1>4 DEF Makes
    <2>3. \A u \in Threads : Makes(u)' =>
             made'[u] \in Given' /\ ~Listed(made[u])' /\ \A k \in DOMAIN unused' : unused'[k] # made'[u]
      BY <1>0, <1>4, <1>9, <2>1, <2>2 DEF PoolRight, Listed
    <2>4. \A u, v \in Threads : Makes(u)' /\ Makes(v)' /\ made'[u] = made'[v] => u = v
      BY <1>0, <1>4, <1>9, <2>2 DEF PoolRight
    <2>5. \A k \in DOMAIN unused' : unused'[k] \in Given' /\ ~Listed(unused[k])'
      BY <1>0, <1>9, <2>1 DEF PoolRight, Listed
    <2>6. \A k, l \in DOMAIN unused' : unused'[k] = unused'[l] => k = l
      BY <1>0, <1>9 DEF PoolRight
    <2>7. \A n \in Nodes, j \in Indices : entries[n][j] # Null => entries[n][j] \in Given'
      BY <1>0, <1>9 DEF PoolRight
    <2>8. \A q : Listed(q)' <=> Listed(q)
      BY <2>1 DEF Listed
    <2>9. \A q \in Pages : ~Listed(q) => content[q] = [w \in Words |-> Zeros]
      BY <1>0 DEF PoolRight
    <2>10. \A m, n \in Nodes, i, j \in Indices : entries[m][i] # Null /\ entries[m][i] = entries[n][j] => m = n /\ i = j
      BY <1>0 DEF PoolRight
    <2> QED BY <1>9, <2>1, <2>3, <2>4, <2>5, <2>6, <2>7, <2>8, <2>9, <2>10 DEF PoolRight

\* The page that ensure puts in the table was in no other place.
LEMMA PutPagePool ==
    ASSUME IInv, NEW t \in Threads, PutPage(t)
    PROVE  PoolRight'
  <1>0. TypeOK /\ PoolRight /\ OthersKeep(t)
    BY ThreadOthers DEF IInv, ThreadNext
  <1> DEFINE j == Piece1(t).at[2]
  <1>1. j \in Indices /\ node[t] \in Nodes /\ made[t] \in Pages /\ pc[t] = "page" /\ pc \in [Threads -> Places]
    BY <1>0, NumberFacts DEF PutPage, TypeOK, Doing
  <1>2. UNCHANGED <<pool, content, made>>
    BY DEF PutPage
  <1>3. CASE Goes(t, "lost") /\ UNCHANGED entries
    BY <1>0, <1>1, <1>2, <1>3, PoolFrame DEF Makes
  <1>4. CASE /\ entries[node[t]][j] = Null
             /\ entries' = [entries EXCEPT ![node[t]][j] = made[t]]
             /\ Found(t, made[t])
    <2>1. ~Makes(t)' /\ \A u \in Threads : Makes(u)' => u # t /\ Makes(u)
      BY <1>0, <1>1, <1>4 DEF Found, Goes, Makes, OthersKeep, OthersSame
    <2>2. /\ made[t] \in Given /\ ~Listed(made[t]) /\ made[t] # Null
          /\ \A k \in DOMAIN unused : unused[k] # made[t]
          /\ \A u \in Threads : Makes(u)' => made[u] # made[t]
      BY <1>0, <1>1, <2>1, NullAssumption DEF PoolRight, Makes
    <2> HIDE DEF j
    <2>3. \A n \in Nodes, k \in Indices : entries'[n][k] = IF n = node[t] /\ k = j THEN made[t] ELSE entries[n][k]
      BY <1>0, <1>1, <1>4 DEF TypeOK
    <2>4. \A p : p # Null => (Listed(p)' <=> Listed(p) \/ p = made[t])
      BY <1>1, <1>4, <2>3 DEF Listed
    <2>5. Given' = Given /\ unused' = unused /\ chunks' = chunks /\ chunkUsed' = chunkUsed /\ content' = content
      BY <1>2 DEF Given, pool
    <2>6. \A m, n \in Nodes, i, k \in Indices : entries'[m][i] # Null /\ entries'[m][i] = entries'[n][k] => m = n /\ i = k
      BY <1>0, <2>2, <2>3 DEF PoolRight, Listed
    <2>7. \A n \in Nodes, k \in Indices : entries'[n][k] # Null => entries'[n][k] \in Given
      BY <1>0, <2>2, <2>3 DEF PoolRight
    <2>8. \A k \in DOMAIN unused : unused[k] \in Pages /\ unused[k] # Null
      BY <1>0, NullAssumption DEF PoolRight, Given
    <2>9. \A k \in DOMAIN unused : unused[k] \in Given /\ ~Listed(unused[k])'
      <3>1. \A k \in DOMAIN unused : ~(\E n \in Nodes, l \in Indices : entries'[n][l] = unused[k])
        BY <1>0, <2>2, <2>3, <2>8 DEF PoolRight, Listed
      <3> QED BY <1>0, <2>5, <3>1 DEF Listed, PoolRight
    <2>10. \A u \in Threads : Makes(u)' =>
              made[u] \in Given /\ ~Listed(made[u])' /\ \A k \in DOMAIN unused : unused[k] # made[u]
      <3>1. \A u \in Threads : Makes(u)' => made[u] \in Given /\ ~Listed(made[u]) /\ \A k \in DOMAIN unused : unused[k] # made[u]
        BY <1>0, <2>1 DEF PoolRight
      <3>2. \A u \in Threads : Makes(u)' => ~(\E n \in Nodes, l \in Indices : entries'[n][l] = made[u])
        BY <2>2, <2>3, <3>1 DEF Listed
      <3> QED BY <1>2, <3>1, <3>2 DEF Listed
    <2>11. \A u, v \in Threads : Makes(u)' /\ Makes(v)' /\ made[u] = made[v] => u = v
      BY <1>0, <2>1 DEF PoolRight
    <2>12. \A p \in Pages : ~Listed(p)' => content[p] = [w \in Words |-> Zeros]
      BY <1>0, <2>4, NullAssumption DEF PoolRight
    <2>13. /\ chunks = 0 => chunkUsed = ChunkPages
           /\ \A k, l \in DOMAIN unused : unused[k] = unused[l] => k = l
      BY <1>0 DEF PoolRight
    <2> QED BY <1>2, <2>5, <2>6, <2>7, <2>9, <2>10, <2>11, <2>12, <2>13 DEF PoolRight
  <1> QED BY <1>3, <1>4 DEF PutPage

\* The page that lost goes from the hands of the thread to the unused.
LEMMA LosePagePool ==
    ASSUME IInv, NEW t \in Threads, LosePage(t)
    PROVE  PoolRight'
  <1>0. TypeOK /\ PoolRight /\ OthersKeep(t)
    BY ThreadOthers DEF IInv, ThreadNext
  <1>1. made[t] \in Pages /\ pc[t] = "lost" /\ pc \in [Threads -> Places] /\ unused \in Seq(Pages)
    BY <1>0 DEF LosePage, TypeOK
  <1>2. UNCHANGED <<table, chunks, chunkUsed, content, made>> /\ unused' = Append(unused, made[t])
    BY DEF LosePage
  <1>3. ~Makes(t)' /\ \A u \in Threads : Makes(u)' => u # t /\ Makes(u)
    BY <1>0, <1>1 DEF LosePage, Found, Goes, Makes, OthersKeep, OthersSame
  <1>4. /\ made[t] \in Given /\ ~Listed(made[t])
        /\ \A k \in DOMAIN unused : unused[k] # made[t]
        /\ \A u \in Threads : Makes(u)' => made[u] # made[t]
    BY <1>0, <1>1, <1>3 DEF PoolRight, Makes
  <1>5. /\ DOMAIN unused' = DOMAIN unused \cup {Len(unused) + 1} /\ unused'[Len(unused) + 1] = made[t]
        /\ Len(unused) + 1 \notin DOMAIN unused
        /\ \A k \in DOMAIN unused : unused'[k] = unused[k]
    BY <1>1, <1>2
  <1>6. Given' = Given /\ entries' = entries /\ \A p : Listed(p)' <=> Listed(p)
    BY <1>2 DEF Given, table, Listed
  <1>7. \A k \in DOMAIN unused' : unused'[k] \in Given /\ ~Listed(unused[k])'
    BY <1>0, <1>4, <1>5, <1>6 DEF PoolRight, Listed
  <1>8. \A k, l \in DOMAIN unused' : unused'[k] = unused'[l] => k = l
    BY <1>0, <1>4, <1>5 DEF PoolRight
  <1>9. \A u \in Threads : Makes(u)' =>
           made[u] \in Given /\ ~Listed(made[u])' /\ \A k \in DOMAIN unused' : unused'[k] # made[u]
    BY <1>0, <1>2, <1>3, <1>4, <1>5, <1>6 DEF PoolRight, Listed
  <1>10. \A u, v \in Threads : Makes(u)' /\ Makes(v)' /\ made[u] = made[v] => u = v
    BY <1>0, <1>3 DEF PoolRight
  <1> QED BY <1>0, <1>2, <1>6, <1>7, <1>8, <1>9, <1>10 DEF PoolRight

LEMMA ThreadPool ==
    ASSUME IInv, NEW t \in Threads, ThreadNext(t)
    PROVE  PoolRight'
  <1>0. TypeOK /\ PoolRight /\ OthersKeep(t)
    BY ThreadOthers DEF IInv
  <1>a. pc \in [Threads -> Places] /\ (pc[t] \in Doing => todo[t] # << >>)
    BY <1>0 DEF TypeOK
  <1>1. ASSUME UNCHANGED <<entries, pool, content>>, ~Makes(t)' PROVE PoolRight'
    BY <1>0, <1>1, PoolFrame
  <1>2. CASE \E call \in Calls : Begin(t, call)
    BY <1>1, <1>2, <1>a DEF Begin, Goes, table, Makes
  <1>3. CASE GoOn(t) \/ Throw(t) \/ Return(t) \/ Refuse(t) \/ Inspect(t) \/ PutNode(t)
    BY <1>1, <1>3, <1>a DEF GoOn, Throw, Return, Refuse, Inspect, PutNode, Goes, table, Makes
  <1>4. CASE Note(t) \/ Mark(t)
    <2>1. UNCHANGED <<table, pool, content>> /\ (Goes(t, "mark") \/ \E entry \in log[t] : Told(t, entry))
      BY <1>4 DEF Note, Mark
    <2>2. pc'[t] \in {"mark", "next", "note"}
      BY <1>0, <1>a, <2>1, ToldFacts DEF Goes
    <2> QED BY <1>1, <2>1, <2>2 DEF table, Makes
  <1>5. CASE LookRoot(t) \/ LookLeaf(t)
    <2>1. UNCHANGED <<table, pool, content>> /\ todo[t] # << >>
      BY <1>5, <1>a DEF LookRoot, LookLeaf, Doing
    <2>2. CASE Absent(t)
      BY <1>0, <1>1, <2>1, <2>2, AbsentFacts DEF table, Makes
    <2>3. CASE Goes(t, "leaf") \/ Goes(t, "node") \/ Goes(t, "new") \/ \E p : Found(t, p)
      BY <1>1, <1>a, <2>1, <2>3 DEF Goes, Found, table, Makes
    <2> QED BY <1>5, <2>2, <2>3 DEF LookRoot, LookLeaf
  <1>6. CASE NewPage(t)
    BY <1>6, NewPagePool
  <1>7. CASE PutPage(t)
    BY <1>7, PutPagePool
  <1>8. CASE LosePage(t)
    BY <1>8, LosePagePool
  <1>9. CASE AtWord(t) \/ Exchange(t)
    <2>1. UNCHANGED <<table, pool>> /\ pc[t] \in {"word", "exchange"}
      BY <1>9 DEF AtWord, Exchange
    <2>2. page[t] \in Pages /\ Listed(page[t])
      BY <2>1, HandListed
    <2>3. ~Makes(t)'
      <3>1. Goes(t, "exchange") \/ Stored(t) \/ (\E word : Loaded(t, word)) \/ pc' = pc
        BY <1>9 DEF AtWord, Exchange, Puts
      <3> QED BY <1>a, <2>1, <3>1 DEF Goes, Stored, Loaded, Makes
    <2>4. \A p \in Pages : ~Listed(p) => content'[p] = content[p]
      <3>1. CASE UNCHANGED content
        BY <3>1
      <3>2. ASSUME NEW word, content' = [content EXCEPT ![page[t]][Piece1(t).at[3]] = word]
            PROVE  \A p \in Pages : ~Listed(p) => content'[p] = content[p]
        BY <1>0, <2>2, <3>2 DEF TypeOK
      <3> QED BY <1>9, <3>1, <3>2 DEF AtWord, Exchange, Puts
    <2> QED BY <1>0, <2>1, <2>3, <2>4, PoolFrame DEF table
  <1> QED BY <1>2, <1>3, <1>4, <1>5, <1>6, <1>7, <1>8, <1>9 DEF ThreadNext
-----------------------------------------------------------------------------
(* What is in the table stays, and what threads have in hand is what is there. *)

\* Where a step changes what find gives, it is the page of the piece of a thread in ensure,
\* which was not there.  The exchange of a node changes nothing, as the node is empty.
LEMMA TableStep ==
    ASSUME IInv, NEW t \in Threads, ThreadNext(t)
    PROVE  \/ \A n \in Numbers : PageAt(n)' = PageAt(n)
           \/ /\ PutPage(t) /\ Found(t, made[t]) /\ made[t] \in Pages /\ ~Listed(made[t])
              /\ todo[t] # << >>
              /\ PageAt(Number(Piece1(t).at)) = Null
              /\ \A n \in Numbers : PageAt(n)' = IF n = Number(Piece1(t).at) THEN made[t] ELSE PageAt(n)
  <1>0. TypeOK /\ TableRight /\ PoolRight
    BY DEF IInv
  <1>1. CASE UNCHANGED table
    BY <1>1 DEF table, PageAt
  <1>2. CASE PutNode(t)
    <2> DEFINE i == Piece1(t).at[1]
    <2>1. i \in Indices /\ made[t] \in Nodes /\ root \in [Indices -> Nodes \cup {Null}]
      BY <1>0, <1>2, NumberFacts DEF PutNode, TypeOK, Doing
    <2>2. entries' = entries /\ root' = (IF root[i] = Null THEN [root EXCEPT ![i] = made[t]] ELSE root)
      BY <1>2 DEF PutNode
    <2>3. \A j \in Indices : entries[made[t]][j] = Null
      BY <1>0, <1>2, <2>1 DEF TableRight, PutNode
    <2> HIDE DEF i
    <2>4. \A k \in Indices : root'[k] = root[k] \/ (root[k] = Null /\ root'[k] = made[t])
      BY <2>1, <2>2
    <2>5. \A n \in Numbers : n[1] \in Indices /\ n[2] \in Indices
      BY DEF Numbers
    <2>6. \A n \in Numbers : PageAt(n)' = PageAt(n)
      BY <2>2, <2>3, <2>4, <2>5 DEF PageAt
    <2> QED BY <2>6
  <1>3. CASE PutPage(t) /\ entries' # entries
    <2> DEFINE i == Piece1(t).at[1]
               j == Piece1(t).at[2]
               number == Number(Piece1(t).at)
    <2>1. /\ number \in Numbers /\ number[1] = i /\ number[2] = j /\ i \in Indices /\ j \in Indices
          /\ node[t] \in Nodes /\ made[t] \in Pages /\ node[t] = root[i] /\ todo[t] # << >>
      BY <1>0, <1>3, NumberFacts DEF PutPage, TypeOK, Doing, TableRight
    <2>2. /\ entries[node[t]][j] = Null /\ root' = root
          /\ entries' = [entries EXCEPT ![node[t]][j] = made[t]]
          /\ Found(t, made[t])
      BY <1>3 DEF PutPage
    <2>3. ~Listed(made[t])
      BY <1>0, <1>3 DEF PutPage, PoolRight, Makes
    <2>4. PageAt(number) = Null
      BY <2>1, <2>2 DEF PageAt
    <2> HIDE DEF i, j
    <2>5. \A n \in Numbers : n[1] \in Indices /\ n[2] \in Indices /\ (n = number <=> n[1] = i /\ n[2] = j)
      <3> HIDE DEF number
      <3> QED BY <2>1 DEF Numbers
    <2> HIDE DEF number
    <2>6. \A m \in Nodes, k \in Indices : entries'[m][k] = IF m = node[t] /\ k = j THEN made[t] ELSE entries[m][k]
      BY <1>0, <2>1, <2>2 DEF TypeOK
    <2>7. ASSUME NEW n \in Numbers
          PROVE  PageAt(n)' = IF n = number THEN made[t] ELSE PageAt(n)
      <3>1. n[1] \in Indices /\ n[2] \in Indices /\ (n = number <=> n[1] = i /\ n[2] = j)
        BY <2>5
      <3>2. root[n[1]] = Null => n # number
        BY <2>1, <3>1, NullAssumption
      <3>3. root[n[1]] # Null => root[n[1]] \in Nodes
        BY <1>0, <3>1 DEF TypeOK
      <3>4. root[n[1]] = node[t] => n[1] = i
        BY <1>0, <2>1, <3>1, NullAssumption DEF TableRight
      <3> QED BY <2>1, <2>2, <2>6, <3>1, <3>2, <3>3, <3>4 DEF PageAt
    <2> QED BY <1>3, <2>1, <2>2, <2>3, <2>4, <2>7 DEF number
  <1>4. CASE PutPage(t) /\ entries' = entries
    BY <1>1, <1>4 DEF PutPage, table
  <1>5. UNCHANGED table \/ PutNode(t) \/ PutPage(t)
    BY DEF ThreadNext, Begin, GoOn, Throw, Return, LookRoot, LookLeaf, NewPage, Refuse, LosePage,
           AtWord, Exchange, Inspect, Note, Mark
  <1> QED BY <1>1, <1>2, <1>3, <1>4, <1>5

\* So a page that is there stays there.
LEMMA ThreadStays ==
    ASSUME IInv, NEW t \in Threads, ThreadNext(t)
    PROVE  \A n \in Numbers : PageAt(n) # Null => PageAt(n)' = PageAt(n)
  BY TableStep

\* What a thread has in hand stays right when it goes on with it, or lets it go.
LEMMA HandFrame ==
    ASSUME IInv, NEW t \in Threads, kind'[t] = kind[t],
           \A n \in Numbers : PageAt(n) # Null => PageAt(n)' = PageAt(n),
           page'[t] = page[t] \/ page'[t] = Null,
           known'[t] = known[t] \/ known'[t] = Null,
           kind[t] = "zero" => \A k \in DOMAIN todo'[t] : \E l \in DOMAIN todo[t] : todo'[t][k] = todo[t][l],
           pc'[t] \in {"word", "exchange", "inspect"} =>
              /\ pc[t] \in {"word", "exchange", "inspect"} /\ todo'[t] = todo[t] /\ page'[t] = page[t]
    PROVE  HandRight(t)'
  <1>0. TypeOK /\ HandRight(t)
    BY DEF IInv
  <1>1. pc'[t] \in {"word", "exchange", "inspect"} => page'[t] = PageAt(Number(Piece1(t).at))' /\ page'[t] # Null
    <2> SUFFICES ASSUME pc'[t] \in {"word", "exchange", "inspect"}
                 PROVE  page'[t] = PageAt(Number(Piece1(t).at))' /\ page'[t] # Null
      OBVIOUS
    <2>1. /\ pc[t] \in {"word", "exchange", "inspect"} /\ page'[t] = page[t] /\ Piece1(t)' = Piece1(t)
      BY DEF Piece1
    <2>2. page[t] = PageAt(Number(Piece1(t).at)) /\ page[t] # Null /\ Number(Piece1(t).at) \in Numbers
      BY <1>0, <2>1, NumberFacts, HandListed DEF HandRight
    <2>3. PageAt(Number(Piece1(t).at))' = PageAt(Number(Piece1(t).at))
      <3> DEFINE number == Number(Piece1(t).at)
      <3>1. number' = number
        BY <2>1 DEF Number
      <3>2. PageAt(number) # Null /\ number \in Numbers
        BY <2>2
      <3> HIDE DEF number
      <3>3. PageAt(number)' = PageAt(number)
        BY <3>1, <3>2 DEF PageAt
      <3> QED BY <3>3 DEF number
    <2> QED BY <2>1, <2>2, <2>3
  <1>2. known'[t] # Null => known'[t].page = PageAt(known[t].number)'
    <2> SUFFICES ASSUME known'[t] # Null PROVE known'[t].page = PageAt(known[t].number)'
      OBVIOUS
    <2>1. known'[t] = known[t] /\ known[t] \in [number : Numbers, page : Pages]
      BY <1>0 DEF TypeOK
    <2>2. known[t].page = PageAt(known[t].number) /\ known[t].page \in Pages /\ known[t].number \in Numbers
      BY <1>0, <2>1 DEF HandRight
    <2>3. PageAt(known[t].number) # Null
      BY <2>2, NullAssumption
    <2> QED BY <2>1, <2>2, <2>3 DEF PageAt
  <1>3. kind'[t] = "zero" /\ page'[t] # Null =>
           \A k \in DOMAIN todo'[t] : page'[t] = PageAt(Number(todo[t][k].at))'
    <2> SUFFICES ASSUME kind[t] = "zero", page'[t] # Null, NEW k \in DOMAIN todo'[t]
                 PROVE  page'[t] = PageAt(Number(todo[t][k].at))'
      OBVIOUS
    <2>1. PICK l \in DOMAIN todo[t] : todo'[t][k] = todo[t][l]
      OBVIOUS
    <2>2. todo[t][l] \in Piece
      BY <1>0 DEF TypeOK
    <2> DEFINE number == Number(todo[t][l].at)
    <2>3. page[t] = PageAt(number) /\ page'[t] = page[t] /\ number \in Numbers
      BY <1>0, <2>2, PieceFacts DEF HandRight
    <2>4. Number(todo'[t][k].at) = number
      BY <2>1
    <2> HIDE DEF number
    <2> QED BY <2>3, <2>4 DEF PageAt
  <1> QED BY <1>1, <1>2, <1>3 DEF HandRight

\* The page that was found is that of the piece, and in zeroRange of all the pieces.
LEMMA HandFound ==
    ASSUME IInv, NEW t \in Threads, todo[t] # << >>, NEW p \in Pages, Found(t, p), UNCHANGED <<todo, kind>>,
           \A n \in Numbers : PageAt(n) # Null => PageAt(n)' = PageAt(n),
           \A n \in Numbers : n = Number(Piece1(t).at) => PageAt(n)' = p
    PROVE  HandRight(t)'
  <1>0. TypeOK /\ HandRight(t) /\ CallRight(t) /\ p # Null
    BY NullAssumption DEF IInv
  <1> DEFINE number == Number(Piece1(t).at)
  <1>1. number \in Numbers /\ Piece1(t) = todo[t][1] /\ 1 \in DOMAIN todo[t]
    BY <1>0, NumberFacts, Piece1Facts
  <1>2. page'[t] = p /\ (known'[t] = known[t] \/ (known'[t].number = number /\ known'[t].page = p))
    BY <1>0, FoundFacts DEF TypeOK
  <1>3. Number(Piece1(t)'.at) = number
    BY DEF Piece1
  <1>4. page'[t] = PageAt(Number(Piece1(t).at))' /\ page'[t] # Null
    <2> HIDE DEF number
    <2> QED BY <1>0, <1>1, <1>2, <1>3 DEF PageAt, number
  <1>5. known'[t] # Null => known'[t].page = PageAt(known[t].number)'
    <2>1. CASE known'[t] = known[t] /\ known[t] # Null
      <3>1. known[t] \in [number : Numbers, page : Pages]
        BY <1>0, <2>1 DEF TypeOK
      <3>2. known[t].page = PageAt(known[t].number) /\ known[t].page \in Pages /\ known[t].number \in Numbers
        BY <1>0, <2>1, <3>1 DEF HandRight
      <3>3. PageAt(known[t].number) # Null
        BY <3>2, NullAssumption
      <3> QED BY <2>1, <3>2, <3>3 DEF PageAt
    <2>2. CASE known'[t].number = number /\ known'[t].page = p
      <3> HIDE DEF number
      <3> QED BY <1>1, <2>2 DEF PageAt, number
    <2> QED BY <1>2, <2>1, <2>2
  <1>6. kind'[t] = "zero" => \A k \in DOMAIN todo'[t] : page'[t] = PageAt(Number(todo[t][k].at))'
    <2> SUFFICES ASSUME kind[t] = "zero", NEW k \in DOMAIN todo[t]
                 PROVE  page'[t] = PageAt(Number(todo[t][k].at))'
      OBVIOUS
    <2>1. Number(todo[t][k].at) = number
      BY <1>0, <1>1 DEF CallRight, Number
    <2>2. Number(todo'[t][k].at) = number
      BY <2>1
    <2> HIDE DEF number
    <2> QED BY <1>1, <1>2, <2>2 DEF PageAt, number
  <1> QED BY <1>4, <1>5, <1>6 DEF HandRight

\* A step of one thread leaves what the others have in hand right.
LEMMA HandOther ==
    ASSUME IInv, NEW t \in Threads, NEW u \in Threads, u # t, OthersKeep(t),
           \A n \in Numbers : PageAt(n) # Null => PageAt(n)' = PageAt(n)
    PROVE  HandRight(u)'
  <1>1. /\ pc'[u] = pc[u] /\ todo'[u] = todo[u] /\ page'[u] = page[u]
        /\ known'[u] = known[u] /\ kind'[u] = kind[u]
    BY DEF OthersKeep, OthersSame
  <1> QED BY <1>1, HandFrame

LEMMA ThreadHand ==
    ASSUME IInv, NEW t \in Threads, ThreadNext(t)
    PROVE  \A u \in Threads : HandRight(u)'
  <1>0. /\ TypeOK /\ TableRight /\ CallRight(t) /\ HandRight(t) /\ OthersKeep(t)
        /\ \A n \in Numbers : PageAt(n) # Null => PageAt(n)' = PageAt(n)
    BY ThreadOthers, ThreadStays DEF IInv
  <1> SUFFICES HandRight(t)'
    BY <1>0, HandOther
  <1>a. /\ pc \in [Threads -> Places] /\ (pc[t] \in Doing => todo[t] # << >>)
        /\ kind \in [Threads -> {"read", "write", "zero", "run"}]
        /\ todo \in [Threads -> Seq(Piece)] /\ page \in [Threads -> Pages \cup {Null}]
        /\ known \in [Threads -> [number : Numbers, page : Pages] \cup {Null}]
    BY <1>0 DEF TypeOK
  <1>b. ASSUME kind'[t] = kind[t], page'[t] = page[t] \/ page'[t] = Null,
               known'[t] = known[t] \/ known'[t] = Null,
               kind[t] # "zero" \/ todo'[t] = todo[t] \/ todo'[t] = << >> \/ (todo[t] # << >> /\ todo'[t] = Tail(todo[t])),
               pc'[t] \notin {"word", "exchange", "inspect"}
        PROVE  HandRight(t)'
    <2>1. kind[t] = "zero" => \A k \in DOMAIN todo'[t] : \E l \in DOMAIN todo[t] : todo'[t][k] = todo[t][l]
      <3>1. CASE todo'[t] = << >>
        BY <3>1
      <3>2. CASE todo[t] # << >> /\ todo'[t] = Tail(todo[t])
        BY <1>0, <3>2, Piece1Facts
      <3> QED BY <1>b, <3>1, <3>2
    <2> QED BY <1>0, <1>b, <2>1, HandFrame
  <1>1. ASSUME NEW call \in Calls, Begin(t, call) PROVE HandRight(t)'
    <2>1. pc'[t] = "next" /\ known'[t] = Null /\ page'[t] = Null
      BY <1>0, <1>1, <1>a DEF Begin, Goes, hands, CallRight
    <2> QED BY <2>1 DEF HandRight
  <1>2. CASE GoOn(t)
    <2>1. UNCHANGED <<table, kind, todo, known>> /\ todo[t] # << >>
      BY <1>2 DEF GoOn
    <2>2. CASE Goes(t, "root") /\ UNCHANGED page
      BY <1>a, <1>b, <2>1, <2>2 DEF Goes
    <2>3. CASE kind[t] = "zero" /\ page[t] # Null /\ Goes(t, "inspect") /\ UNCHANGED page
      <3>1. page[t] = PageAt(Number(Piece1(t).at))
        BY <1>0, <2>1, <2>3, Piece1Facts DEF HandRight
      <3> QED BY <1>0, <2>1, <2>3, <3>1 DEF HandRight, PageAt, table, Piece1
    <2>4. CASE kind[t] # "zero" /\ Remembers(t, Piece1(t)) /\ Goes(t, "word") /\ page' = [page EXCEPT ![t] = known[t].page]
      <3>1. page'[t] = known[t].page /\ known[t].number = Number(Piece1(t).at) /\ known[t] \in [number : Numbers, page : Pages]
        BY <1>a, <2>4 DEF Remembers
      <3>a. known[t].page \in Pages /\ known[t] # Null
        BY <2>4, <3>1 DEF Remembers
      <3>b. known[t].page = PageAt(known[t].number)
        BY <1>0, <3>a DEF HandRight
      <3>2. page'[t] = PageAt(Number(Piece1(t).at)) /\ page'[t] # Null
        BY <3>1, <3>a, <3>b, NullAssumption
      <3> QED BY <1>0, <2>1, <2>4, <3>2 DEF HandRight, PageAt, table, Piece1
    <2> QED BY <1>2, <2>2, <2>3, <2>4 DEF GoOn
  <1>3. CASE Throw(t) \/ Return(t) \/ Refuse(t) \/ Inspect(t) \/ PutNode(t) \/ NewPage(t)
    <2>1. /\ kind' = kind
          /\ page'[t] = page[t] \/ page'[t] = Null
          /\ known'[t] = known[t] \/ known'[t] = Null
      BY <1>3, <1>a DEF Throw, Return, Refuse, Inspect, PutNode, NewPage, hands
    <2>2. pc'[t] \notin {"word", "exchange", "inspect"}
      BY <1>3, <1>a DEF Throw, Return, Refuse, Inspect, PutNode, NewPage, Goes
    <2>3. todo'[t] = todo[t] \/ todo'[t] = << >> \/ (todo[t] # << >> /\ todo'[t] = Tail(todo[t]))
      BY <1>3, <1>a DEF Throw, Return, Refuse, Inspect, PutNode, NewPage, Doing
    <2> QED BY <1>b, <2>1, <2>2, <2>3
  <1>4. CASE Note(t) \/ Mark(t)
    <2>1. UNCHANGED <<kind, todo, hands, known>> /\ (Goes(t, "mark") \/ \E entry \in log[t] : Told(t, entry))
      BY <1>4 DEF Note, Mark
    <2>2. pc'[t] \in {"mark", "next", "note"}
      BY <1>0, <1>a, <2>1, ToldFacts DEF Goes
    <2> QED BY <1>b, <2>1, <2>2 DEF hands
  <1>5. CASE Absent(t) /\ UNCHANGED <<kind, known>> /\ todo[t] # << >>
    <2>1. pc'[t] \notin {"word", "exchange", "inspect"}
      BY <1>0, <1>5, AbsentFacts
    <2>2. /\ page'[t] = page[t] \/ page'[t] = Null
          /\ kind[t] # "zero" \/ todo'[t] = << >>
      BY <1>5, <1>a DEF Absent, Loaded, Stored
    <2> QED BY <1>5, <1>b, <2>1, <2>2
  <1>6. CASE LookRoot(t)
    <2>1. UNCHANGED <<kind, known>> /\ todo[t] # << >>
      BY <1>6, <1>a DEF LookRoot, Doing
    <2>2. CASE (Goes(t, "leaf") \/ Goes(t, "node")) /\ UNCHANGED <<todo, page>>
      BY <1>a, <1>b, <2>1, <2>2 DEF Goes
    <2> QED BY <1>5, <1>6, <2>1, <2>2 DEF LookRoot
  <1>7. ASSUME pc[t] \in {"leaf", "page", "lost"}, NEW p, p # Null, p = entries'[node[t]][Piece1(t).at[2]],
               Found(t, p), UNCHANGED <<root, todo, kind>>, TypeOK'
        PROVE  HandRight(t)'
    <2>1. todo[t] # << >> /\ node[t] = root[Piece1(t).at[1]] /\ node[t] \in Nodes
      BY <1>0, <1>7, <1>a DEF Doing, TableRight, TypeOK
    <2> DEFINE number == Number(Piece1(t).at)
    <2>2. number \in Numbers /\ number[1] = Piece1(t).at[1] /\ number[2] = Piece1(t).at[2] /\ Piece1(t).at[2] \in Indices
      BY <1>0, <2>1, NumberFacts
    <2>3. p \in Pages
      BY <1>7, <2>1, <2>2 DEF TypeOK
    <2>4. \A n \in Numbers : n = number => PageAt(n)' = p
      <3> HIDE DEF number
      <3> QED BY <1>7, <2>1, <2>2, NullAssumption DEF PageAt
    <2> QED BY <1>0, <1>7, <2>1, <2>3, <2>4, HandFound
  <1>8. TypeOK'
    BY <1>0, ThreadType
  <1>9. CASE LookLeaf(t)
    <2>1. UNCHANGED <<table, kind>> /\ todo[t] # << >> /\ pc[t] = "leaf"
      BY <1>9, <1>a DEF LookLeaf, Doing
    <2>2. CASE Goes(t, "new") /\ UNCHANGED <<todo, page, known>>
      BY <1>a, <1>b, <2>1, <2>2 DEF Goes
    <2>3. CASE Absent(t) /\ UNCHANGED known
      BY <1>5, <2>1, <2>3
    <2>4. CASE entries[node[t]][Piece1(t).at[2]] # Null /\ Found(t, entries[node[t]][Piece1(t).at[2]]) /\ UNCHANGED todo
      BY <1>7, <1>8, <2>1, <2>4 DEF table
    <2> QED BY <1>9, <2>2, <2>3, <2>4 DEF LookLeaf
  <1>10. CASE PutPage(t)
    <2>1. UNCHANGED <<root, kind, todo>> /\ pc[t] = "page"
      BY <1>10 DEF PutPage
    <2>2. CASE Goes(t, "lost") /\ UNCHANGED <<page, known>>
      BY <1>a, <1>b, <2>1, <2>2 DEF Goes
    <2>3. CASE entries' = [entries EXCEPT ![node[t]][Piece1(t).at[2]] = made[t]] /\ Found(t, made[t])
      <3>1. node[t] \in Nodes /\ made[t] \in Pages /\ Piece1(t).at[2] \in Indices
        BY <1>0, <2>1, NumberFacts DEF TypeOK, Doing
      <3>2. made[t] # Null /\ made[t] = entries'[node[t]][Piece1(t).at[2]]
        BY <1>0, <2>3, <3>1, NullAssumption DEF TypeOK
      <3> QED BY <1>7, <1>8, <2>1, <2>3, <3>2
    <2> QED BY <1>10, <2>2, <2>3 DEF PutPage
  <1>11. CASE LosePage(t)
    <2>1. UNCHANGED <<table, kind, todo>> /\ pc[t] = "lost" /\ Found(t, entries[node[t]][Piece1(t).at[2]])
      BY <1>11 DEF LosePage
    <2>2. entries[node[t]][Piece1(t).at[2]] # Null
      BY <1>0, <2>1 DEF TableRight
    <2> QED BY <1>7, <1>8, <2>1, <2>2 DEF table
  <1>12. CASE AtWord(t) \/ Exchange(t)
    <2>1. UNCHANGED <<kind, known>> /\ pc[t] \in {"word", "exchange"} /\ todo[t] # << >>
      BY <1>12, <1>a DEF AtWord, Exchange, Doing
    <2>2. CASE UNCHANGED <<todo, page>>
      BY <1>0, <2>1, <2>2, HandFrame
    <2>3. CASE Stored(t)
      BY <1>0, <1>b, <2>1, <2>3, StoredFacts
    <2>4. CASE \E word : Loaded(t, word)
      BY <1>a, <1>b, <2>1, <2>4 DEF Loaded, Goes
    <2> QED BY <1>12, <2>2, <2>3, <2>4 DEF AtWord, Exchange, Puts
  <1> QED BY <1>1, <1>2, <1>3, <1>4, <1>6, <1>9, <1>10, <1>11, <1>12 DEF ThreadNext
-----------------------------------------------------------------------------
(* What calls have still to do and to tell. *)

\* What a call does next is what it had still to do.
LEMMA CallFrame ==
    ASSUME IInv, NEW t \in Threads, kind'[t] = kind[t],
           kind[t] # "zero" \/ todo'[t] = todo[t] \/ todo'[t] = << >> \/ (todo[t] # << >> /\ todo'[t] = Tail(todo[t])),
           pc'[t] = "idle" => log'[t] = {} /\ page'[t] = Null,
           kind[t] # "run" /\ pc'[t] \notin {"note", "mark"} => log'[t] = {}
    PROVE  CallRight(t)'
  <1>0. TypeOK /\ CallRight(t)
    BY DEF IInv
  <1>1. kind[t] = "zero" => \A k \in DOMAIN todo'[t] : \E l \in DOMAIN todo[t] : todo'[t][k] = todo[t][l]
    <2>1. CASE todo'[t] = << >>
      BY <2>1
    <2>2. CASE todo[t] # << >> /\ todo'[t] = Tail(todo[t])
      BY <1>0, <2>2, Piece1Facts
    <2> QED BY <2>1, <2>2
  <1>2. kind[t] = "zero" => \A i, k \in DOMAIN todo'[t] :
          /\ todo'[t][i].at[1] = todo'[t][k].at[1] /\ todo'[t][i].at[2] = todo'[t][k].at[2]
          /\ ~Loads(todo'[t][i]) /\ AllZero(todo'[t][i].bytes) /\ todo'[t][i].way # "fast"
    BY <1>0, <1>1 DEF CallRight
  <1> QED BY <1>2 DEF CallRight

LEMMA ThreadCall ==
    ASSUME IInv, NEW t \in Threads, ThreadNext(t)
    PROVE  \A u \in Threads : CallRight(u)'
  <1>0. /\ TypeOK /\ CallRight(t) /\ OthersKeep(t)
    BY ThreadOthers DEF IInv
  <1>a. /\ pc \in [Threads -> Places] /\ (pc[t] \in Doing => todo[t] # << >>)
        /\ kind \in [Threads -> {"read", "write", "zero", "run"}]
        /\ todo \in [Threads -> Seq(Piece)] /\ page \in [Threads -> Pages \cup {Null}]
        /\ log \in [Threads -> SUBSET (SUBSET (Addresses \X Offsets))]
    BY <1>0 DEF TypeOK
  <1>b. \A u \in Threads : u # t => CallRight(u)'
    <2> SUFFICES ASSUME NEW u \in Threads, u # t PROVE CallRight(u)'
      OBVIOUS
    <2>1. /\ pc'[u] = pc[u] /\ todo'[u] = todo[u] /\ page'[u] = page[u] /\ log'[u] = log[u]
          /\ kind'[u] = kind[u]
      BY <1>0 DEF OthersKeep, OthersSame
    <2>2. CallRight(u)
      BY DEF IInv
    <2> QED BY <2>1, <2>2 DEF CallRight
  <1> SUFFICES CallRight(t)'
    BY <1>b
  <1>c. ASSUME kind'[t] = kind[t],
               kind[t] # "zero" \/ todo'[t] = todo[t] \/ todo'[t] = << >> \/ (todo[t] # << >> /\ todo'[t] = Tail(todo[t])),
               pc'[t] # "idle", pc[t] \notin {"note", "mark"}, log'[t] = log[t]
        PROVE  CallRight(t)'
    BY <1>0, <1>c, CallFrame DEF CallRight
  <1>1. ASSUME NEW call \in Calls, Begin(t, call) PROVE CallRight(t)'
    <2>1. /\ pc'[t] = "next" /\ log'[t] = {} /\ kind'[t] = call.kind /\ todo'[t] = call.pieces
      BY <1>0, <1>1, <1>a DEF Begin, Goes, CallRight
    <2>2. call.kind = "zero" => \A i, k \in DOMAIN call.pieces :
              /\ call.pieces[i].at[1] = call.pieces[k].at[1]
              /\ call.pieces[i].at[2] = call.pieces[k].at[2]
              /\ ~Loads(call.pieces[i])
              /\ AllZero(call.pieces[i].bytes)
              /\ call.pieces[i].way # "fast"
      BY CallsAssumption
    <2> QED BY <2>1, <2>2 DEF CallRight
  <1>2. CASE GoOn(t) \/ Throw(t) \/ Refuse(t) \/ Inspect(t) \/ PutNode(t) \/ NewPage(t) \/ PutPage(t) \/ LosePage(t)
    <2>1. kind' = kind /\ log' = log
      BY <1>2 DEF GoOn, Throw, Refuse, Inspect, PutNode, NewPage, PutPage, LosePage
    <2>2. pc'[t] # "idle" /\ pc[t] \notin {"note", "mark"}
      BY <1>2, <1>a DEF GoOn, Throw, Refuse, Inspect, PutNode, NewPage, PutPage, LosePage, Found, Goes
    <2>3. todo'[t] = todo[t] \/ todo'[t] = << >> \/ (todo[t] # << >> /\ todo'[t] = Tail(todo[t]))
      BY <1>2, <1>a DEF GoOn, Throw, Refuse, Inspect, PutNode, NewPage, PutPage, LosePage, Doing
    <2> QED BY <1>c, <2>1, <2>2, <2>3
  <1>3. CASE Return(t)
    <2>1. UNCHANGED <<kind, todo>>
      BY <1>3 DEF Return
    <2>2. CASE Goes(t, "note")
      BY <1>a, <2>1, <2>2, CallFrame DEF Goes
    <2>3. CASE log' = [log EXCEPT ![t] = {}] /\ page' = [page EXCEPT ![t] = Null]
      BY <1>a, <2>1, <2>3, CallFrame
    <2> QED BY <1>3, <2>2, <2>3 DEF Return
  <1>4. CASE Note(t) \/ Mark(t)
    <2>1. UNCHANGED <<kind, todo>> /\ (Goes(t, "mark") \/ \E entry \in log[t] : Told(t, entry))
      BY <1>4 DEF Note, Mark
    <2>2. pc'[t] \in {"mark", "next", "note"} /\ (pc'[t] = "next" => log'[t] = {})
      BY <1>0, <1>a, <2>1, ToldFacts DEF Goes
    <2> QED BY <2>1, <2>2, CallFrame
  <1>5. ASSUME Stored(t), todo[t] # << >>, kind' = kind PROVE CallRight(t)'
    BY <1>0, <1>5, StoredFacts, CallFrame
  <1>6. ASSUME NEW word, Loaded(t, word), todo[t] # << >>, kind' = kind, pc[t] \in Doing PROVE CallRight(t)'
    <2>1. pc'[t] = "next" /\ log' = log /\ todo'[t] = Tail(todo[t]) /\ pc[t] \notin {"note", "mark"}
      BY <1>6, <1>a DEF Loaded, Goes, Doing
    <2> QED BY <1>6, <1>c, <2>1
  <1>7. ASSUME Absent(t), todo[t] # << >>, kind' = kind, pc[t] \in Doing PROVE CallRight(t)'
    <2>1. CASE kind[t] = "zero" /\ todo' = [todo EXCEPT ![t] = << >>] /\ Goes(t, "next") /\ UNCHANGED log
      BY <1>7, <1>a, <1>c, <2>1 DEF Goes, Doing
    <2>2. CASE kind[t] # "zero" /\ Goes(t, "root") /\ UNCHANGED log
      BY <1>7, <1>a, <1>c, <2>2 DEF Goes, Doing
    <2> QED BY <1>5, <1>6, <1>7, <2>1, <2>2 DEF Absent
  <1>8. CASE LookRoot(t) \/ LookLeaf(t)
    <2>1. kind' = kind /\ pc[t] \in Doing /\ todo[t] # << >> /\ pc[t] \notin {"note", "mark"}
      BY <1>8, <1>a DEF LookRoot, LookLeaf, Doing
    <2>2. CASE Goes(t, "leaf") \/ Goes(t, "node") \/ Goes(t, "new") \/ \E p : Found(t, p)
      <3>1. CASE UNCHANGED <<todo, log>>
        <4>1. pc'[t] # "idle"
          BY <1>a, <2>2 DEF Goes, Found
        <4> QED BY <1>c, <2>1, <3>1, <4>1
      <3> QED BY <1>7, <1>8, <2>1, <3>1 DEF LookRoot, LookLeaf
    <2> QED BY <1>7, <1>8, <2>1, <2>2 DEF LookRoot, LookLeaf
  <1>9. CASE AtWord(t) \/ Exchange(t)
    <2>1. kind' = kind /\ pc[t] \in Doing /\ todo[t] # << >> /\ pc[t] \in {"word", "exchange"}
      BY <1>9, <1>a DEF AtWord, Exchange, Doing
    <2>2. CASE UNCHANGED <<todo, log>> /\ (Goes(t, "exchange") \/ UNCHANGED pc)
      BY <1>a, <1>c, <2>1, <2>2 DEF Goes
    <2> QED BY <1>5, <1>6, <1>9, <2>1, <2>2 DEF AtWord, Exchange, Puts
  <1> QED BY <1>1, <1>2, <1>3, <1>4, <1>8, <1>9 DEF ThreadNext

LEMMA ThreadPlace ==
    ASSUME IInv, NEW t \in Threads, ThreadNext(t)
    PROVE  \A u \in Threads : PlaceRight(u)'
  <1>0. TypeOK /\ PlaceRight(t) /\ OthersKeep(t)
    BY ThreadOthers DEF IInv
  <1>a. pc \in [Threads -> Places] /\ (pc[t] \in Doing => todo[t] # << >>)
    BY <1>0 DEF TypeOK
  <1>b. \A u \in Threads : u # t => PlaceRight(u)'
    <2> SUFFICES ASSUME NEW u \in Threads, u # t PROVE PlaceRight(u)'
      OBVIOUS
    <2>1. pc'[u] = pc[u] /\ todo'[u] = todo[u] /\ kind'[u] = kind[u] /\ PlaceRight(u)
      BY <1>0 DEF OthersKeep, OthersSame, IInv
    <2> QED BY <2>1 DEF PlaceRight, Piece1
  <1> SUFFICES PlaceRight(t)'
    BY <1>b
  <1>c. ASSUME pc'[t] \notin {"inspect", "exchange"} PROVE PlaceRight(t)'
    BY <1>c DEF PlaceRight
  <1>1. CASE (\E call \in Calls : Begin(t, call)) \/ Throw(t) \/ Return(t) \/ Refuse(t) \/ Inspect(t) \/ PutNode(t) \/ NewPage(t)
    BY <1>1, <1>a, <1>c DEF Begin, Throw, Return, Refuse, Inspect, PutNode, NewPage, Goes
  <1>2. CASE GoOn(t)
    <2>1. kind' = kind /\ (pc'[t] = "inspect" => kind[t] = "zero") /\ pc'[t] # "exchange"
      BY <1>2, <1>a DEF GoOn, Goes
    <2> QED BY <2>1 DEF PlaceRight
  <1>3. ASSUME NEW p, Found(t, p), kind' = kind PROVE PlaceRight(t)'
    <2>1. (pc'[t] = "inspect" => kind[t] = "zero") /\ pc'[t] # "exchange"
      BY <1>3, <1>a DEF Found, Goes
    <2> QED BY <1>3, <2>1 DEF PlaceRight
  <1>4. CASE Note(t) \/ Mark(t)
    <2>1. Goes(t, "mark") \/ \E entry \in log[t] : Told(t, entry)
      BY <1>4 DEF Note, Mark
    <2>2. pc'[t] \in {"mark", "next", "note"}
      BY <1>0, <1>a, <2>1, ToldFacts DEF Goes
    <2> QED BY <1>c, <2>2
  <1>5. CASE LookRoot(t) \/ LookLeaf(t)
    <2>1. todo[t] # << >> /\ kind' = kind
      BY <1>5, <1>a DEF LookRoot, LookLeaf, Doing
    <2>2. CASE Absent(t)
      BY <1>0, <1>c, <2>1, <2>2, AbsentFacts
    <2>3. CASE Goes(t, "leaf") \/ Goes(t, "node") \/ Goes(t, "new")
      BY <1>a, <1>c, <2>3 DEF Goes
    <2> QED BY <1>3, <1>5, <2>1, <2>2, <2>3 DEF LookRoot, LookLeaf
  <1>6. CASE PutPage(t) \/ LosePage(t)
    <2>1. CASE Goes(t, "lost")
      BY <1>a, <1>c, <2>1 DEF Goes
    <2> QED BY <1>3, <1>6, <2>1 DEF PutPage, LosePage
  <1>7. CASE AtWord(t) \/ Exchange(t)
    <2>1. CASE Stored(t) \/ \E word : Loaded(t, word)
      <3>1. pc'[t] \in {"next", "note"}
        BY <1>a, <2>1 DEF Stored, Loaded, Goes
      <3> QED BY <1>c, <3>1
    <2>2. CASE AtWord(t) /\ ~Loads(Piece1(t)) /\ Goes(t, "exchange") /\ UNCHANGED todo
      <3>1. pc'[t] = "exchange" /\ Piece1(t)' = Piece1(t)
        BY <1>a, <2>2 DEF Goes, Piece1
      <3> QED BY <2>2, <3>1 DEF PlaceRight, Loads
    <2>3. CASE Exchange(t) /\ UNCHANGED <<pc, todo>>
      <3>1. pc'[t] = "exchange" /\ pc[t] = "exchange" /\ Piece1(t)' = Piece1(t)
        BY <2>3 DEF Exchange, Piece1
      <3> QED BY <1>0, <3>1 DEF PlaceRight, Loads
    <2> QED BY <1>7, <2>1, <2>2, <2>3 DEF AtWord, Exchange, Puts
  <1> QED BY <1>1, <1>2, <1>3, <1>4, <1>5, <1>6, <1>7 DEF ThreadNext
-----------------------------------------------------------------------------
(* The step. *)

\* The step keeps knowing what it knew if a thread has to tell all that it had to tell, and
\* what it stores.
LEMMA StepFrame ==
    ASSUME StepKnows, NEW t \in Threads, OthersKeep(t), UNCHANGED stepped,
           stepOpen => since' \subseteq since \cup UNION log'[t] /\ UNION log[t] \subseteq UNION log'[t]
    PROVE  StepKnows'
  <1> SUFFICES ASSUME stepOpen', ~stepOverflowed', NEW b \in since'
               PROVE  b \in stepWrites' \cup UNION {UNION log'[u] : u \in Threads}
    BY DEF StepKnows
  <1>1. stepOpen /\ ~stepOverflowed /\ stepWrites' = stepWrites
    BY DEF stepped
  <1>2. CASE b \in UNION log'[t]
    BY <1>2
  <1>3. CASE b \in since /\ b \in stepWrites
    BY <1>1, <1>3
  <1>4. ASSUME b \in since, NEW u \in Threads, b \in UNION log[u]
        PROVE  b \in UNION {UNION log'[v] : v \in Threads}
    <2>1. CASE u = t
      BY <1>1, <1>4, <2>1
    <2>2. CASE u # t
      <3>1. log'[u] = log[u]
        BY <2>2 DEF OthersKeep, OthersSame
      <3> QED BY <1>4, <3>1
    <2> QED BY <2>1, <2>2
  <1>5. since \subseteq stepWrites \cup UNION {UNION log[u] : u \in Threads}
    BY <1>1 DEF StepKnows
  <1>6. b \in since \/ b \in UNION log'[t]
    BY <1>1
  <1> QED BY <1>2, <1>3, <1>4, <1>5, <1>6

LEMMA ThreadStep ==
    ASSUME IInv, NEW t \in Threads, ThreadNext(t)
    PROVE  StepKnows'
  <1>0. /\ TypeOK /\ CallRight(t) /\ OthersKeep(t) /\ StepKnows
    BY ThreadOthers DEF IInv
  <1>a. /\ log \in [Threads -> SUBSET (SUBSET (Addresses \X Offsets))]
        /\ (pc[t] \in Doing => todo[t] # << >>)
    BY <1>0 DEF TypeOK
  <1>b. ASSUME UNCHANGED <<stepped, since>>, log'[t] = log[t] PROVE StepKnows'
    BY <1>0, <1>b, StepFrame
  <1>1. CASE (\E call \in Calls : Begin(t, call)) \/ GoOn(t) \/ Throw(t)
    BY <1>1, <1>b DEF Begin, GoOn, Throw
  <1>2. CASE Refuse(t) \/ Inspect(t) \/ PutNode(t) \/ NewPage(t) \/ PutPage(t) \/ LosePage(t)
    BY <1>2, <1>b DEF Refuse, Inspect, PutNode, NewPage, PutPage, LosePage
  <1>3. CASE Return(t)
    <2>1. UNCHANGED <<stepped, since>>
      BY <1>3 DEF Return
    <2>2. CASE UNCHANGED log
      BY <1>b, <2>1, <2>2
    <2>3. CASE (log[t] = {} \/ ~stepOpen) /\ log' = [log EXCEPT ![t] = {}]
      <3>1. stepOpen => UNION log[t] \subseteq UNION log'[t]
        BY <1>a, <2>3
      <3> QED BY <1>0, <2>1, <3>1, StepFrame
    <2> QED BY <1>3, <2>2, <2>3 DEF Return
  <1>4. CASE Note(t)
    <2>1. UNCHANGED <<stepped, since>>
      BY <1>4 DEF Note
    <2>2. CASE UNCHANGED log
      BY <1>b, <2>1, <2>2
    <2>3. CASE ~stepOpen
      BY <1>0, <2>1, <2>3, StepFrame
    <2> QED BY <1>4, <2>2, <2>3 DEF Note
  <1>5. CASE Mark(t)
    <2>1. PICK entry \in log[t] :
             /\ Told(t, entry)
             /\ \/ stepOverflowed /\ UNCHANGED stepOverflowed
                \/ stepOverflowed' = TRUE
                \/ stepWrites' = stepWrites \cup entry /\ UNCHANGED stepOverflowed
      BY <1>5 DEF Mark
    <2>2. UNCHANGED <<stepOpen, since>> /\ log'[t] = log[t] \ {entry}
      BY <1>0, <1>5, <2>1, ToldFacts DEF Mark
    <2>3. CASE stepOverflowed'
      BY <2>3 DEF StepKnows
    <2>4. CASE stepWrites' = stepWrites \cup entry /\ UNCHANGED stepOverflowed /\ ~stepOverflowed'
      <3> SUFFICES ASSUME stepOpen, NEW b \in since
                   PROVE  b \in stepWrites' \cup UNION {UNION log'[u] : u \in Threads}
        BY <2>2 DEF StepKnows
      <3>1. b \in stepWrites \cup UNION {UNION log[u] : u \in Threads}
        BY <1>0, <2>4 DEF StepKnows
      <3>2. CASE b \in stepWrites
        BY <2>4, <3>2
      <3>3. ASSUME NEW u \in Threads, b \in UNION log[u]
            PROVE  b \in stepWrites' \cup UNION {UNION log'[v] : v \in Threads}
        <4>1. CASE b \in entry
          BY <2>4, <4>1
        <4>2. CASE b \notin entry
          <5>1. \A s \in log[u] : b \in s => s \in log'[u]
            BY <1>0, <2>2, <4>2 DEF OthersKeep, OthersSame
          <5>2. b \in UNION log'[u]
            BY <3>3, <5>1
          <5> QED BY <5>2
        <4> QED BY <4>1, <4>2
      <3> QED BY <3>1, <3>2, <3>3
    <2> QED BY <2>1, <2>3, <2>4
  <1>6. ASSUME UNCHANGED stepped, Stored(t), pc[t] \in Doing, since' \subseteq since \cup BytesOf(Piece1(t)) PROVE StepKnows'
    <2>1. log'[t] = IF kind[t] = "run" THEN log[t] \cup {{b} : b \in BytesOf(Piece1(t))} ELSE {BytesOf(Piece1(t))}
      BY <1>0, <1>6, <1>a, StoredFacts
    <2>2. kind[t] = "run" \/ log[t] = {}
      BY <1>0, <1>6 DEF CallRight, Doing
    <2>3. UNION log[t] \subseteq UNION log'[t]
      BY <2>1, <2>2
    <2>4. BytesOf(Piece1(t)) \subseteq UNION log'[t]
      BY <2>1
    <2> QED BY <1>0, <1>6, <2>3, <2>4, StepFrame
  <1>7. CASE LookRoot(t) \/ LookLeaf(t)
    <2>1. UNCHANGED <<stepped, since>> /\ pc[t] \in Doing
      BY <1>7 DEF LookRoot, LookLeaf, Doing
    <2>2. CASE UNCHANGED log
      BY <1>b, <2>1, <2>2
    <2>3. CASE Stored(t)
      BY <1>6, <2>1, <2>3
    <2> QED BY <1>7, <2>2, <2>3 DEF LookRoot, LookLeaf, Absent, Loaded
  <1>8. CASE AtWord(t) \/ Exchange(t)
    <2>1. UNCHANGED stepped /\ pc[t] \in Doing
      BY <1>8 DEF AtWord, Exchange, Doing
    <2>2. CASE UNCHANGED <<since, log>>
      BY <1>b, <2>1, <2>2
    <2>3. CASE \E word : Puts(t, word)
      BY <1>6, <2>1, <2>3 DEF Puts
    <2> QED BY <1>8, <2>2, <2>3 DEF AtWord, Exchange, Loaded
  <1> QED BY <1>1, <1>2, <1>3, <1>4, <1>5, <1>7, <1>8 DEF ThreadNext
-----------------------------------------------------------------------------
(* The theorems. *)

LEMMA InitInv == Init => IInv
  <1> SUFFICES ASSUME Init PROVE IInv
    OBVIOUS
  <1>1. TypeOK
    BY InitType
  <1>2. /\ root = [i \in Indices |-> Null] /\ entries = [n \in Nodes |-> [i \in Indices |-> Null]]
        /\ chunks = 0 /\ chunkUsed = ChunkPages /\ unused = << >>
        /\ content = [p \in Pages |-> [w \in Words |-> Zeros]]
        /\ \A t \in Threads : pc[t] = "idle" /\ kind[t] = "read" /\ log[t] = {} /\ page[t] = Null /\ known[t] = Null
    BY DEF Init
  <1>3. TableRight
    BY <1>2 DEF TableRight
  <1>4. PoolRight
    BY <1>2 DEF PoolRight, Makes
  <1>5. StepKnows
    BY DEF Init, StepKnows
  <1>6. \A t \in Threads : CallRight(t) /\ HandRight(t) /\ PlaceRight(t)
    BY <1>2 DEF CallRight, HandRight, PlaceRight
  <1> QED BY <1>1, <1>3, <1>4, <1>5, <1>6 DEF IInv

\* What find gives is not changed by trim or by a step that begins or ends.
LEMMA MemoryKeeps ==
    ASSUME IInv, (\E number \in Numbers : Trim(number)) \/ BeginStep \/ EndStep
    PROVE  /\ UNCHANGED <<table, pool, left, pc, kind, todo, hands, known, log, answer>>
           /\ content' = content
  <1>1. UNCHANGED <<table, pool, left, pc, kind, todo, hands, known, log, answer>>
    BY DEF Trim, BeginStep, EndStep
  <1>2. ASSUME NEW number \in Numbers, Trim(number) PROVE content' = content
    <2> DEFINE p == entries[root[number[1]]][number[2]]
               zeros == [w \in Words |-> Zeros]
    <2>1. /\ p # Null /\ root[number[1]] # Null
          /\ \A w \in Words : content[p][w] = Zeros
          /\ content' = [content EXCEPT ![p] = zeros]
      BY <1>2 DEF Trim
    <2>2. p = PageAt(number) /\ TypeOK
      BY <2>1 DEF PageAt, IInv
    <2>3. p \in Pages
      BY <2>1, <2>2, PageAtFacts
    <2> HIDE DEF p
    <2>4. content[p] \in [Words -> Word] /\ content \in [Pages -> [Words -> Word]]
      BY <2>2, <2>3 DEF TypeOK
    <2>5. content[p] = zeros
      BY <2>1, <2>4
    <2> HIDE DEF zeros
    <2> QED BY <2>1, <2>3, <2>4, <2>5
  <1> QED BY <1>1, <1>2 DEF BeginStep, EndStep

LEMMA StepSame ==
    ASSUME StepKnows, UNCHANGED <<stepOpen, stepWrites, stepOverflowed, since, log>>
    PROVE  StepKnows'
  <1>1. stepOpen' = stepOpen /\ stepWrites' = stepWrites /\ stepOverflowed' = stepOverflowed /\ since' = since
    OBVIOUS
  <1>2. UNION {UNION log'[t] : t \in Threads} = UNION {UNION log[t] : t \in Threads}
    <2>1. log' = log
      OBVIOUS
    <2> QED BY <2>1, Zenon
  <1> SUFFICES ASSUME stepOpen', ~stepOverflowed' PROVE since' \subseteq stepWrites' \cup UNION {UNION log'[t] : t \in Threads}
    BY DEF StepKnows
  <1>3. stepOpen /\ ~stepOverflowed
    BY <1>1
  <1>4. since \subseteq stepWrites \cup UNION {UNION log[t] : t \in Threads}
    BY <1>3 DEF StepKnows
  <1> QED BY <1>1, <1>2, <1>4, Zenon

LEMMA MemoryInv ==
    ASSUME IInv, (\E number \in Numbers : Trim(number)) \/ BeginStep \/ EndStep
    PROVE  IInv'
  <1>0. /\ TypeOK /\ TableRight /\ PoolRight /\ StepKnows
        /\ \A t \in Threads : CallRight(t) /\ HandRight(t) /\ PlaceRight(t)
    BY DEF IInv
  <1>1. /\ root' = root /\ entries' = entries /\ chunks' = chunks /\ chunkUsed' = chunkUsed /\ unused' = unused
        /\ content' = content /\ pc' = pc /\ kind' = kind /\ todo' = todo /\ node' = node /\ made' = made
        /\ page' = page /\ known' = known /\ log' = log
    BY MemoryKeeps DEF table, pool, hands
  <1>2. TypeOK'
    BY <1>0, MemoryType
  <1>3. TableRight'
    BY <1>0, <1>1 DEF TableRight, Rooted, Piece1
  <1>4. PoolRight'
    BY <1>0, <1>1 DEF PoolRight, Listed, Given, Makes
  <1>5. StepKnows'
    <2>1. CASE \E number \in Numbers : Trim(number)
      <3>1. UNCHANGED <<stepOpen, stepWrites, stepOverflowed, since, log>>
        BY <1>1, <2>1 DEF Trim, stepped
      <3> QED BY <1>0, <3>1, StepSame
    <2>2. CASE BeginStep
      BY <2>2 DEF BeginStep, StepKnows
    <2>3. CASE EndStep
      BY <2>3, Zenon DEF EndStep, StepKnows
    <2> QED BY <2>1, <2>2, <2>3
  <1>6. \A t \in Threads : CallRight(t)' /\ HandRight(t)'
    BY <1>0, <1>1 DEF CallRight, HandRight, PageAt, Piece1
  <1>7. \A t \in Threads : PlaceRight(t)'
    BY <1>0, <1>1 DEF PlaceRight, Piece1, Loads
  <1> QED BY <1>2, <1>3, <1>4, <1>5, <1>6, <1>7 DEF IInv

LEMMA NextInv == IInv /\ [Next]_vars => IInv'
  <1> SUFFICES ASSUME IInv, [Next]_vars PROVE IInv'
    OBVIOUS
  <1>1. ASSUME NEW t \in Threads, ThreadNext(t) PROVE IInv'
    <2>1. TypeOK'
      BY <1>1, ThreadType DEF IInv
    <2>2. TableRight' /\ PoolRight' /\ StepKnows'
      BY <1>1, ThreadTable, ThreadPool, ThreadStep
    <2>3. \A u \in Threads : CallRight(u)' /\ HandRight(u)' /\ PlaceRight(u)'
      BY <1>1, ThreadCall, ThreadHand, ThreadPlace
    <2> QED BY <2>1, <2>2, <2>3 DEF IInv
  <1>2. CASE (\E number \in Numbers : Trim(number)) \/ BeginStep \/ EndStep
    BY <1>2, MemoryInv
  <1>3. CASE UNCHANGED vars
    <2>1. /\ root' = root /\ entries' = entries /\ chunks' = chunks /\ chunkUsed' = chunkUsed /\ unused' = unused
          /\ content' = content /\ pc' = pc /\ kind' = kind /\ todo' = todo /\ node' = node /\ made' = made
          /\ page' = page /\ known' = known /\ log' = log /\ expected' = expected /\ answer' = answer
          /\ stepOpen' = stepOpen /\ stepWrites' = stepWrites /\ stepSize' = stepSize
          /\ stepOverflowed' = stepOverflowed /\ since' = since /\ left' = left
      BY <1>3 DEF vars, table, pool, stepped, hands
    <2>2. TypeOK' /\ TableRight'
      BY <2>1 DEF IInv, TypeOK, TableRight, Rooted, Piece1
    <2>3. PoolRight'
      BY <2>1 DEF IInv, PoolRight, Listed, Given, Makes
    <2>4. \A t \in Threads : CallRight(t)' /\ HandRight(t)'
      <3>1. \A t \in Threads : CallRight(t) /\ HandRight(t)
        BY DEF IInv
      <3>2. /\ root' = root /\ entries' = entries /\ pc' = pc /\ kind' = kind /\ todo' = todo
            /\ page' = page /\ known' = known /\ log' = log
        BY <2>1
      <3> QED BY <3>1, <3>2 DEF CallRight, HandRight, PageAt, Piece1
    <2>5. StepKnows'
      BY <2>1, StepSame DEF IInv
    <2>6. \A t \in Threads : PlaceRight(t)'
      BY <2>1 DEF IInv, PlaceRight, Piece1, Loads
    <2> QED BY <2>2, <2>3, <2>4, <2>5, <2>6 DEF IInv
  <1> QED BY <1>1, <1>2, <1>3 DEF Next

LEMMA InvAlways == Spec => []IInv
  BY InitInv, NextInv, PTL DEF Spec

\* No page is in two places of the table.
LEMMA PagesDistinct ==
    ASSUME IInv, NEW m \in Numbers, NEW n \in Numbers, PageAt(m) # Null, PageAt(m) = PageAt(n)
    PROVE  m = n
  <1>0. TypeOK /\ TableRight /\ PoolRight
    BY DEF IInv
  <1>1. /\ root[m[1]] \in Nodes /\ root[n[1]] \in Nodes
        /\ entries[root[m[1]]][m[2]] = entries[root[n[1]]][n[2]] /\ entries[root[m[1]]][m[2]] # Null
        /\ m[1] \in Indices /\ m[2] \in Indices /\ n[1] \in Indices /\ n[2] \in Indices
    BY <1>0, PageAtFacts
  <1>2. root[m[1]] = root[n[1]] /\ m[2] = n[2]
    BY <1>0, <1>1 DEF PoolRight
  <1>3. m[1] = n[1]
    BY <1>0, <1>1, <1>2, NullAssumption DEF TableRight
  <1> QED BY <1>2, <1>3 DEF Numbers

\* Whatever threads do at once, the state of the memory is one that its declarations allow,
\* and no page is given out past the end of its chunk (newPage).
THEOREM MemoryTypeCorrect == Spec => []TypeOK
  <1>1. IInv => TypeOK
    BY DEF IInv
  <1> QED BY <1>1, InvAlways, PTL

\* No page is in two places, and one that is not in the table is zeros: what newPage,
\* unusedPage and the exchanges of ensure keep with no lock around the table.
THEOREM PagesKeptApart == Spec => []PagesApart
  <1>1. IInv => PagesApart
    <2> SUFFICES ASSUME IInv PROVE PagesApart
      OBVIOUS
    <2>0. TypeOK /\ TableRight /\ PoolRight
      BY DEF IInv
    <2>1. \A m, n \in Numbers : PageAt(m) # Null /\ PageAt(m) = PageAt(n) => m = n
      BY PagesDistinct
    <2>2. \A p \in Pages : \A n \in Numbers : ~Listed(p) => PageAt(n) # p
      BY <2>0, PageAtFacts, NullAssumption
    <2>3. \A p \in Pages : (\A n \in Numbers : PageAt(n) # p) => content[p] = [w \in Words |-> Zeros]
      <3> SUFFICES ASSUME NEW p \in Pages, \A n \in Numbers : PageAt(n) # p PROVE ~Listed(p)
        BY <2>0 DEF PoolRight
      <3> SUFFICES ASSUME NEW m \in Nodes, NEW j \in Indices, entries[m][j] = p PROVE FALSE
        BY DEF Listed
      <3>1. PICK i \in Indices : root[i] = m
        BY <2>0, NullAssumption DEF TableRight, Rooted
      <3>2. <<i, j>> \in Numbers /\ PageAt(<<i, j>>) = p
        BY <3>1, NullAssumption DEF Numbers, PageAt
      <3> QED BY <3>2
    <2>4. \A k \in DOMAIN unused : unused[k] \in Pages /\ ~Listed(unused[k])
      BY <2>0 DEF PoolRight, Given
    <2>5. \A t \in Threads : \A p \in InHand(t) :
             /\ p \in Pages /\ ~Listed(p) /\ \A k \in DOMAIN unused : unused[k] # p
             /\ \A u \in Threads \ {t} : p \notin InHand(u)
      BY <2>0 DEF PoolRight, InHand, Makes, Given
    <2>6. \A k, l \in DOMAIN unused : unused[k] = unused[l] => k = l
      BY <2>0 DEF PoolRight
    <2> QED BY <2>1, <2>2, <2>3, <2>4, <2>5, <2>6 DEF PagesApart
  <1> QED BY <1>1, InvAlways, PTL

\* The page that a thread has found, or that its run remembers in pageEntries, is the one
\* that is in the table for the address, however many others looked or put one in meanwhile.
THEOREM HandsAlwaysRight == Spec => []HandsRight
  <1>1. IInv => HandsRight
    BY DEF IInv, HandsRight, HandRight
  <1> QED BY <1>1, InvAlways, PTL

\* A step that is open knows each byte stored since it began, or a thread has still to tell
\* it (noteStep and the notes of runs): what obligation 13 asks of a step that is taken back.
THEOREM StepAlwaysKnows == Spec => []StepKnows
  <1>1. IInv => StepKnows
    BY DEF IInv
  <1> QED BY <1>1, InvAlways, PTL

\* A page, once there, stays where it is (the head of paged_memory.h), so that a pointer to
\* it, in pageEntries or in the hands of a thread, never goes stale.
THEOREM PagesAlwaysStay == Spec => PagesStay
  <1>1. IInv /\ [Next]_vars => [\A n \in Numbers : PageAt(n) # Null => PageAt(n)' = PageAt(n)]_vars
    <2> SUFFICES ASSUME IInv, Next PROVE \A n \in Numbers : PageAt(n) # Null => PageAt(n)' = PageAt(n)
      OBVIOUS
    <2>1. CASE \E t \in Threads : ThreadNext(t)
      BY <2>1, ThreadStays
    <2>2. CASE (\E number \in Numbers : Trim(number)) \/ BeginStep \/ EndStep
      BY <2>2, MemoryKeeps DEF PageAt, table
    <2> QED BY <2>1, <2>2 DEF Next
  <1> QED BY <1>1, InvAlways, PTL DEF Spec, PagesStay
-----------------------------------------------------------------------------
(* The memory implements a flat one. *)

Wants(t) == [at |-> Piece1(t).at, bytes |-> Piece1(t).bytes]

\* What is asked for is an access of one word, from when a piece is begun until it is done.
LEMMA AskedFacts ==
    ASSUME TypeOK, NEW t \in Threads
    PROVE  /\ pc[t] \in Doing => /\ Asked[t] = Wants(t) /\ Asked[t] # Null
                                 /\ Asked[t] \in [at : Addresses, bytes : Stores]
                                 /\ Asked[t].at = Piece1(t).at /\ Asked[t].bytes = Piece1(t).bytes
           /\ pc[t] \notin Doing => Asked[t] = Null
  <1>1. pc[t] \notin Doing => Asked[t] = Null
    BY DEF Asked
  <1>2. CASE pc[t] \in Doing
    <2>1. Piece1(t).at \in Addresses /\ Piece1(t).bytes \in Stores
      BY <1>2, Piece1Facts, PieceFacts DEF TypeOK
    <2>2. Asked[t] = Wants(t)
      BY <1>2 DEF Asked, Wants
    <2>3. /\ Wants(t) \in [at : Addresses, bytes : Stores]
          /\ Wants(t).at = Piece1(t).at /\ Wants(t).bytes = Piece1(t).bytes
      BY <2>1 DEF Wants
    <2> QED BY <1>2, <2>2, <2>3, NullAssumption
  <1> QED BY <1>1, <1>2

\* What the others have asked for is not touched, so that what is asked for changes at most
\* at the thread that takes the step.
LEMMA AskedOthers ==
    ASSUME NEW t \in Threads, OthersKeep(t)
    PROVE  Asked' = [Asked EXCEPT ![t] = Asked'[t]]
  <1>1. \A u \in Threads \ {t} : pc'[u] = pc[u] /\ Piece1(u)' = Piece1(u)
    BY DEF OthersKeep, OthersSame, Piece1
  <1>2. \A u \in Threads \ {t} : Asked'[u] = Asked[u]
    BY <1>1 DEF Asked
  <1>3. DOMAIN Asked = Threads /\ DOMAIN Asked' = Threads /\ Asked = [u \in Threads |-> Asked[u]] /\ Asked' = [u \in Threads |-> Asked'[u]]
    BY DEF Asked
  <1> QED BY <1>2, <1>3

\* A thread that goes on with a piece of the same bytes asks for what it asked for.
LEMMA AskedKeeps ==
    ASSUME NEW t \in Threads, OthersKeep(t),
           \/ pc[t] \notin Doing /\ pc'[t] \notin Doing
           \/ pc[t] \in Doing /\ pc'[t] \in Doing /\ Piece1(t)'.at = Piece1(t).at /\ Piece1(t)'.bytes = Piece1(t).bytes
    PROVE  Asked' = Asked
  <1>1. Asked'[t] = Asked[t]
    BY DEF Asked
  <1>2. Asked = [u \in Threads |-> Asked[u]]
    BY DEF Asked
  <1>3. Asked' = [Asked EXCEPT ![t] = Asked'[t]]
    BY AskedOthers
  <1> QED BY <1>1, <1>2, <1>3

\* What an address holds: a word of its page, or zeros.
LEMMA MemoryFacts ==
    ASSUME IInv, NEW a \in Addresses
    PROVE  /\ Number(a) \in Numbers /\ a[3] \in Words
           /\ Memory[a] = IF PageAt(Number(a)) = Null THEN Zeros ELSE content[PageAt(Number(a))][a[3]]
           /\ Memory[a] \in Word
  <1>1. Number(a) \in Numbers /\ a[3] \in Words
    BY DEF Number, Numbers, Addresses
  <1>2. Memory[a] = IF PageAt(Number(a)) = Null THEN Zeros ELSE content[PageAt(Number(a))][a[3]]
    BY DEF Memory
  <1>3. TypeOK
    BY DEF IInv
  <1>4. PageAt(Number(a)) # Null => PageAt(Number(a)) \in Pages
    BY <1>1, <1>3, PageAtFacts
  <1>5. \A p \in Pages : content[p][a[3]] \in Word
    BY <1>1, <1>3 DEF TypeOK
  <1> QED BY <1>1, <1>2, <1>4, <1>5, ZerosFacts

\* No store, no change: a page that ensure puts in holds the zeros that were read before.
LEMMA MemoryKept ==
    ASSUME IInv, NEW t \in Threads, ThreadNext(t), content' = content
    PROVE  Memory' = Memory
  <1>0. PoolRight /\ TypeOK
    BY DEF IInv
  <1>1. \A a \in Addresses : Number(a) \in Numbers /\ a[3] \in Words
    BY DEF Number, Numbers, Addresses
  <1>2. CASE \A n \in Numbers : PageAt(n)' = PageAt(n)
    <2>1. ASSUME NEW a \in Addresses
          PROVE  (IF PageAt(Number(a)) = Null THEN Zeros ELSE content[PageAt(Number(a))][a[3]])'
                 = IF PageAt(Number(a)) = Null THEN Zeros ELSE content[PageAt(Number(a))][a[3]]
      BY <1>1, <1>2
    <2> QED BY <2>1 DEF Memory
  <1>3. CASE /\ made[t] \in Pages /\ ~Listed(made[t]) /\ todo[t] # << >>
             /\ PageAt(Number(Piece1(t).at)) = Null
             /\ \A n \in Numbers : PageAt(n)' = IF n = Number(Piece1(t).at) THEN made[t] ELSE PageAt(n)
    <2>1. content[made[t]] = [w \in Words |-> Zeros] /\ made[t] # Null
      BY <1>0, <1>3, NullAssumption DEF PoolRight
    <2>2. ASSUME NEW a \in Addresses
          PROVE  (IF PageAt(Number(a)) = Null THEN Zeros ELSE content[PageAt(Number(a))][a[3]])'
                 = IF PageAt(Number(a)) = Null THEN Zeros ELSE content[PageAt(Number(a))][a[3]]
      <3>1. CASE Number(a) = Number(Piece1(t).at)
        <4>1. PageAt(Number(a))' = made[t] /\ PageAt(Number(a)) = Null
          BY <1>1, <1>3, <3>1
        <4>2. content[made[t]][a[3]] = Zeros
          BY <1>1, <2>1
        <4> QED BY <2>1, <4>1, <4>2
      <3>2. CASE Number(a) # Number(Piece1(t).at)
        <4>1. PageAt(Number(a))' = PageAt(Number(a))
          BY <1>1, <1>3, <3>2
        <4> QED BY <4>1
      <3> QED BY <3>1, <3>2
    <2> QED BY <2>2 DEF Memory
  <1> QED BY <1>2, <1>3, TableStep

\* What is put in the word of a page is put in the word of one address.
LEMMA MemoryPut ==
    ASSUME IInv, NEW t \in Threads, pc[t] \in {"word", "exchange"}, NEW word,
           UNCHANGED table,
           content' = [content EXCEPT ![page[t]][Piece1(t).at[3]] = word]
    PROVE  Memory' = [Memory EXCEPT ![Piece1(t).at] = word]
  <1>0. TypeOK /\ todo[t] # << >> /\ page[t] \in Pages /\ page[t] = PageAt(Number(Piece1(t).at)) /\ page[t] # Null
    BY HandListed, NullAssumption DEF IInv
  <1> DEFINE at == Piece1(t).at
  <1>1. at \in Addresses /\ at[3] \in Words /\ Number(at) \in Numbers
    BY <1>0, NumberFacts
  <1>2. content \in [Pages -> [Words -> Word]]
    BY <1>0 DEF TypeOK
  <1> HIDE DEF at
  <1>3. content' = [content EXCEPT ![page[t]][at[3]] = word] /\ page[t] = PageAt(Number(at))
    BY <1>0 DEF at
  <1>4. ASSUME NEW a \in Addresses
        PROVE  (IF PageAt(Number(a)) = Null THEN Zeros ELSE content[PageAt(Number(a))][a[3]])'
               = IF a = at THEN word
                 ELSE IF PageAt(Number(a)) = Null THEN Zeros ELSE content[PageAt(Number(a))][a[3]]
    <2>1. Number(a) \in Numbers /\ a[3] \in Words
      BY MemoryFacts
    <2>2. PageAt(Number(a))' = PageAt(Number(a))
      BY DEF PageAt, table
    <2>3. PageAt(Number(a)) # Null => PageAt(Number(a)) \in Pages
      BY <1>0, <2>1, PageAtFacts
    <2>4. CASE a = at
      BY <1>0, <1>1, <1>2, <1>3, <2>2, <2>4
    <2>5. CASE a # at
      <3>1. PageAt(Number(a)) = page[t] => Number(a) = Number(at)
        BY <1>0, <1>1, <1>3, <2>1, PagesDistinct
      <3>2. Number(a) = Number(at) => a[3] # at[3]
        BY <1>1, <2>5 DEF Number, Addresses
      <3> QED BY <1>0, <1>1, <1>2, <1>3, <2>1, <2>2, <2>3, <2>5, <3>1, <3>2
    <2> QED BY <2>4, <2>5
  <1>5. Memory' = [a \in Addresses |-> IF a = at THEN word ELSE Memory[a]]
    BY <1>4 DEF Memory
  <1>6. Memory = [a \in Addresses |-> Memory[a]]
    BY DEF Memory
  <1> QED BY <1>1, <1>5, <1>6 DEF at

\* Where find gives nothing there is no page for the piece.
LEMMA LookedAbsent ==
    ASSUME IInv, NEW t \in Threads, todo[t] # << >>,
           \/ LookRoot(t) /\ root[Piece1(t).at[1]] = Null
           \/ LookLeaf(t) /\ entries[node[t]][Piece1(t).at[2]] = Null
    PROVE  PageAt(Number(Piece1(t).at)) = Null /\ Memory[Piece1(t).at] = Zeros
  <1>0. TypeOK /\ TableRight
    BY DEF IInv
  <1>1. /\ Number(Piece1(t).at)[1] = Piece1(t).at[1] /\ Number(Piece1(t).at)[2] = Piece1(t).at[2]
        /\ Piece1(t).at \in Addresses
    BY <1>0, NumberFacts
  <1>2. LookLeaf(t) => node[t] = root[Piece1(t).at[1]]
    BY <1>0 DEF TableRight, LookLeaf
  <1>3. PageAt(Number(Piece1(t).at)) = Null
    BY <1>1, <1>2 DEF PageAt
  <1> QED BY <1>1, <1>3, MemoryFacts

\* A word into which bytes are stored that it has already is the word.
LEMMA WithSame ==
    ASSUME NEW word \in Word, NEW bytes, \A o \in DOMAIN bytes : o \in Offsets => word[o] = bytes[o]
    PROVE  With(word, bytes) = word
  BY DEF With, Word

\* An access that is done at once is a step of the flat memory.
LEMMA FlatDone ==
    ASSUME IInv, NEW t \in Threads, ThreadNext(t), pc[t] \in Doing, pc'[t] \notin Doing,
           \/ /\ Loads(Piece1(t)) /\ Memory' = Memory
              /\ answer' = [answer EXCEPT ![t] = Memory[Piece1(t).at]]
           \/ /\ ~Loads(Piece1(t)) /\ answer' = answer
              /\ Memory' = [Memory EXCEPT ![Piece1(t).at] = With(Memory[Piece1(t).at], Piece1(t).bytes)]
           \/ answer' = [answer EXCEPT ![t] = Failed] /\ Memory' = Memory
    PROVE  Flat!Next
  <1>0. TypeOK /\ TypeOK' /\ OthersKeep(t)
    BY ThreadType, ThreadOthers DEF IInv
  <1>1. Asked[t] # Null /\ Asked[t].at = Piece1(t).at /\ Asked[t].bytes = Piece1(t).bytes
    BY <1>0, AskedFacts
  <1>2. Asked'[t] = Null
    BY DEF Asked
  <1>3. Asked' = [Asked EXCEPT ![t] = Null]
    BY <1>0, <1>2, AskedOthers
  <1>4. CASE Loads(Piece1(t)) /\ Memory' = Memory /\ answer' = [answer EXCEPT ![t] = Memory[Piece1(t).at]]
    <2>1. Flat!Load(t)
      BY <1>1, <1>3, <1>4 DEF Flat!Load, Loads
    <2> QED BY <2>1 DEF Flat!Next
  <1>5. CASE /\ ~Loads(Piece1(t)) /\ answer' = answer
             /\ Memory' = [Memory EXCEPT ![Piece1(t).at] = With(Memory[Piece1(t).at], Piece1(t).bytes)]
    <2>1. \A word, bytes : Flat!With(word, bytes) = With(word, bytes)
      BY DEF With, Flat!With
    <2>2. Flat!Store(t)
      BY <1>1, <1>3, <1>5, <2>1 DEF Flat!Store, Loads
    <2> QED BY <2>2 DEF Flat!Next
  <1>6. CASE answer' = [answer EXCEPT ![t] = Failed] /\ Memory' = Memory
    <2>1. Flat!Refuse(t)
      BY <1>1, <1>3, <1>6 DEF Flat!Refuse
    <2> QED BY <2>1 DEF Flat!Next
  <1> QED BY <1>4, <1>5, <1>6

\* Zeros that are stored over zeros, by a step that stores nothing, are a store all the same.
LEMMA FlatZeros ==
    ASSUME IInv, NEW t \in Threads, ThreadNext(t), pc[t] \in Doing, pc'[t] \notin Doing,
           ~Loads(Piece1(t)), answer' = answer, content' = content,
           \A o \in DOMAIN Piece1(t).bytes : Memory[Piece1(t).at][o] = Piece1(t).bytes[o]
    PROVE  Flat!Next
  <1>1. TypeOK /\ todo[t] # << >>
    BY DEF IInv, TypeOK
  <1>2. Piece1(t).at \in Addresses
    BY <1>1, NumberFacts
  <1>3. Memory[Piece1(t).at] \in Word
    BY <1>2, MemoryFacts
  <1>4. With(Memory[Piece1(t).at], Piece1(t).bytes) = Memory[Piece1(t).at]
    BY <1>3, WithSame
  <1>5. Memory' = Memory /\ Memory = [a \in Addresses |-> Memory[a]]
    BY MemoryKept DEF Memory
  <1>6. Memory' = [Memory EXCEPT ![Piece1(t).at] = With(Memory[Piece1(t).at], Piece1(t).bytes)]
    BY <1>2, <1>4, <1>5
  <1> QED BY <1>6, FlatDone

\* Each step of a thread is one of the flat memory, or changes nothing of it.
LEMMA ThreadFlat ==
    ASSUME IInv, NEW t \in Threads, ThreadNext(t)
    PROVE  Flat!Next \/ (Memory' = Memory /\ Asked' = Asked /\ answer' = answer)
  <1>0. TypeOK /\ TypeOK' /\ OthersKeep(t) /\ CallRight(t) /\ HandRight(t) /\ PlaceRight(t)
    BY ThreadType, ThreadOthers DEF IInv
  <1>a. /\ pc \in [Threads -> Places] /\ (pc[t] \in Doing => todo[t] # << >>)
        /\ answer \in [Threads -> Word \cup {Null, Failed}] /\ todo \in [Threads -> Seq(Piece)]
    BY <1>0 DEF TypeOK
  <1>b. ASSUME content' = content, answer' = answer, pc[t] \notin Doing, pc'[t] \notin Doing
        PROVE  Memory' = Memory /\ Asked' = Asked /\ answer' = answer
    BY <1>0, <1>b, MemoryKept, AskedKeeps
  <1>c. ASSUME content' = content, answer' = answer, pc[t] \in Doing, pc'[t] \in Doing, todo' = todo
        PROVE  Memory' = Memory /\ Asked' = Asked /\ answer' = answer
    <2>1. Piece1(t)' = Piece1(t)
      BY <1>c DEF Piece1
    <2> QED BY <1>0, <1>c, <2>1, MemoryKept, AskedKeeps
  <1>1. CASE (\E call \in Calls : Begin(t, call)) \/ Throw(t) \/ Return(t)
    <2>1. content' = content /\ answer' = answer
      BY <1>1 DEF Begin, Throw, Return
    <2>2. pc[t] \notin Doing /\ pc'[t] \notin Doing
      BY <1>1, <1>a DEF Begin, Throw, Return, Goes, Doing
    <2> QED BY <1>b, <2>1, <2>2
  <1>2. CASE Note(t) \/ Mark(t)
    <2>1. /\ content' = content /\ answer' = answer /\ pc[t] \in {"note", "mark"}
          /\ Goes(t, "mark") \/ \E entry \in log[t] : Told(t, entry)
      BY <1>2 DEF Note, Mark
    <2>2. pc[t] \notin Doing /\ pc'[t] \notin Doing
      BY <1>0, <1>a, <2>1, ToldFacts DEF Goes, Doing
    <2> QED BY <1>b, <2>1, <2>2
  <1>3. CASE GoOn(t)
    <2>1. content' = content /\ answer' = [answer EXCEPT ![t] = Null] /\ pc[t] = "next"
      BY <1>3 DEF GoOn
    <2>2. pc[t] \notin Doing /\ pc'[t] \in Doing
      BY <1>3, <1>a DEF GoOn, Goes, Doing
    <2>3. Asked[t] = Null
      BY <1>0, <2>2, AskedFacts
    <2>4. Asked'[t] \in [at : Addresses, bytes : Stores]
      <3>1. todo'[t] \in Seq(Piece) /\ todo'[t] # << >>
        BY <1>0, <2>2 DEF TypeOK
      <3>2. Head(todo'[t]) \in Piece
        BY <3>1, SeqFacts
      <3>3. Head(todo'[t]).at \in Addresses /\ Head(todo'[t]).bytes \in Stores
        BY <3>2, PieceFacts
      <3>4. Asked'[t] = [at |-> Head(todo'[t]).at, bytes |-> Head(todo'[t]).bytes]
        BY <2>2 DEF Asked, Piece1
      <3> QED BY <3>3, <3>4
    <2>5. Asked' = [Asked EXCEPT ![t] = Asked'[t]]
      BY <1>0, AskedOthers
    <2>6. Memory' = Memory
      BY <2>1, MemoryKept
    <2>7. Flat!Ask(t)
      BY <2>1, <2>3, <2>4, <2>5, <2>6 DEF Flat!Ask, Flat!Access, Stores
    <2> QED BY <2>7 DEF Flat!Next
  <1>4. CASE PutNode(t) \/ NewPage(t) \/ PutPage(t) \/ LosePage(t)
    <2>1. content' = content /\ answer' = answer /\ todo' = todo
      BY <1>4 DEF PutNode, NewPage, PutPage, LosePage
    <2>2. pc[t] \in Doing /\ pc'[t] \in Doing
      BY <1>4, <1>a DEF PutNode, NewPage, PutPage, LosePage, Found, Goes, Doing
    <2> QED BY <1>c, <2>1, <2>2
  <1>5. CASE Refuse(t)
    <2>1. content' = content /\ answer' = [answer EXCEPT ![t] = Failed] /\ pc[t] \in Doing /\ pc'[t] \notin Doing
      BY <1>5, <1>a DEF Refuse, Goes, Doing
    <2>2. Memory' = Memory
      BY <2>1, MemoryKept
    <2> QED BY <2>1, <2>2, FlatDone
  <1>6. CASE Inspect(t)
    <2>1. content' = content /\ answer' = answer /\ pc[t] = "inspect" /\ pc[t] \in Doing /\ todo[t] # << >>
      BY <1>6, <1>a DEF Inspect, hands, Doing
    <2>2. CASE Goes(t, "root") /\ UNCHANGED todo
      <3>1. pc'[t] \in Doing
        BY <1>a, <2>2 DEF Goes, Doing
      <3> QED BY <1>c, <2>1, <2>2, <3>1
    <2>3. CASE /\ \A o \in DOMAIN Piece1(t).bytes : content[page[t]][Piece1(t).at[3]][o] = 0
               /\ Goes(t, "next")
      <3>1. pc'[t] \notin Doing
        BY <1>a, <2>3 DEF Goes, Doing
      <3>2. ~Loads(Piece1(t)) /\ AllZero(Piece1(t).bytes)
        BY <1>0, <2>1, Piece1Facts DEF CallRight, PlaceRight
      <3>3. Memory[Piece1(t).at] = content[page[t]][Piece1(t).at[3]]
        <4>1. Piece1(t).at \in Addresses
          BY <1>0, <2>1, NumberFacts
        <4>2. page[t] = PageAt(Number(Piece1(t).at)) /\ page[t] # Null
          BY <1>0, <2>1 DEF HandRight
        <4> QED BY <4>1, <4>2, MemoryFacts
      <3> QED BY <2>1, <2>3, <3>1, <3>2, <3>3, FlatZeros DEF AllZero
    <2> QED BY <1>6, <2>2, <2>3 DEF Inspect
  <1>7. CASE LookRoot(t) \/ LookLeaf(t)
    <2>1. content' = content /\ pc[t] \in Doing /\ todo[t] # << >>
      BY <1>7, <1>a DEF LookRoot, LookLeaf, Doing
    <2>2. CASE /\ Goes(t, "leaf") \/ Goes(t, "node") \/ Goes(t, "new") \/ \E p : Found(t, p)
               /\ UNCHANGED <<todo, answer>>
      <3>1. pc'[t] \in Doing
        BY <1>a, <2>2 DEF Goes, Found, Doing
      <3> QED BY <1>c, <2>1, <2>2, <3>1
    <2>3. CASE /\ Absent(t) /\ ~Ensures(Piece1(t))
               /\ \/ LookRoot(t) /\ root[Piece1(t).at[1]] = Null
                  \/ LookLeaf(t) /\ entries[node[t]][Piece1(t).at[2]] = Null
      <3>1. Memory[Piece1(t).at] = Zeros /\ Memory' = Memory /\ Piece1(t) \in Piece
        BY <1>0, <2>1, <2>3, LookedAbsent, MemoryKept, Piece1Facts
      <3>2. ASSUME AllZero(Piece1(t).bytes), ~Loads(Piece1(t)), answer' = answer, pc'[t] \notin Doing
            PROVE  Flat!Next
        <4>1. \A o \in DOMAIN Piece1(t).bytes : Memory[Piece1(t).at][o] = Piece1(t).bytes[o]
          BY <3>1, <3>2, ZerosFacts, PieceFacts DEF AllZero
        <4> QED BY <2>1, <3>2, <4>1, FlatZeros
      <3>3. CASE kind[t] = "zero" /\ Goes(t, "next") /\ UNCHANGED answer
        <4>1. ~Loads(Piece1(t)) /\ AllZero(Piece1(t).bytes)
          BY <1>0, <2>1, <3>3, Piece1Facts DEF CallRight
        <4>2. pc'[t] \notin Doing
          BY <1>a, <3>3 DEF Goes, Doing
        <4> QED BY <3>2, <3>3, <4>1, <4>2
      <3>4. CASE /\ todo' = [todo EXCEPT ![t] = <<Slowly(Piece1(t))>> \o Tail(todo[t])]
                 /\ Goes(t, "root") /\ UNCHANGED answer
        <4>1. pc'[t] \in Doing
          BY <1>a, <3>4 DEF Goes, Doing
        <4>2. Head(<<Slowly(Piece1(t))>> \o Tail(todo[t])) = Slowly(Piece1(t))
          BY <1>0, <2>1, <3>1, Piece1Facts, PieceFacts
        <4>3. Piece1(t)' = Slowly(Piece1(t))
          BY <1>a, <3>4, <4>2 DEF Piece1
        <4>4. Piece1(t)'.at = Piece1(t).at /\ Piece1(t)'.bytes = Piece1(t).bytes
          BY <4>3 DEF Slowly
        <4> QED BY <1>0, <2>1, <3>1, <3>4, <4>1, <4>4, AskedKeeps
      <3>5. CASE Loads(Piece1(t)) /\ Loaded(t, Zeros)
        <4>1. pc'[t] \notin Doing /\ answer' = [answer EXCEPT ![t] = Zeros]
          BY <1>a, <3>5 DEF Loaded, Goes, Doing
        <4> QED BY <2>1, <3>1, <3>5, <4>1, FlatDone
      <3>6. CASE Piece1(t).way # "fast" /\ ~Loads(Piece1(t)) /\ Stored(t)
        <4>1. pc'[t] \notin Doing /\ answer' = answer
          BY <1>a, <3>6 DEF Stored, Goes, Doing
        <4>2. AllZero(Piece1(t).bytes)
          BY <2>3, <3>6 DEF Ensures
        <4> QED BY <3>2, <3>6, <4>1, <4>2
      <3> QED BY <2>3, <3>3, <3>4, <3>5, <3>6 DEF Absent
    <2> QED BY <1>7, <2>2, <2>3 DEF LookRoot, LookLeaf
  <1>8. CASE AtWord(t) \/ Exchange(t)
    <2> DEFINE word == content[page[t]][Piece1(t).at[3]]
    <2>1. UNCHANGED table /\ pc[t] \in Doing /\ todo[t] # << >> /\ pc[t] \in {"word", "exchange"}
      BY <1>8, <1>a DEF AtWord, Exchange, Doing
    <2>2. Memory[Piece1(t).at] = word /\ Piece1(t).at \in Addresses
      <3>1. Piece1(t).at \in Addresses
        BY <1>0, <2>1, NumberFacts
      <3>2. page[t] = PageAt(Number(Piece1(t).at)) /\ page[t] # Null
        BY <1>0, <2>1 DEF HandRight
      <3> QED BY <3>1, <3>2, MemoryFacts
    <2> HIDE DEF word
    <2>3. ASSUME Puts(t, With(word, Piece1(t).bytes)), ~Loads(Piece1(t)) PROVE Flat!Next
      <3>1. pc'[t] \notin Doing /\ answer' = answer
        BY <1>a, <2>3 DEF Puts, Stored, Goes, Doing
      <3>2. Memory' = [Memory EXCEPT ![Piece1(t).at] = With(word, Piece1(t).bytes)]
        BY <2>1, <2>3, MemoryPut DEF Puts
      <3> QED BY <2>1, <2>2, <2>3, <3>1, <3>2, FlatDone
    <2>4. CASE Loads(Piece1(t)) /\ Loaded(t, word) /\ UNCHANGED content
      <3>1. pc'[t] \notin Doing /\ answer' = [answer EXCEPT ![t] = word]
        BY <1>a, <2>4 DEF Loaded, Goes, Doing
      <3> QED BY <2>1, <2>2, <2>4, <3>1, MemoryKept, FlatDone
    <2>5. CASE (Goes(t, "exchange") \/ (UNCHANGED pc)) /\ UNCHANGED <<content, todo, answer>>
      <3>1. pc'[t] \in Doing
        BY <1>a, <2>1, <2>5 DEF Goes, Doing
      <3> QED BY <1>c, <2>1, <2>5, <3>1
    <2>6. CASE AtWord(t)
      BY <2>3, <2>4, <2>5, <2>6 DEF AtWord, word
    <2>7. CASE Exchange(t)
      <3>1. ~Loads(Piece1(t))
        BY <1>0, <2>7 DEF PlaceRight, Exchange
      <3>2. \/ word = expected[t] /\ Puts(t, With(expected[t], Piece1(t).bytes))
            \/ UNCHANGED <<content, pc, todo, answer>>
        BY <2>7 DEF Exchange, word
      <3> QED BY <2>3, <2>5, <3>1, <3>2
    <2> QED BY <1>8, <2>6, <2>7
  <1> QED BY <1>1, <1>2, <1>3, <1>4, <1>5, <1>6, <1>7, <1>8 DEF ThreadNext

\* The memory that threads share without a lock is one map of words to them: each load and
\* store of a word, aligned or not, by call or by compiled code, happens at once, whatever
\* pages and nodes others make at the same time (obligations 7, 10, 12 and 14).
THEOREM MemoryImplementsFlat == Spec => ImplementsFlat
  <1>1. Init => Flat!Init
    <2> SUFFICES ASSUME Init PROVE Flat!Init
      OBVIOUS
    <2>1. \A a \in Addresses : Number(a)[1] \in Indices
      BY DEF Number, Addresses
    <2>2. \A a \in Addresses : PageAt(Number(a)) = Null
      BY <2>1 DEF Init, PageAt
    <2>3. Memory = [a \in Addresses |-> Zeros]
      BY <2>2 DEF Memory
    <2>4. Asked = [t \in Threads |-> Null]
      BY DEF Init, Asked, Doing
    <2>5. Flat!Zeros = Zeros
      BY DEF Flat!Zeros, Zeros
    <2> QED BY <2>3, <2>4, <2>5 DEF Flat!Init, Init
  <1>2. IInv /\ [Next]_vars => [Flat!Next]_(Flat!flatVars)
    <2> SUFFICES ASSUME IInv, [Next]_vars PROVE Flat!Next \/ (Memory' = Memory /\ Asked' = Asked /\ answer' = answer)
      BY DEF Flat!flatVars
    <2>1. CASE \E t \in Threads : ThreadNext(t)
      BY <2>1, ThreadFlat
    <2>2. ASSUME UNCHANGED <<table, pc, todo, answer>>, content' = content
          PROVE  Memory' = Memory /\ Asked' = Asked /\ answer' = answer
      <3>1. root' = root /\ entries' = entries /\ pc' = pc /\ todo' = todo /\ content' = content
        BY <2>2 DEF table
      <3> QED BY <2>2, <3>1 DEF Memory, Asked, PageAt, Piece1
    <2>3. CASE (\E number \in Numbers : Trim(number)) \/ BeginStep \/ EndStep
      BY <2>2, <2>3, MemoryKeeps
    <2>4. CASE UNCHANGED vars
      BY <2>2, <2>4 DEF vars
    <2> QED BY <2>1, <2>3, <2>4 DEF Next
  <1> QED BY <1>1, <1>2, InvAlways, PTL DEF Spec, ImplementsFlat, Flat!Spec
=============================================================================
