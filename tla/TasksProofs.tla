---------------------------- MODULE TasksProofs -----------------------------
(***************************************************************************)
(* Proofs about Tasks and Chunking, for every text, size, overlap and      *)
(* strategy, and every list of labels: chunking loses nothing, keeps to    *)
(* the size and makes progress, and the offline classifier gives a best    *)
(* label.                                                                  *)
(***************************************************************************)
EXTENDS Tasks, SequenceTheorems, NaturalsInduction, WellFoundedInduction, TLAPS

-----------------------------------------------------------------------------
(* The inductive invariant of chunking.                                     *)

\* The overlap with which _chunk_fixed is run.
Target == Overlap(IF call.strategy = "structural" THEN call.size \div 8
                  ELSE call.overlap)

\* Where the loops stand.
LoopInv ==
    /\ done => i > Len(pieces) /\ ~cutting
    /\ cutting => /\ i <= Len(pieces) /\ pieces[i] > 0 /\ lap = Target
                  /\ call.strategy # "semantic"
                  /\ call.size > 0 => 0 <= start /\ start < pieces[i]
                  /\ call.size <= 0 => start <= 0
    /\ call.size <= 0 /\ call.strategy # "semantic" =>
          \A p \in 1 .. i - 1 : pieces[p] = 0
    /\ call.strategy = "fixed" => \A p \in DOMAIN pieces : pieces[p] > 0
    /\ call.strategy # "semantic" => current = Blank

\* The sentences that are in no chunk yet.
CurrentInv ==
    current # Blank =>
        /\ 1 <= current.first /\ current.first <= current.last /\ current.last < i
        /\ current.from = 0
        /\ current.first = current.last => current.to = pieces[current.first]
        /\ call.size > 0 => current.first = current.last \/ current.to <= call.size

\* What was read is in a chunk, or will be in the next one.
Kept(p, x) ==
    \/ \E k \in DOMAIN chunks : Holds(chunks[k], p, x)
    \/ ~done /\ Holds(current, p, x)

CoverInv ==
    /\ \A p \in 1 .. i - 1 : \A x \in 0 .. pieces[p] - 1 : Kept(p, x)
    /\ cutting => \A x \in 0 .. start - 1 : Kept(i, x)

\* The chunk before the one that comes next, for a chunk that is positive.
Links(z) ==
    IF current # Blank THEN z.last < current.first
    ELSE \/ z.last < i
         \/ /\ cutting /\ start > 0
            /\ z.first = i /\ z.last = i
            /\ z.from < start /\ z.to = start + lap /\ z.to < pieces[i]

Follows(b, c) ==
    \/ b.last < c.first
    \/ /\ b.first = c.first
       /\ b.from < c.from /\ b.to < c.to
       /\ b.to - c.from = lap /\ lap = Target

LinkInv ==
    call.size > 0 =>
        /\ \A k \in 2 .. Len(chunks) : Follows(chunks[k - 1], chunks[k])
        /\ chunks # <<>> /\ ~done => Links(chunks[Len(chunks)])

\* A sentence that opens a chunk did not fit into the one before.
GreedyInv ==
    call.strategy = "semantic" =>
        /\ \A k \in 2 .. Len(chunks) :
              chunks[k - 1].to + 1 + pieces[chunks[k].first] > call.size
        /\ chunks # <<>> /\ ~done =>
              chunks[Len(chunks)].to + 1
                  + (IF current = Blank THEN 0 ELSE pieces[current.first]) > call.size

ChunkInv == /\ ChunkTypeOK /\ LoopInv /\ CurrentInv
            /\ CoverInv /\ SizeKept /\ LinkInv /\ GreedyInv
-----------------------------------------------------------------------------
(* Facts about the arguments and about sequences.                           *)

\* An overlap that is used is smaller than a chunk, and no smaller than a
\* size for which the loop does not end.
LEMMA OverlapFacts ==
    ASSUME NEW size \in Int, NEW o \in Int, size > 0 => o >= 0
    PROVE  LET v == IF o >= size THEN size \div 4 ELSE o
           IN  /\ v \in Int
               /\ size > 0 => 0 <= v /\ v < size
               /\ size <= 0 /\ (o >= 0 \/ o = size \div 8) => size <= v
<1>1. size \div 4 \in Int /\ size \div 8 \in Int
  OBVIOUS
<1>2. size > 0 => 0 <= size \div 4 /\ size \div 4 < size
  OBVIOUS
<1>3. size <= 0 => size <= size \div 4 /\ size <= size \div 8
  OBVIOUS
<1> QED BY <1>1, <1>2, <1>3

LEMMA CallFacts ==
    ASSUME call \in Calls
    PROVE  /\ call.size \in Int /\ call.overlap \in Nat
           /\ call.strategy \in {"fixed", "structural", "semantic"}
           /\ Target \in Int
           /\ call.size > 0 => 0 <= Target /\ Target < call.size
           /\ call.size <= 0 => call.size <= Target
<1>1. /\ call.size \in Int /\ call.overlap \in Nat
      /\ call.strategy \in {"fixed", "structural", "semantic"}
  BY ChunkingAssumption
<1> DEFINE o == IF call.strategy = "structural" THEN call.size \div 8 ELSE call.overlap
<1>2. /\ o \in Int /\ call.size > 0 => o >= 0
      /\ o >= 0 \/ o = call.size \div 8
  BY <1>1
<1>3. Target = IF o >= call.size THEN call.size \div 4 ELSE o
  BY DEF Target, Overlap
<1> HIDE DEF o
<1> QED BY <1>1, <1>2, <1>3, OverlapFacts

\* What an appended chunk changes.
LEMMA AppendFacts ==
    ASSUME NEW S, NEW seq \in Seq(S), NEW c \in S
    PROVE  /\ Append(seq, c) \in Seq(S) /\ Append(seq, c) # <<>>
           /\ Len(seq) \in Nat /\ Len(Append(seq, c)) = Len(seq) + 1
           /\ DOMAIN seq = 1 .. Len(seq)
           /\ DOMAIN Append(seq, c) = 1 .. Len(seq) + 1
           /\ \A k \in 1 .. Len(seq) : Append(seq, c)[k] = seq[k]
           /\ Append(seq, c)[Len(seq) + 1] = c
<1>1. /\ Append(seq, c) \in Seq(S)
      /\ Len(Append(seq, c)) = Len(seq) + 1
      /\ \A k \in 1 .. Len(seq) : Append(seq, c)[k] = seq[k]
      /\ Append(seq, c)[Len(seq) + 1] = c
  BY AppendProperties
<1>2. Len(seq) \in Nat /\ DOMAIN seq = 1 .. Len(seq)
  BY LenProperties
<1>3. DOMAIN Append(seq, c) = 1 .. Len(seq) + 1
  BY <1>1, LenProperties
<1>4. Append(seq, c) # <<>>
  BY <1>1, <1>2, EmptySeq
<1> QED BY <1>1, <1>2, <1>3, <1>4

\* The last chunk of chunk_text.
LEMMA ReturnFacts ==
    ASSUME ChunkTypeOK, Return
    PROVE  chunks' = IF current = Blank THEN chunks ELSE Append(chunks, current)
<1>1. chunks \in Seq(Chunk) /\ current \in Chunk /\ chunks' = chunks \o LastChunk
  BY DEF ChunkTypeOK, Return
<1>2. CASE current = Blank
  BY <1>1, <1>2, ConcatEmptySeq DEF LastChunk
<1>3. CASE current # Blank
  BY <1>1, <1>3, AppendIsConcat DEF LastChunk
<1> QED BY <1>2, <1>3

\* The chunk that one turn of _chunk_fixed cuts.
CutEnd == Smaller(start + call.size, pieces[i])

CutChunk == [first |-> i, last |-> i,
             from |-> Clipped(start, pieces[i]), to |-> Clipped(CutEnd, pieces[i])]

LEMMA CutFacts ==
    ASSUME ChunkTypeOK, LoopInv, Cut
    PROVE  /\ cutting /\ ~done /\ ~done' /\ i \in Nat \ {0} /\ i <= Len(pieces)
           /\ pieces[i] \in Nat \ {0} /\ CutEnd \in Int /\ start \in Int
           /\ CutChunk \in Chunk /\ chunks' = Append(chunks, CutChunk)
           /\ \/ CutEnd >= pieces[i] /\ i' = i + 1 /\ cutting' = FALSE /\ start' = start
              \/ /\ CutEnd < pieces[i] /\ i' = i /\ cutting' = cutting
                 /\ start' = CutEnd - lap /\ CutEnd = start + call.size
           /\ UNCHANGED <<pieces, call, lap, current>>
           /\ call.size > 0 =>
                 /\ 0 <= start /\ start < CutEnd /\ CutEnd <= pieces[i]
                 /\ CutEnd <= start + call.size
                 /\ CutChunk.from = start /\ CutChunk.to = CutEnd
           /\ call.size <= 0 => CutEnd <= 0 /\ CutEnd < pieces[i] /\ start' <= 0
<1>1. /\ cutting /\ ~done /\ pieces \in Seq(Nat) /\ call \in Calls
      /\ i \in Nat \ {0} /\ i <= Len(pieces) /\ start \in Int /\ pieces[i] > 0
      /\ lap = Target
  BY LenProperties DEF ChunkTypeOK, LoopInv, Cut
<1>2. pieces[i] \in Nat \ {0}
  <2>1. i \in 1 .. Len(pieces) /\ Len(pieces) \in Nat
    BY <1>1, LenProperties
  <2>2. pieces[i] \in Nat
    BY <1>1, <2>1, ElementOfSeq
  <2> QED BY <1>1, <2>2
<1>3. call.size \in Int
  BY <1>1, CallFacts
<1>4. /\ CutEnd \in Int /\ CutEnd <= pieces[i] /\ CutEnd <= start + call.size
      /\ CutEnd < pieces[i] => CutEnd = start + call.size
      /\ CutEnd = pieces[i] \/ CutEnd = start + call.size
  BY <1>1, <1>2, <1>3 DEF CutEnd, Smaller
<1>5. CutChunk \in Chunk
  <2>1. \A x \in Int : Clipped(x, pieces[i]) \in Nat
    BY <1>2 DEF Clipped, Smaller
  <2> QED BY <1>1, <1>4, <2>1 DEF CutChunk, Chunk
<1>6. /\ chunks' = Append(chunks, CutChunk)
      /\ UNCHANGED <<pieces, call, lap, current, done>>
      /\ IF CutEnd >= pieces[i]
         THEN i' = i + 1 /\ cutting' = FALSE /\ start' = start
         ELSE start' = CutEnd - lap /\ UNCHANGED <<i, cutting>>
  BY DEF Cut, CutEnd, CutChunk, NextStart, AtEnd
<1>7. \/ CutEnd >= pieces[i] /\ i' = i + 1 /\ cutting' = FALSE /\ start' = start
      \/ /\ CutEnd < pieces[i] /\ i' = i /\ cutting' = cutting
         /\ start' = CutEnd - lap /\ CutEnd = start + call.size
  <2>1. CutEnd >= pieces[i] \/ (~(CutEnd >= pieces[i]) /\ CutEnd < pieces[i])
    BY <1>2, <1>4
  <2> QED BY <1>4, <1>6, <2>1
<1>8. ASSUME call.size > 0
      PROVE  /\ 0 <= start /\ start < CutEnd /\ CutEnd <= pieces[i]
             /\ CutEnd <= start + call.size
             /\ CutChunk.from = start /\ CutChunk.to = CutEnd
  <2>1. 0 <= start /\ start < pieces[i]
    BY <1>1, <1>8 DEF LoopInv
  <2>2. start < CutEnd
    BY <1>1, <1>2, <1>3, <1>4, <1>8, <2>1
  <2>3. Clipped(start, pieces[i]) = start /\ Clipped(CutEnd, pieces[i]) = CutEnd
    BY <1>1, <1>2, <1>4, <2>1, <2>2 DEF Clipped, Smaller
  <2>4. CutChunk.from = start /\ CutChunk.to = CutEnd
    BY <2>3 DEF CutChunk
  <2> QED BY <1>4, <2>1, <2>2, <2>4
<1>9. ASSUME call.size <= 0
      PROVE  CutEnd <= 0 /\ CutEnd < pieces[i] /\ start' <= 0
  <2>1. start <= 0
    BY <1>1, <1>9 DEF LoopInv
  <2>2. CutEnd <= 0 /\ CutEnd < pieces[i] /\ CutEnd = start + call.size
    BY <1>1, <1>2, <1>3, <1>4, <1>9, <2>1
  <2>3. Target \in Int /\ call.size <= Target
    BY <1>1, <1>9, CallFacts
  <2>4. CutEnd - lap <= 0
    BY <1>1, <1>3, <2>1, <2>2, <2>3
  <2>5. start' = CutEnd - lap
    BY <1>2, <1>4, <1>7, <2>2
  <2> QED BY <2>2, <2>4, <2>5
<1> QED BY <1>1, <1>2, <1>4, <1>5, <1>6, <1>7, <1>8, <1>9
-----------------------------------------------------------------------------
(* What the actions do.                                                     *)

LEMMA MoreFacts ==
    ASSUME ChunkTypeOK, More
    PROVE  /\ i \in Nat \ {0} /\ Len(pieces) \in Nat /\ i <= Len(pieces)
           /\ i + 1 \in 1 .. Len(pieces) + 1
           /\ pieces[i] \in Nat /\ ~done /\ ~cutting
           /\ Blank \in Chunk /\ Whole(i) \in Chunk /\ SentenceOf(i) \in Chunk
           /\ Whole(i) # Blank
<1>1. /\ i \in Nat \ {0} /\ Len(pieces) \in Nat /\ i <= Len(pieces)
      /\ i + 1 \in 1 .. Len(pieces) + 1
      /\ ~done /\ ~cutting /\ pieces \in Seq(Nat)
  BY LenProperties DEF ChunkTypeOK, More
<1>2. pieces[i] \in Nat
  <2>1. i \in 1 .. Len(pieces)
    BY <1>1
  <2> QED BY <1>1, <2>1, ElementOfSeq
<1>3. Blank \in Chunk /\ Whole(i) \in Chunk /\ SentenceOf(i) \in Chunk
  BY <1>1, <1>2 DEF Blank, Whole, SentenceOf, Chunk
<1>4. Whole(i) # Blank
  <2>1. Whole(i).first = i /\ Blank.first = 0
    BY DEF Whole, Blank
  <2> QED BY <1>1, <2>1
<1> QED BY <1>1, <1>2, <1>3, <1>4

\* A sentence that is joined to those that are in no chunk yet.
Joined(c, p, n) == [c EXCEPT !.last = p, !.to = @ + 1 + n]

LEMMA JoinFacts ==
    ASSUME NEW c \in Chunk, NEW n \in Nat, NEW p \in Nat
    PROVE  /\ Joined(c, p, n) \in Chunk
           /\ Joined(c, p, n).first = c.first /\ Joined(c, p, n).last = p
           /\ Joined(c, p, n).from = c.from /\ Joined(c, p, n).to = c.to + 1 + n
<1>1. PICK f \in Nat, l \in Nat, g \in Nat, t \in Nat :
          c = [first |-> f, last |-> l, from |-> g, to |-> t]
  BY DEF Chunk
<1>2. [c EXCEPT !.last = p] = [first |-> f, last |-> p, from |-> g, to |-> t]
  BY <1>1
<1>3. Joined(c, p, n) = [first |-> f, last |-> p, from |-> g, to |-> t + 1 + n]
  <2>1. \A v : [[first |-> f, last |-> p, from |-> g, to |-> t] EXCEPT !.to = v] =
                [first |-> f, last |-> p, from |-> g, to |-> v]
    OBVIOUS
  <2>2. c.to = t
    BY <1>1
  <2>3. Joined(c, p, n) = [[c EXCEPT !.last = p] EXCEPT !.to = c.to + 1 + n]
    BY <1>1, <1>2 DEF Joined
  <2> QED BY <1>2, <2>1, <2>2, <2>3, Zenon
<1>4. t + 1 + n \in Nat
  OBVIOUS
<1> QED BY <1>1, <1>3, <1>4 DEF Chunk

LEMMA EnterFacts ==
    ASSUME ChunkTypeOK, LoopInv, Fixed \/ LongBlock
    PROVE  /\ More /\ call.strategy # "semantic" /\ pieces[i] > 0
           /\ lap' = Target /\ start' = 0 /\ cutting' = TRUE
           /\ UNCHANGED <<pieces, call, i, current, chunks, done>>
<1>1. CASE Fixed
  <2>1. pieces[i] > 0
    <3>1. i \in Nat \ {0} /\ i <= Len(pieces) /\ Len(pieces) \in Nat /\ pieces \in Seq(Nat)
      BY <1>1, MoreFacts DEF Fixed, ChunkTypeOK
    <3>2. i \in DOMAIN pieces
      BY <3>1, LenProperties
    <3> QED BY <1>1, <3>2 DEF Fixed, LoopInv
  <2> QED BY <1>1, <2>1 DEF Fixed, EnterFixed, Target
<1>2. CASE LongBlock
  BY <1>2 DEF LongBlock, EnterFixed, Target
<1> QED BY <1>1, <1>2

\* Reading a piece without cutting it.
LEMMA ReadFacts ==
    ASSUME BlankBlock \/ ShortBlock \/ Flush \/ Join
    PROVE  /\ More /\ i' = i + 1
           /\ UNCHANGED <<pieces, call, lap, cutting, start, done>>
BY DEF BlankBlock, ShortBlock, Flush, Join

\* No action changes the arguments.
LEMMA ArgumentsStay ==
    ASSUME ChunkNext
    PROVE  pieces' = pieces /\ call' = call /\ Target' = Target
<1>1. pieces' = pieces /\ call' = call
  BY DEF ChunkNext, Fixed, EnterFixed, Cut, BlankBlock, ShortBlock, LongBlock,
     Flush, Join, Return
<1> QED BY <1>1 DEF Target, Overlap

-----------------------------------------------------------------------------
(* The invariant of chunking is inductive.                                  *)

LEMMA ChunkInitially == ChunkInit => ChunkInv
<1> SUFFICES ASSUME ChunkInit PROVE ChunkInv
  OBVIOUS
<1> USE DEF ChunkInit
<1>1. /\ pieces \in Seq(Nat) /\ call \in Calls /\ Len(pieces) \in Nat
      /\ DOMAIN pieces = 1 .. Len(pieces)
  BY ChunkingAssumption, LenProperties
<1>2. chunks = <<>> /\ chunks \in Seq(Chunk) /\ Len(chunks) = 0 /\ DOMAIN chunks = {}
  BY EmptySeq, LenProperties
<1>3. ChunkTypeOK
  <2>1. i \in 1 .. Len(pieces) + 1
    BY <1>1
  <2>2. Blank \in Chunk
    BY DEF Blank, Chunk
  <2>3. lap = 0 /\ cutting = FALSE /\ start = 0 /\ current = Blank /\ done = FALSE
    OBVIOUS
  <2> HIDE DEF ChunkInit
  <2>4. lap \in Int /\ start \in Int /\ cutting \in BOOLEAN /\ done \in BOOLEAN
    <3>1. lap \in Int /\ start \in Int
      BY <2>3
    <3>2. cutting \in BOOLEAN /\ done \in BOOLEAN
      BY <2>3, Zenon
    <3> QED BY <3>1, <3>2
  <2>5. current \in Chunk
    BY <2>2, <2>3
  <2> QED BY <1>1, <1>2, <2>1, <2>4, <2>5 DEF ChunkTypeOK
<1>4. LoopInv
  <2>1. call.strategy = "fixed" => \A p \in DOMAIN pieces : pieces[p] > 0
    <3> SUFFICES ASSUME call.strategy = "fixed", NEW p \in DOMAIN pieces
                 PROVE  pieces[p] > 0
      OBVIOUS
    <3>1. pieces # <<>>
      BY <1>1, LenProperties, EmptySeq
    <3>2. p = 1
      BY <1>1, <3>1
    <3> QED BY <3>1, <3>2
  <2> QED BY <2>1 DEF LoopInv
<1>5. CurrentInv /\ CoverInv /\ SizeKept /\ LinkInv /\ GreedyInv
  BY <1>2 DEF CurrentInv, CoverInv, SizeKept, LinkInv, GreedyInv
<1> QED BY <1>3, <1>4, <1>5 DEF ChunkInv

LEMMA ChunkTypeStep == ChunkInv /\ ChunkNext => ChunkTypeOK'
<1> SUFFICES ASSUME ChunkInv, ChunkNext PROVE ChunkTypeOK'
  OBVIOUS
<1>1. ChunkTypeOK /\ LoopInv /\ chunks \in Seq(Chunk) /\ current \in Chunk
  BY DEF ChunkInv, ChunkTypeOK
<1>2. CASE Fixed \/ LongBlock
  <2>1. lap' \in Int
    BY <1>1, <1>2, EnterFacts, CallFacts DEF ChunkTypeOK
  <2>2. /\ start' = 0 /\ cutting' = TRUE
        /\ UNCHANGED <<pieces, call, i, current, chunks, done>>
    BY <1>1, <1>2, EnterFacts
  <2> QED BY <1>1, <2>1, <2>2 DEF ChunkTypeOK
<1>3. CASE Cut
  <2>1. chunks' \in Seq(Chunk)
    <3>1. CutChunk \in Chunk /\ chunks' = Append(chunks, CutChunk)
      BY <1>1, <1>3, CutFacts
    <3> QED BY <1>1, <3>1, AppendFacts
  <2>2. /\ i \in Nat \ {0} /\ i <= Len(pieces) /\ Len(pieces) \in Nat
        /\ i' = i \/ i' = i + 1
        /\ cutting' = FALSE \/ cutting' = cutting
        /\ start' = start \/ start' = CutEnd - lap
        /\ CutEnd \in Int /\ lap \in Int
        /\ UNCHANGED <<pieces, call, lap, current>> /\ done' = done
    BY <1>1, <1>3, CutFacts, LenProperties DEF ChunkTypeOK, Cut
  <2>3. i' \in 1 .. Len(pieces) + 1 /\ start' \in Int
    BY <1>1, <2>2 DEF ChunkTypeOK
  <2> QED BY <1>1, <2>1, <2>2, <2>3 DEF ChunkTypeOK
<1>4. CASE BlankBlock \/ ShortBlock \/ Flush \/ Join
  <2>1. /\ i' \in 1 .. Len(pieces) + 1
        /\ UNCHANGED <<pieces, call, lap, cutting, start, done>>
    BY <1>1, <1>4, ReadFacts, MoreFacts
  <2>2. More
    BY <1>4, ReadFacts
  <2>3. /\ i \in Nat /\ pieces[i] \in Nat
        /\ Whole(i) \in Chunk /\ SentenceOf(i) \in Chunk
    BY <1>1, <2>2, MoreFacts
  <2>4. chunks' \in Seq(Chunk)
    <3>1. \/ chunks' = chunks
          \/ chunks' = Append(chunks, Whole(i))
          \/ chunks' = Append(chunks, current)
      BY <1>4 DEF BlankBlock, ShortBlock, Flush, Join
    <3>2. Append(chunks, Whole(i)) \in Seq(Chunk) /\ Append(chunks, current) \in Seq(Chunk)
      BY <1>1, <2>3, AppendFacts
    <3> QED BY <1>1, <3>1, <3>2
  <2>5. Joined(current, i, pieces[i]) \in Chunk
    BY <1>1, <2>3, JoinFacts
  <2>6. current' \in Chunk
    BY <1>1, <1>4, <2>3, <2>5 DEF BlankBlock, ShortBlock, Flush, Join, Joined
  <2> QED BY <1>1, <2>1, <2>4, <2>6 DEF ChunkTypeOK
<1>5. CASE Return
  <2>1. chunks' \in Seq(Chunk)
    BY <1>1, <1>5, ReturnFacts, AppendFacts
  <2> QED BY <1>1, <1>5, <2>1 DEF Return, ChunkTypeOK
<1> QED BY <1>2, <1>3, <1>4, <1>5 DEF ChunkNext

LEMMA LoopStep == ChunkInv /\ ChunkNext => LoopInv'
<1> SUFFICES ASSUME ChunkInv, ChunkNext PROVE LoopInv'
  OBVIOUS
<1>1. ChunkTypeOK /\ LoopInv /\ call \in Calls
  BY DEF ChunkInv, ChunkTypeOK
<1>2. pieces' = pieces /\ call' = call /\ Target' = Target
  BY ArgumentsStay
<1>3. /\ i \in Nat \ {0} /\ Len(pieces) \in Nat
      /\ call.size \in Int /\ Target \in Int
      /\ call.size > 0 => 0 <= Target /\ Target < call.size
  <2>1. i \in 1 .. Len(pieces) + 1 /\ Len(pieces) \in Nat
    BY <1>1, LenProperties DEF ChunkTypeOK
  <2> QED BY <1>1, <2>1, CallFacts
<1>4. CASE Fixed \/ LongBlock
  <2>1. /\ More /\ call.strategy # "semantic" /\ pieces[i] > 0
        /\ lap' = Target /\ start' = 0 /\ cutting' = TRUE
        /\ UNCHANGED <<i, current, done>>
    BY <1>1, <1>4, EnterFacts
  <2>2. ~done /\ i <= Len(pieces)
    BY <1>1, <2>1, MoreFacts
  <2> QED BY <1>1, <1>2, <1>3, <2>1, <2>2 DEF LoopInv
<1>5. CASE Cut
  <2>1. /\ cutting /\ ~done' /\ i <= Len(pieces) /\ pieces[i] \in Nat \ {0}
        /\ CutEnd \in Int /\ start \in Int
        /\ \/ CutEnd >= pieces[i] /\ i' = i + 1 /\ cutting' = FALSE /\ start' = start
           \/ /\ CutEnd < pieces[i] /\ i' = i /\ cutting' = cutting
              /\ start' = CutEnd - lap /\ CutEnd = start + call.size
        /\ lap' = lap /\ current' = current
        /\ call.size > 0 => 0 <= start /\ start < CutEnd
        /\ call.size <= 0 => CutEnd < pieces[i] /\ start' <= 0
    BY <1>1, <1>5, CutFacts
  <2>2. lap = Target /\ call.strategy # "semantic"
    BY <1>1, <2>1 DEF LoopInv
  <2>3. CASE CutEnd >= pieces[i] /\ i' = i + 1 /\ cutting' = FALSE
    <3>1. call.size > 0
      BY <1>3, <2>1, <2>3
    <3> QED BY <1>1, <1>2, <1>3, <2>1, <2>2, <2>3, <3>1 DEF LoopInv
  <2>4. CASE /\ CutEnd < pieces[i] /\ i' = i /\ cutting' = cutting
             /\ start' = CutEnd - lap /\ CutEnd = start + call.size
    <3>1. ASSUME call.size > 0
          PROVE  0 <= start' /\ start' < pieces[i]
      <4>1. /\ CutEnd \in Int /\ start \in Int /\ lap \in Int /\ call.size \in Int
            /\ pieces[i] \in Int
        BY <1>3, <2>1, <2>2
      <4>2. 0 <= start /\ 0 <= lap /\ lap < call.size
        BY <1>3, <2>1, <2>2, <3>1
      <4>3. 0 <= CutEnd - lap /\ CutEnd - lap < pieces[i]
        BY <2>4, <4>1, <4>2
      <4> QED BY <2>4, <4>3
    <3> QED BY <1>1, <1>2, <1>3, <2>1, <2>2, <2>4, <3>1 DEF LoopInv
  <2> QED BY <2>1, <2>3, <2>4
<1>6. CASE BlankBlock \/ ShortBlock \/ Flush \/ Join
  <2>1. /\ More /\ i' = i + 1 /\ UNCHANGED <<cutting, done>>
        /\ ~cutting /\ ~done /\ pieces[i] \in Nat
    BY <1>1, <1>6, ReadFacts, MoreFacts
  <2>2. call.size <= 0 /\ call.strategy # "semantic" => pieces[i] = 0
    BY <1>3, <1>6, <2>1 DEF BlankBlock, ShortBlock, Flush, Join
  <2>3. call.strategy # "semantic" => current' = current
    BY <1>6 DEF BlankBlock, ShortBlock, Flush, Join
  <2>4. \A p \in 1 .. i' - 1 : p \in 1 .. i - 1 \/ p = i
    BY <1>3, <2>1
  <2> QED BY <1>1, <1>2, <2>1, <2>2, <2>3, <2>4 DEF LoopInv
<1>7. CASE Return
  BY <1>1, <1>2, <1>7 DEF Return, LoopInv
<1> QED BY <1>4, <1>5, <1>6, <1>7 DEF ChunkNext

LEMMA CurrentStep == ChunkInv /\ ChunkNext => CurrentInv'
<1> SUFFICES ASSUME ChunkInv, ChunkNext PROVE CurrentInv'
  OBVIOUS
<1>1. ChunkTypeOK /\ LoopInv /\ CurrentInv /\ current \in Chunk
  BY DEF ChunkInv, ChunkTypeOK
<1>2. pieces' = pieces /\ call' = call
  BY ArgumentsStay
<1>3. /\ i \in Nat
      /\ current.first \in Nat /\ current.last \in Nat /\ current.to \in Nat
      /\ call.size \in Int
  BY <1>1, CallFacts DEF ChunkTypeOK, Chunk
<1>4. CASE current' = current /\ (i' = i \/ i' = i + 1)
  <2>1. current.last < i => current.last < i'
    BY <1>3, <1>4
  <2> QED BY <1>1, <1>2, <1>4, <2>1 DEF CurrentInv
<1>5. CASE Fixed \/ LongBlock \/ Cut \/ BlankBlock \/ ShortBlock \/ Return
  <2>1. current' = current /\ (i' = i \/ i' = i + 1)
    BY <1>1, <1>5, CutFacts
    DEF Fixed, LongBlock, EnterFixed, BlankBlock, ShortBlock, Return
  <2> QED BY <1>4, <2>1
<1>6. CASE current' = Whole(i) /\ i' = i + 1 /\ More
  <2>1. i \in Nat \ {0} /\ i < i + 1
    BY <1>1, <1>6, MoreFacts
  <2>2. /\ Whole(i).first = i /\ Whole(i).last = i /\ Whole(i).from = 0
        /\ Whole(i).to = pieces[i]
    BY DEF Whole
  <2> QED BY <1>2, <1>6, <2>1, <2>2 DEF CurrentInv
<1>7. CASE current' = Blank
  BY <1>7 DEF CurrentInv
<1>8. CASE Flush
  <2>1. More /\ i' = i + 1 /\ (current' = Whole(i) \/ current' = Blank)
    BY <1>8 DEF Flush, SentenceOf
  <2> QED BY <1>6, <1>7, <2>1
<1>9. CASE Join
  <2> DEFINE joined == Joined(current, i, pieces[i])
  <2>1. /\ More /\ i' = i + 1 /\ ~IsFull
        /\ \/ current' = current
           \/ current' = Whole(i)
           \/ current # Blank /\ current' = joined
    BY <1>9 DEF Join, Joined
  <2>2. CASE current # Blank /\ current' = joined
    <3>1. i \in Nat \ {0} /\ pieces[i] \in Nat
      BY <1>1, <2>1, MoreFacts
    <3>2. /\ joined.first = current.first /\ joined.last = i
          /\ joined.from = current.from /\ joined.to = current.to + 1 + pieces[i]
      <4>1. i \in Nat /\ pieces[i] \in Nat /\ current \in Chunk
        BY <1>1, <3>1
      <4>2. joined.first = current.first /\ joined.last = i
        BY <4>1, JoinFacts
      <4>3. joined.from = current.from
        BY <4>1, JoinFacts
      <4>4. joined.to = current.to + 1 + pieces[i]
        <5>1. PICK c \in Chunk, q \in Nat, n \in Nat :
                  c = current /\ q = i /\ n = pieces[i]
          BY <4>1
        <5>2. Joined(c, q, n).to = c.to + 1 + n
          BY JoinFacts
        <5> QED BY <5>1, <5>2
      <4> QED BY <4>2, <4>3, <4>4
    <3> HIDE DEF joined
    <3>3. joined.to <= call.size
      BY <1>3, <2>1, <2>2, <3>1, <3>2 DEF IsFull
    <3>4. /\ 1 <= current.first /\ current.first < i /\ current.from = 0
      BY <1>1, <1>3, <2>2 DEF CurrentInv
    <3>5. /\ 1 <= joined.first /\ joined.first <= joined.last /\ joined.last < i + 1
          /\ joined.first # joined.last
      BY <1>3, <3>1, <3>2, <3>4
    <3> QED BY <1>2, <2>1, <2>2, <3>2, <3>3, <3>4, <3>5 DEF CurrentInv
  <2> QED BY <1>4, <1>6, <2>1, <2>2
<1> QED BY <1>5, <1>8, <1>9 DEF ChunkNext

-----------------------------------------------------------------------------
(* No character is lost.                                                    *)

LEMMA HoldsFacts ==
    ASSUME NEW p \in Nat \ {0}, NEW x
    PROVE  /\ ~Holds(Blank, p, x)
           /\ x \in 0 .. pieces[p] - 1 => Holds(Whole(p), p, x)
<1>1. Blank.first = 0 /\ Blank.last = 0
  BY DEF Blank
<1>2. /\ Whole(p).first = p /\ Whole(p).last = p
      /\ Whole(p).from = 0 /\ Whole(p).to = pieces[p]
  BY DEF Whole
<1> QED BY <1>1, <1>2 DEF Holds

\* What is in a chunk stays in a chunk.
LEMMA KeptFacts ==
    ASSUME chunks \in Seq(Chunk), NEW c \in Chunk,
           chunks' = chunks \/ chunks' = Append(chunks, c)
    PROVE  /\ \A p, x : (\E k \in DOMAIN chunks : Holds(chunks[k], p, x))
                        => \E k \in DOMAIN chunks' : Holds(chunks'[k], p, x)
           /\ chunks' = Append(chunks, c) =>
                 \A p, x : Holds(c, p, x) =>
                    \E k \in DOMAIN chunks' : Holds(chunks'[k], p, x)
<1>1. /\ Len(chunks) \in Nat /\ DOMAIN chunks = 1 .. Len(chunks)
      /\ DOMAIN Append(chunks, c) = 1 .. Len(chunks) + 1
      /\ \A k \in 1 .. Len(chunks) : Append(chunks, c)[k] = chunks[k]
      /\ Append(chunks, c)[Len(chunks) + 1] = c
  BY AppendFacts
<1>2. /\ \A k \in 1 .. Len(chunks) : k \in 1 .. Len(chunks) + 1
      /\ Len(chunks) + 1 \in 1 .. Len(chunks) + 1
  BY <1>1
<1>3. ASSUME NEW p, NEW x, NEW k \in DOMAIN chunks, Holds(chunks[k], p, x)
      PROVE  \E n \in DOMAIN chunks' : Holds(chunks'[n], p, x)
  <2>1. k \in DOMAIN chunks' /\ chunks'[k] = chunks[k]
    BY <1>1, <1>2
  <2> QED BY <1>3, <2>1
<1>4. ASSUME chunks' = Append(chunks, c), NEW p, NEW x, Holds(c, p, x)
      PROVE  \E n \in DOMAIN chunks' : Holds(chunks'[n], p, x)
  <2>1. Len(chunks) + 1 \in DOMAIN chunks' /\ chunks'[Len(chunks) + 1] = c
    BY <1>1, <1>2, <1>4
  <2> QED BY <1>4, <2>1
<1> QED BY <1>3, <1>4

LEMMA CoverStep == ChunkInv /\ ChunkNext => CoverInv'
<1> SUFFICES ASSUME ChunkInv, ChunkNext PROVE CoverInv'
  OBVIOUS
<1>1. /\ ChunkTypeOK /\ LoopInv /\ CurrentInv /\ CoverInv
      /\ chunks \in Seq(Chunk) /\ current \in Chunk /\ call \in Calls
  BY DEF ChunkInv, ChunkTypeOK
<1>2. pieces' = pieces
  BY ArgumentsStay
<1>3. i \in Nat \ {0}
  BY <1>1 DEF ChunkTypeOK
<1> DEFINE InChunk(p, x) == \E k \in DOMAIN chunks : Holds(chunks[k], p, x)
<1>4. /\ \A p, x : Kept(p, x) <=> InChunk(p, x) \/ (~done /\ Holds(current, p, x))
      /\ \A p, x : Kept(p, x)' <=>
             (\E k \in DOMAIN chunks' : Holds(chunks'[k], p, x))
                 \/ (~done' /\ Holds(current', p, x))
  BY DEF Kept, Holds
<1>5. CASE Fixed \/ LongBlock
  <2>1. start' = 0 /\ UNCHANGED <<i, current, chunks, done>>
    BY <1>1, <1>5, EnterFacts
  <2>2. \A p, x : Kept(p, x)' <=> Kept(p, x)
    BY <1>4, <2>1
  <2>3. \A x \in 0 .. start' - 1 : FALSE
    BY <2>1
  <2> QED BY <1>1, <1>2, <2>1, <2>2, <2>3 DEF CoverInv
<1>6. CASE Cut
  <2>1. /\ cutting /\ ~done /\ ~done' /\ current' = current
        /\ pieces[i] \in Nat \ {0} /\ CutEnd \in Int /\ start \in Int
        /\ CutChunk \in Chunk /\ chunks' = Append(chunks, CutChunk)
        /\ \/ CutEnd >= pieces[i] /\ i' = i + 1 /\ cutting' = FALSE /\ start' = start
           \/ /\ CutEnd < pieces[i] /\ i' = i /\ cutting' = cutting
              /\ start' = CutEnd - lap /\ CutEnd = start + call.size
        /\ call.size > 0 =>
              /\ 0 <= start /\ start < CutEnd /\ CutEnd <= pieces[i]
              /\ CutChunk.from = start /\ CutChunk.to = CutEnd
        /\ call.size <= 0 => CutEnd < pieces[i] /\ start' <= 0
    BY <1>1, <1>6, CutFacts
  <2>2. \A p, x : Kept(p, x) => Kept(p, x)'
    BY <1>1, <1>4, <2>1, KeptFacts
  <2>3. ASSUME call.size > 0, NEW x \in 0 .. CutEnd - 1, NEW p, p = i PROVE Kept(p, x)'
    <3>1. CASE x < start
      <4>1. x \in 0 .. start - 1
        BY <2>1, <3>1
      <4> QED BY <1>1, <2>1, <2>2, <2>3, <4>1 DEF CoverInv
    <3>2. CASE ~(x < start)
      <4>1. x \in start .. CutEnd - 1
        BY <2>1, <2>3, <3>2
      <4>2. CutChunk.first = i /\ CutChunk.last = i
        BY DEF CutChunk
      <4>3. Holds(CutChunk, p, x)
        BY <2>1, <2>3, <4>1, <4>2 DEF Holds
      <4> QED BY <1>1, <1>4, <2>1, <4>3, KeptFacts
    <3> QED BY <3>1, <3>2
  <2>4. CASE CutEnd >= pieces[i] /\ i' = i + 1 /\ cutting' = FALSE
    <3>1. call.size \in Int
      BY <1>1, CallFacts
    <3>2. call.size > 0 /\ CutEnd = pieces[i]
      BY <2>1, <2>4, <3>1
    <3>3. \A p \in 1 .. i' - 1 : p \in 1 .. i - 1 \/ p = i
      BY <1>3, <2>4
    <3> QED BY <1>1, <1>2, <2>2, <2>3, <2>4, <3>2, <3>3 DEF CoverInv
  <2>5. CASE i' = i /\ start' = CutEnd - lap
    <3>1. ASSUME NEW x \in 0 .. start' - 1, NEW p, p = i PROVE Kept(p, x)'
      <4>1. /\ call.size \in Int /\ lap \in Int
            /\ call.size > 0 => 0 <= lap
        BY <1>1, <2>1, CallFacts DEF LoopInv
      <4>2. call.size > 0 /\ x \in 0 .. CutEnd - 1
        BY <2>1, <2>5, <3>1, <4>1
      <4> QED BY <2>3, <3>1, <4>2
    <3> QED BY <1>1, <1>2, <2>2, <2>5, <3>1 DEF CoverInv
  <2> QED BY <2>1, <2>4, <2>5
<1>7. ASSUME More, i' = i + 1, ~cutting', \A p, x : p \in Nat \ {0} /\ Kept(p, x) => Kept(p, x)',
             \A p : p = i => \A x \in 0 .. pieces[i] - 1 : Kept(p, x)'
      PROVE  CoverInv'
  <2>1. \A p \in 1 .. i' - 1 : p \in 1 .. i - 1 \/ p = i
    BY <1>3, <1>7
  <2>2. \A p \in 1 .. i - 1 : p \in Nat \ {0}
    BY <1>3
  <2> QED BY <1>1, <1>2, <1>7, <2>1, <2>2 DEF CoverInv
<1>8. CASE BlankBlock \/ ShortBlock
  <2>1. /\ More /\ i' = i + 1 /\ ~cutting' /\ done' = done /\ current' = current
        /\ pieces[i] \in Nat /\ Whole(i) \in Chunk
        /\ \/ chunks' = chunks /\ pieces[i] = 0
           \/ chunks' = Append(chunks, Whole(i))
    BY <1>1, <1>8, ReadFacts, MoreFacts DEF BlankBlock, ShortBlock
  <2>2. \A p, x : Kept(p, x) => Kept(p, x)'
    BY <1>1, <1>4, <2>1, KeptFacts
  <2>3. ASSUME NEW p, p = i, NEW x \in 0 .. pieces[i] - 1 PROVE Kept(p, x)'
    <3>1. pieces[i] # 0 /\ Holds(Whole(i), p, x)
      BY <1>3, <2>1, <2>3, HoldsFacts
    <3> QED BY <1>1, <1>4, <2>1, <3>1, KeptFacts
  <2> QED BY <1>7, <2>1, <2>2, <2>3
<1>9. CASE Flush
  <2>1. /\ More /\ i' = i + 1 /\ ~cutting' /\ ~done /\ ~done'
        /\ chunks' = Append(chunks, current) /\ current' = SentenceOf(i)
        /\ pieces[i] \in Nat
    BY <1>1, <1>9, ReadFacts, MoreFacts DEF Flush
  <2>2. \A p, x : Kept(p, x) => Kept(p, x)'
    BY <1>1, <1>4, <2>1, KeptFacts
  <2>3. ASSUME NEW p, p = i, NEW x \in 0 .. pieces[i] - 1 PROVE Kept(p, x)'
    <3>1. pieces[i] # 0 /\ Holds(Whole(i), p, x)
      BY <1>3, <2>1, <2>3, HoldsFacts
    <3> QED BY <1>4, <2>1, <3>1 DEF SentenceOf
  <2> QED BY <1>7, <2>1, <2>2, <2>3
<1>10. CASE Join
  <2> DEFINE joined == Joined(current, i, pieces[i])
  <2>1. /\ More /\ i' = i + 1 /\ ~cutting' /\ ~done /\ ~done'
        /\ chunks' = chunks /\ pieces[i] \in Nat
        /\ \/ pieces[i] = 0 /\ current' = current
           \/ current = Blank /\ current' = Whole(i)
           \/ current # Blank /\ current' = joined
    BY <1>1, <1>10, ReadFacts, MoreFacts DEF Join, Joined
  <2>2. CASE pieces[i] = 0 /\ current' = current
    <3>1. \A p, x : Kept(p, x) => Kept(p, x)'
      BY <1>4, <2>1, <2>2
    <3>2. \A x \in 0 .. pieces[i] - 1 : FALSE
      BY <2>2
    <3> QED BY <1>7, <2>1, <3>1, <3>2
  <2>3. CASE current = Blank /\ current' = Whole(i)
    <3>1. \A p, x : p \in Nat \ {0} /\ Kept(p, x) => Kept(p, x)'
      BY <1>4, <2>1, <2>3, HoldsFacts
    <3>2. \A p : p = i => \A x \in 0 .. pieces[i] - 1 : Kept(p, x)'
      BY <1>3, <1>4, <2>1, <2>3, HoldsFacts
    <3> QED BY <1>7, <2>1, <3>1, <3>2
  <2>4. CASE current # Blank /\ current' = joined
    <3>1. joined.first = current.first /\ joined.last = i
      BY <1>1, <1>3, <2>1, JoinFacts
    <3> HIDE DEF joined
    <3>2. /\ current.first \in Nat /\ current.last \in Nat
          /\ current.first <= current.last /\ current.last < i
      BY <1>1, <2>4 DEF CurrentInv, Chunk
    <3>3. ASSUME NEW p, NEW x, Holds(current, p, x) PROVE Holds(joined, p, x)
      <4>1. p \in current.first .. current.last
        BY <3>2, <3>3 DEF Holds
      <4>2. current.first < i /\ p \in current.first .. i
        BY <1>3, <3>2, <4>1
      <4> QED BY <3>1, <4>2 DEF Holds
    <3>4. \A x : Holds(joined, i, x)
      <4>1. current.first < i /\ i \in current.first .. i
        BY <1>3, <3>2
      <4> QED BY <3>1, <4>1 DEF Holds
    <3>5. \A p, x : Kept(p, x) => Kept(p, x)'
      BY <1>4, <2>1, <2>4, <3>3
    <3>6. \A p : p = i => \A x \in 0 .. pieces[i] - 1 : Kept(p, x)'
      BY <1>4, <2>1, <2>4, <3>4
    <3> QED BY <1>7, <2>1, <3>5, <3>6
  <2> QED BY <2>1, <2>2, <2>3, <2>4
<1>11. CASE Return
  <2>1. /\ i' = i /\ ~cutting' /\ done'
        /\ chunks' = IF current = Blank THEN chunks ELSE Append(chunks, current)
    BY <1>1, <1>11, ReturnFacts DEF Return
  <2>2. \A p, x : p \in Nat \ {0} /\ Kept(p, x) => Kept(p, x)'
    BY <1>1, <1>4, <2>1, KeptFacts, HoldsFacts
  <2>3. \A p \in 1 .. i - 1 : p \in Nat \ {0}
    BY <1>3
  <2> QED BY <1>1, <1>2, <2>1, <2>2, <2>3 DEF CoverInv
<1> QED
  BY <1>5, <1>6, <1>8, <1>9, <1>10, <1>11 DEF ChunkNext

-----------------------------------------------------------------------------
(* The sizes of the chunks, what consecutive ones share, and no more of     *)
(* them than needed.                                                        *)

\* A property of all chunks that the appended one has.
LEMMA SizeStep == ChunkInv /\ ChunkNext => SizeKept'
<1> SUFFICES ASSUME ChunkInv, ChunkNext PROVE SizeKept'
  OBVIOUS
<1>1. /\ ChunkTypeOK /\ LoopInv /\ CurrentInv /\ SizeKept
      /\ chunks \in Seq(Chunk) /\ current \in Chunk /\ call \in Calls
  BY DEF ChunkInv, ChunkTypeOK
<1>2. call' = call
  BY ArgumentsStay
<1> DEFINE Kind(c) == \/ c.to - c.from <= call.size
                      \/ (call.strategy = "semantic" /\ c.first = c.last)
<1>3. /\ SizeKept <=> (call.size > 0 => \A k \in DOMAIN chunks : Kind(chunks[k]))
      /\ SizeKept' <=> (call.size > 0 => \A k \in DOMAIN chunks' : Kind(chunks'[k]))
  BY <1>2 DEF SizeKept
<1> HIDE DEF Kind
<1>4. CASE chunks' = chunks
  BY <1>1, <1>3, <1>4
<1>5. ASSUME NEW c \in Chunk, chunks' = Append(chunks, c), call.size > 0 => Kind(c)
      PROVE  SizeKept'
  <2>1. /\ DOMAIN chunks = 1 .. Len(chunks) /\ Len(chunks) \in Nat
        /\ DOMAIN chunks' = 1 .. Len(chunks) + 1
        /\ \A k \in 1 .. Len(chunks) : chunks'[k] = chunks[k]
        /\ chunks'[Len(chunks) + 1] = c
    BY <1>1, <1>5, AppendFacts
  <2>2. \A k \in 1 .. Len(chunks) + 1 : k \in 1 .. Len(chunks) \/ k = Len(chunks) + 1
    BY <2>1
  <2> QED BY <1>1, <1>3, <1>5, <2>1, <2>2
<1>6. CASE Cut
  <2>1. /\ CutChunk \in Chunk /\ chunks' = Append(chunks, CutChunk)
        /\ CutEnd \in Int /\ start \in Int
        /\ call.size > 0 => /\ CutEnd <= start + call.size
                            /\ CutChunk.from = start /\ CutChunk.to = CutEnd
    BY <1>1, <1>6, CutFacts
  <2>2. call.size \in Int
    BY <1>1, CallFacts
  <2>3. call.size > 0 => Kind(CutChunk)
    BY <2>1, <2>2 DEF Kind
  <2> QED BY <1>5, <2>1, <2>3
<1>7. CASE ShortBlock
  <2>1. /\ Whole(i) \in Chunk /\ chunks' = Append(chunks, Whole(i))
        /\ pieces[i] <= call.size /\ pieces[i] \in Nat
    BY <1>1, <1>7, MoreFacts DEF ShortBlock
  <2>2. Whole(i).to - Whole(i).from = pieces[i]
    BY <2>1 DEF Whole
  <2> QED BY <1>5, <2>1, <2>2 DEF Kind
<1>8. current # Blank /\ call.size > 0 /\ call.strategy = "semantic" => Kind(current)
  <2>1. current.to \in Nat /\ call.size \in Int
    BY <1>1, CallFacts DEF Chunk
  <2> QED BY <1>1, <2>1 DEF CurrentInv, Kind
<1>9. CASE Flush
  BY <1>1, <1>5, <1>8, <1>9 DEF Flush, IsFull
<1>10. CASE Return
  <2>1. chunks' = IF current = Blank THEN chunks ELSE Append(chunks, current)
    BY <1>1, <1>10, ReturnFacts
  <2>2. current # Blank => call.strategy = "semantic"
    BY <1>1 DEF LoopInv
  <2> QED BY <1>1, <1>4, <1>5, <1>8, <2>1, <2>2
<1>11. CASE Fixed \/ LongBlock \/ BlankBlock \/ Join
  BY <1>4, <1>11 DEF Fixed, LongBlock, EnterFixed, BlankBlock, Join
<1> QED BY <1>6, <1>7, <1>9, <1>10, <1>11 DEF ChunkNext

LEMMA LinkStep == ChunkInv /\ ChunkNext => LinkInv'
<1> SUFFICES ASSUME ChunkInv, ChunkNext, call.size > 0 PROVE LinkInv'
  <2>1. ChunkNext => call' = call
    BY ArgumentsStay
  <2> QED BY <2>1 DEF LinkInv
<1>1. /\ ChunkTypeOK /\ LoopInv /\ CurrentInv /\ LinkInv
      /\ chunks \in Seq(Chunk) /\ current \in Chunk /\ call \in Calls
  BY DEF ChunkInv, ChunkTypeOK
<1>2. pieces' = pieces /\ call' = call /\ Target' = Target
  BY ArgumentsStay
<1>3. /\ i \in Nat \ {0} /\ Target \in Int /\ 0 <= Target /\ Target < call.size
      /\ call.size \in Int
  BY <1>1, CallFacts DEF ChunkTypeOK
<1>4. /\ DOMAIN chunks = 1 .. Len(chunks) /\ Len(chunks) \in Nat
      /\ chunks # <<>> => Len(chunks) \in 1 .. Len(chunks)
      /\ \A k \in 1 .. Len(chunks) : chunks[k] \in Chunk
  <2>1. DOMAIN chunks = 1 .. Len(chunks) /\ Len(chunks) \in Nat
    BY <1>1, LenProperties
  <2>2. chunks # <<>> => Len(chunks) # 0
    BY <1>1, EmptySeq
  <2>3. \A k \in 1 .. Len(chunks) : chunks[k] \in Chunk
    BY <1>1, ElementOfSeq
  <2> QED BY <2>1, <2>2, <2>3
<1> DEFINE last == chunks[Len(chunks)]
<1>5. ASSUME lap' = lap \/ lap' = Target,
             \A k \in 2 .. Len(chunks') : Follows(chunks'[k - 1], chunks'[k]),
             chunks' # <<>> /\ ~done' => Links(last)'
      PROVE  LinkInv'
  <2>1. \A b, c : Follows(b, c) =>
            \/ b.last < c.first
            \/ /\ b.first = c.first
               /\ b.from < c.from /\ b.to < c.to
               /\ b.to - c.from = lap' /\ lap' = Target'
    BY <1>2, <1>5 DEF Follows
  <2>2. LinkInv' <=>
            /\ \A k \in 2 .. Len(chunks') :
                  LET b == chunks'[k - 1]
                      c == chunks'[k]
                  IN  \/ b.last < c.first
                      \/ /\ b.first = c.first
                         /\ b.from < c.from /\ b.to < c.to
                         /\ b.to - c.from = lap' /\ lap' = Target'
            /\ chunks' # <<>> /\ ~done' => Links(last)'
    BY <1>2 DEF LinkInv, Follows
  <2> QED BY <1>5, <2>1, <2>2
<1>6. ASSUME chunks' = chunks, lap' = lap \/ lap' = Target,
             chunks' # <<>> /\ ~done' => Links(last)'
      PROVE  LinkInv'
  BY <1>1, <1>5, <1>6 DEF LinkInv
<1>7. ASSUME NEW c \in Chunk, chunks' = Append(chunks, c), lap' = lap,
             chunks # <<>> => Follows(last, c), ~done' => Links(c)'
      PROVE  LinkInv'
  <2>1. /\ Len(chunks') = Len(chunks) + 1 /\ chunks' # <<>>
        /\ \A k \in 1 .. Len(chunks) : chunks'[k] = chunks[k]
        /\ chunks'[Len(chunks) + 1] = c
    BY <1>1, <1>7, AppendFacts
  <2>2. ASSUME NEW k \in 2 .. Len(chunks') PROVE Follows(chunks'[k - 1], chunks'[k])
    <3>1. CASE k \in 2 .. Len(chunks)
      <4>1. k \in 1 .. Len(chunks) /\ k - 1 \in 1 .. Len(chunks)
        BY <1>4, <3>1
      <4>2. chunks'[k] = chunks[k] /\ chunks'[k - 1] = chunks[k - 1]
        BY <2>1, <4>1
      <4> QED BY <1>1, <3>1, <4>2 DEF LinkInv
    <3>2. CASE k = Len(chunks) + 1
      <4>1. k - 1 = Len(chunks) /\ Len(chunks) \in 1 .. Len(chunks)
        BY <1>4, <2>1, <3>2
      <4>2. chunks # <<>>
        BY <1>1, <4>1, LenProperties, EmptySeq
      <4>3. chunks'[k] = c /\ chunks'[k - 1] = last
        BY <2>1, <3>2, <4>1
      <4> QED BY <1>7, <4>2, <4>3
    <3> QED BY <1>4, <2>1, <3>1, <3>2
  <2>3. ~done' => Links(last)'
    BY <1>7, <2>1 DEF Links
  <2> QED BY <1>5, <1>7, <2>2, <2>3
<1>8. chunks # <<>> /\ ~done => Links(last)
  BY <1>1 DEF LinkInv
<1>9. CASE Fixed \/ LongBlock
  <2>1. /\ More /\ call.strategy # "semantic" /\ lap' = Target /\ start' = 0
        /\ UNCHANGED <<i, current, chunks, done>>
    BY <1>1, <1>9, EnterFacts
  <2>2. chunks # <<>> => last.last < i
    BY <1>1, <1>8, <2>1, MoreFacts DEF Links, LoopInv
  <2> QED BY <1>1, <1>6, <2>1, <2>2 DEF Links, LoopInv
<1>10. CASE Cut
  <2>1. /\ cutting /\ ~done /\ ~done' /\ current' = current
        /\ pieces[i] \in Nat \ {0} /\ CutEnd \in Int /\ start \in Int
        /\ CutChunk \in Chunk /\ chunks' = Append(chunks, CutChunk)
        /\ lap' = lap
        /\ \/ CutEnd >= pieces[i] /\ i' = i + 1 /\ cutting' = FALSE /\ start' = start
           \/ /\ CutEnd < pieces[i] /\ i' = i /\ cutting' = cutting
              /\ start' = CutEnd - lap /\ CutEnd = start + call.size
        /\ 0 <= start /\ start < CutEnd /\ CutEnd <= pieces[i]
        /\ CutChunk.from = start /\ CutChunk.to = CutEnd
    BY <1>1, <1>10, CutFacts
  <2>2. lap = Target /\ current = Blank
    BY <1>1, <2>1 DEF LoopInv
  <2>3. CutChunk.first = i /\ CutChunk.last = i
    BY DEF CutChunk
  <2>4. ASSUME chunks # <<>> PROVE Follows(last, CutChunk)
    <3>1. CASE last.last < i
      BY <2>3, <3>1 DEF Follows
    <3>2. CASE /\ last.first = i /\ last.last = i
               /\ last.from < start /\ last.to = start + lap /\ last.to < pieces[i]
      <4>1. last.to < CutEnd /\ last.to - start = lap
        <5>1. last.to \in Int /\ lap \in Int
          BY <1>3, <2>1, <2>2, <3>2
        <5>2. CutEnd >= pieces[i] \/ CutEnd = start + call.size
          BY <2>1
        <5>3. last.to < pieces[i] /\ last.to < start + call.size
          BY <1>3, <2>1, <2>2, <3>2, <5>1
        <5>4. last.to < CutEnd
          <6> HIDE DEF last
          <6> QED BY <1>3, <2>1, <5>1, <5>2, <5>3
        <5> QED BY <2>1, <3>2, <5>1, <5>4
      <4> QED BY <2>1, <2>2, <2>3, <3>2, <4>1 DEF Follows
    <3> QED BY <1>8, <2>1, <2>2, <2>4, <3>1, <3>2 DEF Links
  <2>5. ASSUME NEW z, z = CutChunk PROVE Links(z)'
    <3>1. CASE i' = i + 1
      <4>1. z.last < i + 1
        BY <1>3, <2>3, <2>5
      <4> QED BY <2>1, <2>2, <3>1, <4>1 DEF Links
    <3>2. CASE /\ CutEnd < pieces[i] /\ i' = i /\ cutting' = cutting
               /\ start' = CutEnd - lap /\ CutEnd = start + call.size
      <4>1. start' > 0 /\ start < start' /\ CutEnd = start' + lap
        <5>1. CutEnd \in Int /\ start \in Int /\ lap \in Int /\ call.size \in Int
          BY <1>3, <2>1, <2>2
        <5>2. 0 <= start /\ lap < call.size
          BY <1>3, <2>1, <2>2
        <5>3. CutEnd - lap > 0 /\ start < CutEnd - lap
              /\ CutEnd = (CutEnd - lap) + lap
          BY <3>2, <5>1, <5>2
        <5> QED BY <3>2, <5>3
      <4> QED BY <1>2, <2>1, <2>2, <2>3, <2>5, <3>2, <4>1 DEF Links
    <3> QED BY <2>1, <3>1, <3>2
  <2>6. PICK z : z = CutChunk
    OBVIOUS
  <2> QED BY <1>7, <2>1, <2>4, <2>5, <2>6
<1>11. CASE BlankBlock \/ ShortBlock
  <2>1. /\ More /\ i' = i + 1 /\ ~cutting /\ ~done /\ lap' = lap /\ current' = current
        /\ current = Blank /\ Whole(i) \in Chunk
        /\ chunks' = chunks \/ chunks' = Append(chunks, Whole(i))
    BY <1>1, <1>11, ReadFacts, MoreFacts DEF BlankBlock, ShortBlock, LoopInv
  <2>2. chunks # <<>> => last.last < i
    BY <1>8, <2>1 DEF Links
  <2>3. Whole(i).first = i /\ Whole(i).last = i
    BY DEF Whole
  <2>4. \A z : z.last \in Nat /\ (z.last < i \/ z.last = i) => Links(z)'
    <3>1. \A z : z.last \in Nat /\ (z.last < i \/ z.last = i) => z.last < i + 1
      BY <1>3
    <3> QED BY <2>1, <3>1 DEF Links
  <2>5. CASE chunks' = chunks
    <3>1. chunks # <<>> => last.last \in Nat
      BY <1>4 DEF Chunk
    <3>2. chunks # <<>> => Links(last)'
      <4>1. \A z : z = last /\ chunks # <<>> => Links(z)'
        BY <2>2, <2>4, <3>1
      <4> QED BY <2>5, <4>1 DEF Links
    <3> QED BY <1>6, <2>1, <2>5, <3>2
  <2>6. CASE chunks' = Append(chunks, Whole(i))
    <3>1. PICK z : z = Whole(i)
      OBVIOUS
    <3>2. Links(z)'
      BY <1>3, <2>3, <2>4, <3>1
    <3>3. chunks # <<>> => Follows(last, z)
      BY <2>2, <2>3, <3>1 DEF Follows
    <3> QED BY <1>7, <2>1, <2>6, <3>1, <3>2, <3>3
  <2> QED BY <2>1, <2>5, <2>6
<1>12. current # Blank =>
           /\ current.first \in Nat /\ current.last \in Nat
           /\ current.first <= current.last /\ current.last < i
  BY <1>1 DEF CurrentInv, Chunk
<1>13. CASE Flush
  <2>1. /\ current # Blank /\ i' = i + 1 /\ ~done /\ lap' = lap
        /\ chunks' = Append(chunks, current)
        /\ current' = Blank \/ current' = Whole(i)
    BY <1>1, <1>13, MoreFacts DEF Flush, IsFull, SentenceOf
  <2>2. PICK z \in Chunk : z = current
    BY <1>1
  <2>3. z.last < i /\ z.last < i + 1
    BY <1>3, <1>12, <2>1, <2>2
  <2>4. Links(z)'
    <3>1. Whole(i).first = i
      BY DEF Whole
    <3> QED BY <2>1, <2>3, <3>1 DEF Links
  <2>5. chunks # <<>> => Follows(last, z)
    BY <1>8, <2>1, <2>2 DEF Links, Follows
  <2> QED BY <1>7, <2>1, <2>2, <2>4, <2>5
<1>14. CASE Join
  <2> DEFINE joined == Joined(current, i, pieces[i])
  <2>1. /\ i' = i + 1 /\ ~done /\ lap' = lap /\ ~cutting /\ chunks' = chunks
        /\ pieces[i] \in Nat /\ Whole(i) # Blank
        /\ \/ current' = current
           \/ current = Blank /\ current' = Whole(i)
           \/ current # Blank /\ current' = joined
    BY <1>1, <1>14, MoreFacts DEF Join, Joined
  <2>2. current # Blank => joined.first = current.first
    BY <1>1, <1>3, <2>1, JoinFacts
  <2>3. Whole(i).first = i
    BY DEF Whole
  <2> HIDE DEF joined
  <2>4. ASSUME chunks # <<>> PROVE last.last < i + 1
    <3>1. last.last \in Nat
      BY <1>4, <2>4 DEF Chunk
    <3>2. last.last < i
      BY <1>3, <1>8, <1>12, <2>1, <2>4, <3>1 DEF Links
    <3> QED BY <1>3, <3>1, <3>2
  <2>5. ASSUME NEW z, z = last, chunks # <<>> PROVE Links(z)'
    <3>1. current = Blank => z.last < i
      BY <1>8, <2>1, <2>5 DEF Links
    <3>2. current # Blank => z.last < current.first
      BY <1>8, <2>1, <2>5 DEF Links
    <3> QED BY <2>1, <2>2, <2>3, <2>4, <2>5, <3>1, <3>2 DEF Links
  <2>6. chunks # <<>> => Links(last)'
    BY <2>1, <2>5 DEF Links
  <2> QED BY <1>6, <2>1, <2>6
<1>15. CASE Return
  <2>1. /\ done' /\ lap' = lap /\ ~done
        /\ chunks' = IF current = Blank THEN chunks ELSE Append(chunks, current)
    BY <1>1, <1>15, ReturnFacts DEF Return
  <2>2. current # Blank /\ chunks # <<>> => Follows(last, current)
    BY <1>8, <2>1 DEF Links, Follows
  <2>3. PICK z \in Chunk : z = current
    BY <1>1
  <2> QED BY <1>6, <1>7, <2>1, <2>2, <2>3
<1> QED
  BY <1>9, <1>10, <1>11, <1>13, <1>14, <1>15 DEF ChunkNext

\* The sentences that become a chunk open with one that did not fit.
LEMMA AppendedGreedy ==
    ASSUME ChunkTypeOK, GreedyInv, call.strategy = "semantic", ~done,
           current # Blank, chunks' = Append(chunks, current),
           NEW k \in 2 .. Len(chunks')
    PROVE  chunks'[k - 1].to + 1 + pieces[chunks'[k].first] > call.size
<1>1. /\ Len(chunks) \in Nat /\ Len(chunks') = Len(chunks) + 1
      /\ \A n \in 1 .. Len(chunks) : chunks'[n] = chunks[n]
      /\ chunks'[Len(chunks) + 1] = current
  BY AppendFacts DEF ChunkTypeOK
<1>2. CASE k \in 2 .. Len(chunks)
  <2>1. k \in 1 .. Len(chunks) /\ k - 1 \in 1 .. Len(chunks)
    BY <1>1, <1>2
  <2>2. chunks'[k] = chunks[k] /\ chunks'[k - 1] = chunks[k - 1]
    BY <1>1, <2>1
  <2> QED BY <1>2, <2>2 DEF GreedyInv
<1>3. CASE k = Len(chunks) + 1
  <2>1. k - 1 = Len(chunks) /\ Len(chunks) \in 1 .. Len(chunks)
    BY <1>1, <1>3
  <2>2. chunks # <<>>
    BY <2>1, EmptySeq, LenProperties DEF ChunkTypeOK
  <2>3. chunks'[k] = current /\ chunks'[k - 1] = chunks[Len(chunks)]
    BY <1>1, <1>3, <2>1
  <2> QED BY <2>2, <2>3 DEF GreedyInv
<1> QED BY <1>1, <1>2, <1>3

LEMMA GreedyStep == ChunkInv /\ ChunkNext => GreedyInv'
<1> SUFFICES ASSUME ChunkInv, ChunkNext, call.strategy = "semantic"
             PROVE  GreedyInv'
  <2>1. ChunkNext => call' = call
    BY ArgumentsStay
  <2> QED BY <2>1 DEF GreedyInv
<1>1. /\ ChunkTypeOK /\ LoopInv /\ CurrentInv /\ GreedyInv
      /\ chunks \in Seq(Chunk) /\ current \in Chunk /\ call \in Calls
  BY DEF ChunkInv, ChunkTypeOK
<1>2. pieces' = pieces /\ call' = call
  BY ArgumentsStay
<1>3. call.size \in Int /\ i \in Nat \ {0} /\ ~cutting
  BY <1>1, CallFacts DEF ChunkTypeOK, LoopInv
<1>4. CASE Flush
  <2>1. /\ current # Blank /\ current.to + pieces[i] + 1 > call.size
        /\ pieces[i] \in Nat /\ ~done
        /\ chunks' = Append(chunks, current)
        /\ current' = IF pieces[i] = 0 THEN Blank ELSE Whole(i)
        /\ Whole(i) # Blank
    BY <1>1, <1>4, MoreFacts DEF Flush, IsFull, SentenceOf
  <2>2. /\ Len(chunks) \in Nat /\ Len(chunks') = Len(chunks) + 1
        /\ \A k \in 1 .. Len(chunks) : chunks'[k] = chunks[k]
        /\ chunks'[Len(chunks) + 1] = current
    BY <1>1, <2>1, AppendFacts
  <2>3. ASSUME NEW k \in 2 .. Len(chunks')
        PROVE  chunks'[k - 1].to + 1 + pieces[chunks'[k].first] > call.size
    BY <1>1, <2>1, <2>2, <2>3, AppendedGreedy
  <2>4. chunks'[Len(chunks')].to + 1
            + (IF current' = Blank THEN 0 ELSE pieces[current'.first]) > call.size
    <3>1. Whole(i).first = i
      BY DEF Whole
    <3>2. current.to \in Nat
      BY <1>1 DEF Chunk
    <3>3. current.to + 1 + pieces[i] > call.size
      BY <1>3, <2>1, <3>2
    <3> QED BY <2>1, <2>2, <3>1, <3>3
  <2> QED BY <1>2, <2>3, <2>4 DEF GreedyInv
<1>5. CASE Join
  <2> DEFINE joined == Joined(current, i, pieces[i])
  <2>1. /\ ~done /\ chunks' = chunks /\ pieces[i] \in Nat
        /\ \/ current' = current
           \/ current = Blank /\ current' = Whole(i)
           \/ current # Blank /\ current' = joined
    BY <1>1, <1>5, MoreFacts DEF Join, Joined
  <2>2. current # Blank => joined.first = current.first /\ joined.last = i
    BY <1>1, <1>3, <2>1, JoinFacts
  <2>3. Whole(i).first = i /\ Whole(i) # Blank
    BY <1>1, <1>5, MoreFacts DEF Whole, Join
  <2>4. joined # Blank
    <3>1. joined.last = i
      BY <1>1, <1>3, <2>1, JoinFacts
    <3> QED BY <1>3, <3>1 DEF Blank
  <2> HIDE DEF joined
  <2>5. ASSUME chunks # <<>>
        PROVE  chunks[Len(chunks)].to + 1
                   + (IF current' = Blank THEN 0 ELSE pieces[current'.first]) > call.size
    <3>1. chunks[Len(chunks)].to \in Nat
      <4>1. Len(chunks) \in 1 .. Len(chunks)
        BY <1>1, <2>5, LenProperties, EmptySeq
      <4>2. chunks[Len(chunks)] \in Chunk
        BY <1>1, <4>1, ElementOfSeq
      <4> QED BY <4>2 DEF Chunk
    <3>2. chunks[Len(chunks)].to + 1
              + (IF current = Blank THEN 0 ELSE pieces[current.first]) > call.size
      BY <1>1, <2>1, <2>5 DEF GreedyInv
    <3>3. CASE current' = current
      BY <3>2, <3>3
    <3>4. CASE current = Blank /\ current' = Whole(i)
      <4>1. chunks[Len(chunks)].to + 1 + pieces[i] > call.size
        BY <1>3, <2>1, <3>1, <3>2, <3>4
      <4> QED BY <2>3, <3>4, <4>1
    <3>5. CASE current # Blank /\ current' = joined
      BY <2>2, <2>4, <3>2, <3>5
    <3> QED BY <2>1, <3>3, <3>4, <3>5
  <2> QED BY <1>1, <1>2, <2>1, <2>5 DEF GreedyInv
<1>6. CASE Return
  <2>1. /\ done' /\ ~done
        /\ chunks' = IF current = Blank THEN chunks ELSE Append(chunks, current)
    BY <1>1, <1>6, ReturnFacts DEF Return
  <2>2. CASE current = Blank
    BY <1>1, <1>2, <2>1, <2>2 DEF GreedyInv
  <2>3. CASE current # Blank
    <3>1. ASSUME NEW k \in 2 .. Len(chunks')
          PROVE  chunks'[k - 1].to + 1 + pieces[chunks'[k].first] > call.size
      BY <1>1, <2>1, <2>3, <3>1, AppendedGreedy
    <3> QED BY <1>2, <2>1, <3>1 DEF GreedyInv
  <2> QED BY <2>2, <2>3
<1>7. ~Fixed /\ ~LongBlock /\ ~Cut /\ ~BlankBlock /\ ~ShortBlock
  BY <1>3 DEF Fixed, LongBlock, Cut, BlankBlock, ShortBlock
<1> QED BY <1>4, <1>5, <1>6, <1>7 DEF ChunkNext

LEMMA ChunkStep == ChunkInv /\ ChunkNext => ChunkInv'
BY ChunkTypeStep, LoopStep, CurrentStep, CoverStep, SizeStep, LinkStep, GreedyStep
DEF ChunkInv

-----------------------------------------------------------------------------
(* What chunking promises follows from its invariant.                       *)

LEMMA ChunkSound == ChunkInv => ChunksSound
<1> SUFFICES ASSUME ChunkInv PROVE ChunksSound
  OBVIOUS
<1>1. /\ ChunkTypeOK /\ LoopInv /\ CoverInv /\ SizeKept /\ LinkInv /\ GreedyInv
      /\ Len(pieces) \in Nat /\ DOMAIN pieces = 1 .. Len(pieces) /\ i \in Nat
  BY LenProperties DEF ChunkInv, ChunkTypeOK
\* When it is done, every piece was read.
<1>2. ASSUME done
      PROVE  DOMAIN pieces \subseteq 1 .. i - 1
  BY <1>1, <1>2 DEF LoopInv
<1>3. Covering
  <2> SUFFICES ASSUME done, NEW p \in DOMAIN pieces, NEW x \in 0 .. pieces[p] - 1
               PROVE  \E k \in DOMAIN chunks : Holds(chunks[k], p, x)
    BY DEF Covering
  <2>1. Kept(p, x)
    BY <1>1, <1>2 DEF CoverInv
  <2> QED BY <2>1 DEF Kept
<1>4. Advancing
  BY <1>1 DEF LinkInv, Follows, Advancing
<1>5. Greedy
  BY <1>1 DEF GreedyInv, Greedy
<1>6. EndlessBelowOne
  BY <1>1, <1>2 DEF LoopInv, EndlessBelowOne
<1> QED BY <1>1, <1>3, <1>4, <1>5, <1>6 DEF ChunksSound

-----------------------------------------------------------------------------
(* The order in which the offline classifier ranks the labels.              *)

\* A set of numbers has a least element, measured by a function.
LEMMA LeastElement ==
    ASSUME NEW S, NEW f \in [S -> Nat], S # {}
    PROVE  \E s \in S : \A t \in S : f[s] <= f[t]
<1> DEFINE V == {f[s] : s \in S}
<1>1. V \subseteq Nat /\ V # {}
  OBVIOUS
<1>2. PICK v \in V : \A w \in V : ~(<<w, v>> \in OpToRel(<, Nat))
  BY <1>1, NatLessThanWellFounded, WFMin
<1>3. \A w \in V : ~(w < v)
  <2>1. \A w \in V : w < v => <<w, v>> \in OpToRel(<, Nat)
    BY <1>1 DEF OpToRel
  <2> QED BY <1>2, <2>1
<1>4. \A w \in V : v <= w
  BY <1>1, <1>3
<1> QED BY <1>4

LEMMA RankFacts ==
    ASSUME NEW l \in AllLabels
    PROVE  /\ Rank(l) \in 1 .. Len(Alphabet) /\ Alphabet[Rank(l)] = l
           /\ Len(Alphabet) \in Nat
<1>1. \E k \in DOMAIN Alphabet : Alphabet[k] = l
  BY DEF AllLabels
<1>2. Rank(l) \in DOMAIN Alphabet /\ Alphabet[Rank(l)] = l
  BY <1>1 DEF Rank
<1> QED BY <1>2, TasksAssumption, LenProperties

LEMMA ListedFacts ==
    ASSUME TypeOK
    PROVE  /\ Listed \subseteq AllLabels
           /\ labels # <<>> => Listed # {}
           /\ \A l \in Listed : hits[l] \in 0 .. MaxHits
           /\ \A k \in DOMAIN labels : labels[k] \in Listed
<1>1. labels \in Seq(AllLabels)
  BY TasksAssumption, EmptySeq DEF TypeOK
<1>2. DOMAIN labels = 1 .. Len(labels) /\ Len(labels) \in Nat
      /\ labels # <<>> => Len(labels) # 0
  BY <1>1, LenProperties, EmptySeq
<1>3. \A k \in DOMAIN labels : labels[k] \in AllLabels
  BY <1>1, <1>2, ElementOfSeq
<1>4. labels # <<>> => 1 \in DOMAIN labels
  BY <1>2
<1> QED BY <1>3, <1>4 DEF Listed, TypeOK

\* Some label comes before every other: max over (count, label) is defined
\* for every list that is not empty.
LEMMA BestFacts ==
    ASSUME TypeOK, labels # <<>>
    PROVE  Best \in Listed /\ \A l \in Listed \ {Best} : Before(Best, l)
<1>1. /\ Listed \subseteq AllLabels /\ Listed # {} /\ MaxHits \in Nat
      /\ \A l \in Listed : hits[l] \in 0 .. MaxHits
      /\ \A l \in Listed : /\ Rank(l) \in 1 .. Len(Alphabet)
                           /\ Alphabet[Rank(l)] = l /\ Len(Alphabet) \in Nat
  BY ListedFacts, RankFacts, TasksAssumption
\* The labels with the most occurrences ...
<1> DEFINE rare == [l \in Listed |-> MaxHits - hits[l]]
           Most == {m \in Listed : \A l \in Listed : hits[l] <= hits[m]}
           early == [l \in Most |-> Len(Alphabet) - Rank(l)]
<1>2. Most # {}
  <2>1. rare \in [Listed -> Nat]
    BY <1>1
  <2>2. PICK m \in Listed : \A l \in Listed : rare[m] <= rare[l]
    <3> HIDE DEF rare
    <3> QED BY <1>1, <2>1, LeastElement
  <2>3. \A l \in Listed : MaxHits - hits[m] <= MaxHits - hits[l]
    BY <2>2
  <2>4. \A l \in Listed : hits[l] <= hits[m]
    BY <1>1, <2>3
  <2> QED BY <2>4
\* ... and the last of them.
<1>3. PICK b \in Most : \A m \in Most : early[b] <= early[m]
  <2>1. early \in [Most -> Nat]
    BY <1>1
  <2> HIDE DEF early, Most
  <2> QED BY <1>2, <2>1, LeastElement
<1>4. \A m \in Most : Rank(m) <= Rank(b)
  <2>1. \A m \in Most : Len(Alphabet) - Rank(b) <= Len(Alphabet) - Rank(m)
    BY <1>3
  <2> QED BY <1>1, <2>1
<1>5. ASSUME NEW l \in Listed \ {b}
      PROVE  Before(b, l)
  <2>1. CASE l \in Most
    <3>1. Rank(l) # Rank(b)
      BY <1>1
    <3>2. Rank(b) > Rank(l)
      BY <1>1, <1>4, <2>1, <3>1
    <3>3. hits[b] = hits[l]
      BY <1>1, <2>1
    <3> QED BY <3>2, <3>3 DEF Before
  <2>2. CASE l \notin Most
    <3>1. PICK m \in Listed : ~(hits[m] <= hits[l])
      BY <2>2
    <3>2. hits[m] <= hits[b]
      BY <1>3
    <3>3. hits[b] > hits[l]
      BY <1>1, <3>1, <3>2
    <3> QED BY <3>3 DEF Before
  <2> QED BY <2>1, <2>2
<1> QED BY <1>5 DEF Best

-----------------------------------------------------------------------------
(* The two tasks.                                                           *)

\* The offline classifier is the last resort: nothing follows its answer.
TaskInv == /\ ChunkInv /\ TypeOK
           /\ source = "sim" => stage = "answered"
           /\ SimulatedBest

LEMMA TaskInitially == Init => TaskInv
<1> SUFFICES ASSUME Init PROVE TaskInv
  OBVIOUS
<1>1. ChunkInv /\ ChunkTypeOK
  BY ChunkInitially DEF Init, ChunkInv
<1>2. source = None /\ source # "sim"
  BY TasksAssumption DEF Init
<1>3. TypeOK
  <2>1. [l \in AllLabels |-> 0] \in [AllLabels -> 0 .. MaxHits]
    BY TasksAssumption
  <2> QED BY <1>1, <2>1 DEF Init, TypeOK
<1> QED BY <1>1, <1>2, <1>3 DEF TaskInv, SimulatedBest

\* The state of chunking is the classifier's only in that it stays.
LEMMA ChunkingKept ==
    ASSUME ChunkInv, UNCHANGED chunking
    PROVE  ChunkInv'
BY DEF chunking, ChunkInv, ChunkTypeOK, LoopInv, CurrentInv, CoverInv, SizeKept,
   LinkInv, GreedyInv, Target, Overlap, Kept, Holds, Links, Follows

\* What an answer leaves alone.
LEMMA AnswerFacts ==
    ASSUME TypeOK, NEW src \in {"mock", "llm", "sim"},
           NEW cat \in AllLabels \cup {None, OtherText, "uncategorized"},
           ChunkTypeOK', Answer(src, cat)
    PROVE  TypeOK' /\ source' = src /\ category' = cat /\ stage' = "answered"
           /\ labels' = labels /\ hits' = hits
BY DEF Answer, TypeOK

\* Whatever the offline classifier answers is best.
LEMMA SimulateFacts ==
    ASSUME TypeOK, ChunkTypeOK', Simulate
    PROVE  TypeOK' /\ stage' = "answered" /\ SimulatedBest'
<1>1. CASE labels = <<>> /\ Answer("sim", "uncategorized")
  <2>1. TypeOK' /\ stage' = "answered" /\ labels' = <<>>
    BY <1>1, AnswerFacts
  <2> QED BY <2>1 DEF SimulatedBest
<1>2. CASE labels # <<>> /\ (IF hits[Best] = 0
                             THEN \E k \in DOMAIN labels : Answer("sim", labels[k])
                             ELSE Answer("sim", Best))
  <2>1. /\ Listed \subseteq AllLabels /\ \A l \in Listed : hits[l] \in 0 .. MaxHits
        /\ \A k \in DOMAIN labels : labels[k] \in Listed
        /\ Best \in Listed /\ \A l \in Listed \ {Best} : Before(Best, l)
        /\ \A l \in Listed : Rank(l) \in 1 .. Len(Alphabet)
    BY <1>2, ListedFacts, BestFacts, RankFacts
  <2>2. PICK cat \in Listed : Answer("sim", cat) /\ (hits[Best] = 0 \/ cat = Best)
    BY <1>2, <2>1
  <2>3. /\ TypeOK' /\ category' = cat /\ stage' = "answered"
        /\ labels' = labels /\ hits' = hits
    BY <2>1, <2>2, AnswerFacts
  <2>4. ASSUME NEW l \in Listed \ {cat}
        PROVE  \/ hits[l] < hits[cat]
               \/ hits[l] = hits[cat] /\ (hits[l] = 0 \/ Rank(l) < Rank(cat))
    <3>1. MaxHits \in Nat /\ Len(Alphabet) \in Nat
      BY TasksAssumption, LenProperties
    <3>2. CASE hits[Best] = 0
      <4>1. ASSUME NEW m \in Listed
            PROVE  hits[m] = 0
        <5>1. m = Best \/ hits[Best] > hits[m] \/ hits[Best] = hits[m]
          BY <2>1 DEF Before
        <5> QED BY <2>1, <3>1, <3>2, <5>1
      <4> QED BY <4>1
    <3>3. CASE cat = Best
      <4>1. hits[cat] > hits[l] \/ (hits[cat] = hits[l] /\ Rank(cat) > Rank(l))
        BY <2>1, <3>3 DEF Before
      <4> QED BY <2>1, <3>1, <4>1
    <3> QED BY <2>2, <3>2, <3>3
  <2>5. SimulatedBest'
    <3>1. Listed' = Listed
      BY <2>3 DEF Listed
    <3> QED BY <2>3, <2>4, <3>1 DEF SimulatedBest, Rank
  <2> QED BY <2>3, <2>5
<1> QED BY <1>1, <1>2 DEF Simulate

LEMMA SimulatedKept ==
    ASSUME SimulatedBest, UNCHANGED <<labels, hits, source, category>>
    PROVE  SimulatedBest'
<1>1. Listed' = Listed
  BY DEF Listed
<1> QED BY <1>1 DEF SimulatedBest, Rank

LEMMA TaskStep == TaskInv /\ [Next]_vars => TaskInv'
<1> SUFFICES ASSUME TaskInv, [Next]_vars PROVE TaskInv'
  OBVIOUS
<1>1. /\ ChunkInv /\ TypeOK /\ SimulatedBest /\ (source = "sim" => stage = "answered")
  BY DEF TaskInv
<1>2. CASE Classify
  <2>1. UNCHANGED chunking
    BY <1>2 DEF Classify, Mock, NoKey, CallLlm, Simulate, Answer, Fallback
  <2>2. ChunkInv' /\ ChunkTypeOK'
    <3>1. ChunkInv'
      BY <1>1, <2>1, ChunkingKept
    <3> QED BY <3>1 DEF ChunkInv
  <2>3. CASE Mock \/ CallLlm \/ NoKey
    <3>1. CASE Fallback
      <4>1. stage = "resolve" /\ source' = source /\ labels' = labels /\ stage' = "sim"
        BY <2>3, <3>1 DEF Mock, CallLlm, NoKey, Fallback, Answer
      <4>2. TypeOK'
        BY <1>1, <2>2, <3>1 DEF Fallback, TypeOK
      <4>3. source' # "sim"
        BY <1>1, <4>1
      <4> QED BY <2>2, <4>2, <4>3 DEF TaskInv, SimulatedBest
    <3>2. CASE \E src \in {"mock", "llm"} :
                  \E cat \in AllLabels \cup {None, OtherText, "uncategorized"} :
                     Answer(src, cat)
      <4>1. TypeOK' /\ source' # "sim"
        BY <1>1, <2>2, <3>2, AnswerFacts
      <4> QED BY <2>2, <4>1 DEF TaskInv, SimulatedBest
    <3>3. Mock => Answer("mock", mocked) /\ mocked \in AllLabels \cup {None, OtherText}
      BY <1>1 DEF Mock, TypeOK
    <3>4. CallLlm => Fallback \/ \E cat \in AllLabels \cup {OtherText} : Answer("llm", cat)
      BY DEF CallLlm
    <3>5. NoKey => Fallback
      BY DEF NoKey
    <3> QED BY <2>3, <3>1, <3>2, <3>3, <3>4, <3>5
  <2>4. CASE Simulate
    <3>1. TypeOK' /\ stage' = "answered" /\ SimulatedBest'
      BY <1>1, <2>2, <2>4, SimulateFacts
    <3> QED BY <2>2, <3>1 DEF TaskInv
  <2> QED BY <1>2, <2>3, <2>4 DEF Classify
<1>3. CASE ChunkNext /\ UNCHANGED <<task, classifying>>
  <2>1. ChunkInv' /\ ChunkTypeOK'
    <3>1. ChunkInv'
      BY <1>1, <1>3, ChunkStep
    <3> QED BY <3>1 DEF ChunkInv
  <2>2. UNCHANGED <<task, labels, hits, mocked, world, stage, source, category>>
    BY <1>3 DEF classifying
  <2>3. TypeOK'
    BY <1>1, <2>1, <2>2 DEF TypeOK
  <2>4. SimulatedBest'
    BY <1>1, <2>2, SimulatedKept
  <2> QED BY <1>1, <2>1, <2>2, <2>3, <2>4 DEF TaskInv
<1>4. CASE UNCHANGED vars
  <2>1. UNCHANGED chunking /\ UNCHANGED <<pieces, call, i, lap, cutting, start, current,
           chunks, done, task, labels, hits, mocked, world, stage, source, category>>
    BY <1>4 DEF vars, chunking, classifying
  <2>2. ChunkInv' /\ ChunkTypeOK'
    <3>1. ChunkInv'
      BY <1>1, <2>1, ChunkingKept
    <3> QED BY <3>1 DEF ChunkInv
  <2>3. TypeOK'
    BY <1>1, <2>1, <2>2 DEF TypeOK
  <2>4. SimulatedBest'
    BY <1>1, <2>1, SimulatedKept
  <2> QED BY <1>1, <2>1, <2>2, <2>3, <2>4 DEF TaskInv
<1> QED BY <1>2, <1>3, <1>4 DEF Next

\* The invariant behind the theorems below.
THEOREM Invariant == Spec => []TaskInv
BY TaskInitially, TaskStep, PTL DEF Spec

\* The variables of the two tasks keep the shape the code gives them.
THEOREM TypeCorrect == Spec => []TypeOK
<1>1. TaskInv => TypeOK
  BY DEF TaskInv
<1> QED BY <1>1, Invariant, PTL

\* chunk_text loses no character, keeps to the size, advances with every
\* chunk, joins what fits, and returns for a size below one only if nothing
\* is cut: for every text, strategy, size and overlap.
THEOREM ChunksSoundHolds == Spec => []ChunksSound
<1>1. TaskInv => ChunksSound
  BY ChunkSound DEF TaskInv
<1> QED BY <1>1, Invariant, PTL

\* _simulate_classification answers a listed label that no other one beats,
\* for every list of labels and every count of them.
THEOREM SimulatedBestHolds == Spec => []SimulatedBest
<1>1. TaskInv => SimulatedBest
  BY DEF TaskInv
<1> QED BY <1>1, Invariant, PTL

-----------------------------------------------------------------------------
(* Why chunking ends: the safety half of Ends, which fairness completes.    *)

\* A step returns, takes the next piece, begins to cut the one at hand, or
\* cuts further on.
Onward ==
    \/ ~done /\ done'
    \/ i' = i + 1
    \/ i' = i /\ ~cutting /\ cutting'
    \/ i' = i /\ cutting /\ cutting' /\ start < start'

\* How far that can go.
Confined ==
    /\ i <= Len(pieces) + 1
    /\ cutting => i <= Len(pieces) /\ 0 <= start /\ start < pieces[i]

LEMMA ChunkOnward ==
    ASSUME ChunkInv, ChunkNext, call.size > 0
    PROVE  Onward
<1>1. ChunkTypeOK /\ LoopInv /\ call \in Calls
  BY DEF ChunkInv, ChunkTypeOK
<1>2. CASE Fixed \/ LongBlock
  BY <1>1, <1>2, EnterFacts, MoreFacts DEF Onward
<1>3. CASE Cut
  <2>1. /\ cutting /\ start \in Int /\ CutEnd \in Int
        /\ \/ i' = i + 1
           \/ /\ i' = i /\ cutting' = cutting
              /\ start' = CutEnd - lap /\ CutEnd = start + call.size
    BY <1>1, <1>3, CutFacts
  <2>2. lap = Target /\ Target \in Int /\ Target < call.size /\ call.size \in Int
    BY <1>1, <2>1, CallFacts DEF LoopInv
  <2>3. start < (start + call.size) - lap
    BY <2>1, <2>2
  <2> QED BY <2>1, <2>3 DEF Onward
<1>4. CASE BlankBlock \/ ShortBlock \/ Flush \/ Join
  BY <1>4, ReadFacts DEF Onward
<1>5. CASE Return
  BY <1>5 DEF Return, Onward
<1> QED BY <1>2, <1>3, <1>4, <1>5 DEF ChunkNext

\* The positions of the loops stay within the text, and every turn of a loop
\* of chunk_text moves one of them on, for every size of at least one: the
\* overlap never takes back all that a chunk has gained.
THEOREM ChunkingAdvances ==
    Spec => /\ [](call.size > 0 => Confined)
            /\ [][call.size > 0 /\ chunking' # chunking => Onward]_vars
<1>1. TaskInv => (call.size > 0 => Confined)
  <2> SUFFICES ASSUME TaskInv, call.size > 0 PROVE Confined
    OBVIOUS
  <2>1. ChunkTypeOK /\ LoopInv
    BY DEF TaskInv, ChunkInv
  <2>2. i \in 1 .. Len(pieces) + 1 /\ Len(pieces) \in Nat
    BY <2>1, LenProperties DEF ChunkTypeOK
  <2>3. i <= Len(pieces) + 1
    BY <2>2
  <2> QED BY <2>1, <2>3 DEF LoopInv, Confined
<1>2. TaskInv /\ [Next]_vars
          => [call.size > 0 /\ chunking' # chunking => Onward]_vars
  <2> SUFFICES ASSUME TaskInv, Next, call.size > 0, chunking' # chunking
               PROVE  Onward
    OBVIOUS
  <2>1. Classify => UNCHANGED chunking
    BY DEF Classify, Mock, NoKey, CallLlm, Simulate, Answer, Fallback
  <2>2. ChunkNext
    BY <2>1 DEF Next
  <2> QED BY <2>2, ChunkOnward DEF TaskInv
<1> QED BY <1>1, <1>2, Invariant, PTL DEF Spec
=============================================================================
