------------------------------ MODULE Chunking ------------------------------
(***************************************************************************)
(* chunk_text (internal/vendor_core/docparse.py), which parse_text calls.  *)
(*                                                                         *)
(* A text is the sequence of the lengths of the pieces that the strategy   *)
(* splits it into: sentences ("semantic") or blocks between headings       *)
(* ("structural"), 0 for one that is blank; the text as a whole for        *)
(* "fixed".  A chunk is the characters from .. to - 1 of the pieces        *)
(* first .. last joined by blanks.                                         *)
(***************************************************************************)
EXTENDS Integers, Sequences

CONSTANTS
    Texts,          \* sequences of lengths
    Calls,          \* arguments of calls: [strategy, size, overlap]
    MaxChunks       \* bound on the chunks, for a loop that does not end

ASSUME ChunkingAssumption ==
    /\ Texts \subseteq Seq(Nat)
    /\ Calls \subseteq [strategy : {"fixed", "structural", "semantic"},
                        size : Int, overlap : Nat]
    /\ MaxChunks \in Nat

VARIABLES
    pieces, call,   \* the arguments
    i,              \* the piece that the loop over the pieces is at
    lap,            \* the overlap that _chunk_fixed uses
    cutting,        \* its loop is running ...
    start,          \* ... and where its next chunk starts
    current,        \* the sentences that are in no chunk yet
    chunks,
    done

chunking == <<pieces, call, i, lap, cutting, start, current, chunks, done>>

Blank == [first |-> 0, last |-> 0, from |-> 0, to |-> 0]

\* chunk_text("") is [] before anything is split; a text that is not empty
\* is one piece at least.
ChunkInit ==
    /\ pieces \in Texts
    /\ call \in Calls
    /\ call.strategy = "fixed" => pieces = <<>> \/ (Len(pieces) = 1 /\ pieces[1] > 0)
    /\ i = 1
    /\ lap = 0
    /\ cutting = FALSE
    /\ start = 0
    /\ current = Blank
    /\ chunks = <<>>
    /\ done = FALSE

Smaller(a, b) == IF a < b THEN a ELSE b

\* Faulty variant of Clipped: negative positions are taken as they are.
ClippedAbove(x, n) == Smaller(x, n)

\* A position in a slice: Python counts the negative ones from the end.
Clipped(x, n) ==
    IF x >= 0 THEN Smaller(x, n) ELSE IF x + n < 0 THEN 0 ELSE x + n

More == ~done /\ ~cutting /\ i <= Len(pieces)

-----------------------------------------------------------------------------
(* _chunk_fixed                                                             *)

\* An overlap of a chunk or more is replaced.
Overlap(o) == IF o >= call.size THEN call.size \div 4 ELSE o

EnterFixed(o) ==
    /\ lap' = Overlap(o)
    /\ start' = 0
    /\ cutting' = TRUE
    /\ UNCHANGED <<pieces, call, i, current, chunks, done>>

NextStart(end) == end - lap

AtEnd(end) == end >= pieces[i]

\* One turn of the loop.
Cut ==
    /\ ~done /\ cutting
    /\ Len(chunks) < MaxChunks
    /\ LET n == pieces[i]
           end == Smaller(start + call.size, n)
       IN  /\ chunks' = Append(chunks, [first |-> i, last |-> i,
                            from |-> Clipped(start, n), to |-> Clipped(end, n)])
           /\ IF AtEnd(end)
              THEN i' = i + 1 /\ cutting' = FALSE /\ start' = start
              ELSE start' = NextStart(end) /\ UNCHANGED <<i, cutting>>
    /\ UNCHANGED <<pieces, call, lap, current, done>>

Fixed ==
    /\ More /\ call.strategy = "fixed"
    /\ EnterFixed(call.overlap)

-----------------------------------------------------------------------------
(* _chunk_structural                                                        *)

Whole(p) == [first |-> p, last |-> p, from |-> 0, to |-> pieces[p]]

BlankBlock ==
    /\ More /\ call.strategy = "structural"
    /\ pieces[i] = 0
    /\ i' = i + 1
    /\ UNCHANGED <<pieces, call, lap, cutting, start, current, chunks, done>>

ShortBlock ==
    /\ More /\ call.strategy = "structural"
    /\ pieces[i] > 0 /\ pieces[i] <= call.size
    /\ chunks' = Append(chunks, Whole(i))
    /\ i' = i + 1
    /\ UNCHANGED <<pieces, call, lap, cutting, start, current, done>>

LongBlock ==
    /\ More /\ call.strategy = "structural"
    /\ pieces[i] > 0 /\ pieces[i] > call.size
    /\ EnterFixed(call.size \div 8)

-----------------------------------------------------------------------------
(* _chunk_semantic                                                          *)

\* The sentence does not fit any more.
IsFull == current # Blank /\ current.to + pieces[i] + 1 > call.size

SentenceOf(p) == IF pieces[p] = 0 THEN Blank ELSE Whole(p)

Flush ==
    /\ More /\ call.strategy = "semantic"
    /\ IsFull
    /\ chunks' = Append(chunks, current)
    /\ current' = SentenceOf(i)
    /\ i' = i + 1
    /\ UNCHANGED <<pieces, call, lap, cutting, start, done>>

Join ==
    /\ More /\ call.strategy = "semantic"
    /\ ~IsFull
    /\ current' = IF pieces[i] = 0 THEN current
                  ELSE IF current = Blank THEN Whole(i)
                  ELSE [current EXCEPT !.last = i, !.to = @ + 1 + pieces[i]]
    /\ i' = i + 1
    /\ UNCHANGED <<pieces, call, lap, cutting, start, chunks, done>>

-----------------------------------------------------------------------------

\* Faulty variant of LastChunk: what is left is forgotten.
LastChunkDropped == <<>>

LastChunk == IF current = Blank THEN <<>> ELSE <<current>>

\* After the last piece; what is left of the sentences is a chunk.
Return ==
    /\ ~done /\ ~cutting /\ i > Len(pieces)
    /\ chunks' = chunks \o LastChunk
    /\ done' = TRUE
    /\ UNCHANGED <<pieces, call, i, lap, cutting, start, current>>

ChunkNext ==
    \/ Fixed
    \/ Cut
    \/ BlankBlock
    \/ ShortBlock
    \/ LongBlock
    \/ Flush
    \/ Join
    \/ Return

-----------------------------------------------------------------------------
(* Properties.                                                              *)

Chunk == [first : Nat, last : Nat, from : Nat, to : Nat]

\* The loops' variables have the shape the code gives them.
ChunkTypeOK ==
    /\ pieces \in Seq(Nat)
    /\ call \in Calls
    /\ i \in 1 .. Len(pieces) + 1
    /\ lap \in Int
    /\ cutting \in BOOLEAN
    /\ start \in Int
    /\ current \in Chunk
    /\ chunks \in Seq(Chunk)
    /\ done \in BOOLEAN

Holds(c, p, x) ==
    \/ c.first < c.last /\ p \in c.first .. c.last
    \/ c.first = p /\ c.last = p /\ x \in c.from .. c.to - 1

\* No character of the text is lost, whatever the strategy, the size and the
\* overlap.
Covering ==
    done => \A p \in DOMAIN pieces : \A x \in 0 .. pieces[p] - 1 :
                \E k \in DOMAIN chunks : Holds(chunks[k], p, x)

\* A chunk is not longer than asked for, except for a single sentence that
\* is longer itself.
SizeKept ==
    call.size > 0 => \A k \in DOMAIN chunks :
        LET c == chunks[k]
        IN  c.to - c.from <= call.size
                \/ (call.strategy = "semantic" /\ c.first = c.last)

\* Consecutive chunks of a piece share the overlap exactly and none of them
\* lies inside the other: also the last one has something new.
Advancing ==
    call.size > 0 => \A k \in 2 .. Len(chunks) :
        LET b == chunks[k - 1]
            c == chunks[k]
        IN  \/ b.last < c.first
            \/ /\ b.first = c.first
               /\ b.from < c.from /\ b.to < c.to
               /\ b.to - c.from = lap

\* Sentences are joined as long as they fit: no two consecutive chunks would
\* make one.
Greedy ==
    call.strategy = "semantic" => \A k \in 2 .. Len(chunks) :
        chunks[k - 1].to + 1 + pieces[chunks[k].first] > call.size

\* Chunking comes to an end for every size of at least 1 ...
Ends == call.size > 0 => <>done

\* ... and for no smaller one if there is something to cut.
EndlessBelowOne ==
    done /\ call.size <= 0 =>
        call.strategy = "semantic" \/ \A p \in DOMAIN pieces : pieces[p] = 0

\* The chunks of a text are all of it, none is too long, none is superfluous,
\* and they are there only if the loop can have ended.
ChunksSound == Covering /\ SizeKept /\ Advancing /\ Greedy /\ EndlessBelowOne
=============================================================================
