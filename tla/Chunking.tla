------------------------------ MODULE Chunking ------------------------------
(* chunk_units (indexer/chunk.py): the texts of a tender are cut at their   *)
(* paragraphs into chunks of bounded size that overlap.                     *)
(*                                                                          *)
(* A character is Space, which stands for every whitespace character, or a  *)
(* letter, represented by its number in its text.  A text is a sequence of  *)
(* lines; a line has words, none if it is blank, and may end in a full stop. *)
EXTENDS Naturals, Sequences, SequencesExt

CONSTANTS
    Texts,        \* the texts to be cut
    MaxChars,     \* max_chars, 1500 in process()
    OverlapChars  \* overlap_chars, 150 in process()

\* The ValueErrors of chunk_units.
ASSUME ChunkingAssumption ==
    /\ MaxChars \in Nat \ {0}
    /\ OverlapChars \in 0..(MaxChars - 1)

Space == 0
ParagraphBreak == <<Space, Space>>

\* str.lstrip and str.strip.
LeftStripped(s) ==
    LET letters == {i \in DOMAIN s : s[i] # Space}
    IN  IF letters = {} THEN <<>> ELSE SubSeq(s, Min(letters), Len(s))
Stripped(s) ==
    LET letters == {i \in DOMAIN s : s[i] # Space}
    IN  IF letters = {} THEN <<>> ELSE SubSeq(s, Min(letters), Max(letters))
\* s[-n:]
LastChars(s, n) == IF Len(s) <= n THEN s ELSE SubSeq(s, Len(s) - n + 1, Len(s))

\* a, a separator and b, or b alone.
Joined(a, separator, b) == IF a = <<>> THEN b ELSE a \o separator \o b
----------------------------------------------------------------------------
\* A paragraph ends at a blank line and at a line that ends in a full stop.
EndsParagraph(line) == line.words = <<>> \/ line.stop

\* The paragraphs of a text, each with its words separated by one space.
Paragraphs(text) ==
    LET WithLine(acc, line) ==
            LET open == FoldLeft(LAMBDA p, word : Joined(p, <<Space>>, word),
                                 acc.open, line.words)
            IN  IF EndsParagraph(line)
                THEN [closed |-> Append(acc.closed, open), open |-> <<>>]
                ELSE [acc EXCEPT !.open = open]
        split == FoldLeft(WithLine, [closed |-> <<>>, open |-> <<>>], text)
    IN  SelectSeq(Append(split.closed, split.open), LAMBDA p : p # <<>>)

\* Where the piece that begins after start characters ends: at the limit, or
\* before the last space in its second half.
CutAfter(value, start) ==
    LET limit  == Min({Len(value), start + MaxChars})
        spaces == {i \in start..(limit - 1) :
                       value[i + 1] = Space /\ i > start + MaxChars \div 2}
    IN  IF limit = Len(value) \/ spaces = {} THEN limit ELSE Max(spaces)

\* A paragraph in pieces that fit into a chunk.
SplitLong(value) ==
    LET Pieces[start \in 0..Len(value)] ==
            IF start = Len(value) THEN <<>>
            ELSE LET end == CutAfter(value, start)
                 IN  <<Stripped(SubSeq(value, start + 1, end))>> \o Pieces[end]
    IN  IF Len(value) <= MaxChars THEN <<value>>
        ELSE SelectSeq(Pieces[0], LAMBDA piece : piece # <<>>)

\* Wrong variant of Carried: the overlap counts towards the limit first, and
\* the end of the paragraph is cut off.
CutAtTheEnd(current, piece) ==
    LET joined == Joined(LeftStripped(LastChars(current, OverlapChars)), ParagraphBreak, piece)
    IN  SubSeq(joined, 1, Min({MaxChars, Len(joined)}))

\* What the next chunk begins with: the end of the last one and the piece
\* that had no room there, cut from the front when that is too long.
Carried(current, piece) ==
    LET overlap == LeftStripped(LastChars(current, OverlapChars))
    IN  LastChars(Stripped(Joined(overlap, ParagraphBreak, piece)), MaxChars)

\* The chunks of one text.  A piece never exceeds the limit, so that only a
\* chunk with something in it overflows; the else branch of chunk_units for
\* an empty one is never taken.
ChunksOf == [text \in Texts |->
      LET WithPiece(acc, piece) ==
              LET candidate == Joined(acc.current, ParagraphBreak, piece)
              IN  IF Len(candidate) <= MaxChars
                  THEN [acc EXCEPT !.current = candidate]
                  ELSE [done |-> Append(acc.done, acc.current),
                        current |-> Carried(acc.current, piece)]
          paragraphs == Paragraphs(text)
          pieces == FlattenSeq([i \in DOMAIN paragraphs |-> SplitLong(paragraphs[i])])
          chunked == FoldLeft(WithPiece, [done |-> <<>>, current |-> <<>>], pieces)
      IN  IF chunked.current = <<>> THEN chunked.done
          ELSE Append(chunked.done, chunked.current)]

\* Wrong variant of NextPosition: positions start anew in every unit.
PositionInUnit(drafts, i) == i - 1
\* Positions count through all units of a tender.
NextPosition(drafts, i) == Len(drafts) + i - 1

\* chunk_units: the drafts of the units of a tender, in their order.
ChunkUnits(units) ==
    LET WithUnit(drafts, unit) ==
            LET chunks == ChunksOf[unit.text]
            IN  drafts \o [i \in DOMAIN chunks |->
                    [attachment |-> unit.attachment, section |-> unit.section,
                     position |-> NextPosition(drafts, i), content |-> chunks[i]]]
    IN  FoldLeft(WithUnit, <<>>, units)
=============================================================================
