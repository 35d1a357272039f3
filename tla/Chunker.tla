-------------------------------- MODULE Chunker --------------------------------
(* The chunker of the RAG index (internal/rag/chunk.go).  A document is its "##"   *)
(* sections, a section its paragraphs, a paragraph its length in runes; 0 is a      *)
(* blank one.  A piece of a section lists its paragraphs by their places.           *)
EXTENDS Naturals, Sequences

CONSTANTS
    MaxChunk,    \* maxChunkRunes
    Gap          \* the runes between two paragraphs

ASSUME ChunkerAssumptions ==
    /\ MaxChunk \in Nat \ {0}
    /\ Gap \in Nat

--------------------------------------------------------------------------------
(* A section *)

\* The runes of a text up to each of its paragraphs.
Runes(text) ==
    LET upto[n \in 0 .. Len(text)] ==
            IF n = 0 THEN 0
            ELSE upto[n - 1] + (IF n = 1 THEN 0 ELSE Gap) + text[n]
    IN  upto

Length(text) == Runes(text)[Len(text)]

Written(section) == {p \in DOMAIN section : section[p] > 0}

NoParts == [pieces |-> <<>>, size |-> 0]

\* acc, the builder, has the last piece, which is size runes long.
Fits(parts, para) == parts.pieces # <<>> /\ parts.size + para + Gap <= MaxChunk

\* Mutant of Extended: what does not fit any more replaces what has been gathered.
ExtendedAnew(parts, p, para) ==
    [parts EXCEPT !.pieces[Len(parts.pieces)] = <<p>>, !.size = para]

Extended(parts, p, para) ==
    [parts EXCEPT !.pieces[Len(parts.pieces)] = Append(@, p), !.size = @ + Gap + para]

\* One turn of the loop of splitLargeSection: blank paragraphs are left out.
Gathered(parts, p, para) ==
    IF para = 0 THEN parts
    ELSE IF Fits(parts, para) THEN Extended(parts, p, para)
    ELSE [pieces |-> Append(parts.pieces, <<p>>), size |-> para]

Parts(section) ==
    LET after[n \in 0 .. Len(section)] ==
            IF n = 0 THEN NoParts ELSE Gathered(after[n - 1], n, section[n])
    IN  after

\* splitByRunes, the fallback, is left with texts without a paragraph: its pieces are blank.
SplitByRunes(section) ==
    [i \in 1 .. (Length(section) + MaxChunk - 1) \div MaxChunk |-> <<>>]

SplitLargeSection(section) ==
    LET pieces == Parts(section)[Len(section)].pieces
    IN  IF Length(section) <= MaxChunk THEN <<[p \in DOMAIN section |-> p]>>
        ELSE IF pieces # <<>> THEN pieces
        ELSE SplitByRunes(section)

--------------------------------------------------------------------------------
(* A document *)

Of(section, pieces) ==
    [i \in DOMAIN pieces |-> [section |-> section, paras |-> pieces[i]]]

\* The pieces of all sections; a chunk is numbered by its place among them.
Pieces(document) ==
    LET upto[n \in 0 .. Len(document)] ==
            IF n = 0 THEN <<>>
            ELSE upto[n - 1] \o Of(n, SplitLargeSection(document[n]))
    IN  upto[Len(document)]

\* The text of a piece: which paragraphs it has, and how long these are.
TextOf(document, piece) ==
    {<<piece.section, p, document[piece.section][p]>> :
        p \in {piece.paras[k] : k \in DOMAIN piece.paras}
                 \cap Written(document[piece.section])}

--------------------------------------------------------------------------------
TextOfPiece(section, piece) == [k \in DOMAIN piece |-> section[piece[k]]]

\* A paragraph that no chunk can take whole.
Oversized(section, p) == section[p] > MaxChunk

\* The pieces go through the section in order; only of an oversized paragraph may more
\* than one have text.
InOrder(section, pieces) ==
    \A i, j \in 1 .. Len(pieces) : \A a \in 1 .. Len(pieces[i]), b \in 1 .. Len(pieces[j]) :
        i < j \/ (i = j /\ a < b) =>
            \/ pieces[i][a] < pieces[j][b]
            \/ pieces[i][a] = pieces[j][b] /\ Oversized(section, pieces[i][a])

\* The pieces of a section are its text: every paragraph is in them, in order; a piece of
\* paragraphs that are not oversized has at most maxChunkRunes, and no piece could take in
\* the paragraph after it.  Into how many pieces an oversized paragraph goes is left open.
SplitExact(section) ==
    LET pieces == SplitLargeSection(section)
        Size(i) == Length(TextOfPiece(section, pieces[i]))
    IN  /\ InOrder(section, pieces)
        /\ \A p \in Written(section) :
              \E i \in 1 .. Len(pieces) : \E k \in 1 .. Len(pieces[i]) : pieces[i][k] = p
        /\ \A i \in 1 .. Len(pieces) :
              (\A k \in 1 .. Len(pieces[i]) : ~Oversized(section, pieces[i][k]))
                  => Size(i) <= MaxChunk
        /\ \A i \in 1 .. Len(pieces) - 1 :
              pieces[i] # <<>> => Size(i) + Gap + section[pieces[i + 1][1]] > MaxChunk

\* The order of the texts of two chunks.
Before(para, other) ==
    \/ para[1] < other[1] \/ (para[1] = other[1] /\ para[2] < other[2])
    \/ para = other /\ para[3] > MaxChunk
================================================================================
