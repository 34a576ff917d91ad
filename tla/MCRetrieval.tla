---------------------------- MODULE MCRetrieval ----------------------------
(***************************************************************************)
(* A small instance of Retrieval, and chunk_text over bounded inputs.      *)
(***************************************************************************)
EXTENDS Retrieval, TLC

CONSTANTS i1, i2, here, there, f

MCRoots == {<<f>>}

\* Nothing, one chunk, and three chunks with a blank window between them.
MCTexts == {<<>>, <<TRUE>>, <<TRUE, FALSE, FALSE, TRUE, TRUE>>}

Stripped(n) == {text \in [1 .. n -> BOOLEAN] : n > 0 => text[1] /\ text[n]}

\* Whatever the configured size and overlap, also negative or larger than the size,
\* the chunks hold every character that is not blank, are numbered without gaps, and
\* are no wider than the size, when that is positive.
ASSUME ChunkingSound ==
    \A n \in 0 .. 6 : \A text \in Stripped(n), size \in -1 .. 4, overlap \in -2 .. 5 :
        LET chunks == ChunksOf(text, size, overlap)
        IN  /\ UNION {c.at : c \in chunks} = Marks(text)
            /\ {c.index : c \in chunks} = 0 .. Cardinality(chunks) - 1
            /\ size > 0 => \A c \in chunks : \A p, q \in c.at : p - q < size
=============================================================================
