----------------------------- MODULE MCHttpBody -----------------------------
(* Instances of HttpBody for TLC.                                          *)
EXTENDS HttpBody

X == 19    \* any other byte

Response(bodyless, encoding, length, s, closes, chunks) ==
  [bodyless |-> bodyless, encoding |-> encoding, length |-> length,
   stream |-> s, closes |-> closes, chunks |-> chunks]

Chunk(at, digits, size, data) == [at |-> at, digits |-> digits, size |-> size, data |-> data]

Chunks(s, closes, chunks) == Response(FALSE, "chunked", -1, s, closes, chunks)

\* two chunks, the first with an extension and newlines for data; a trailer
TwoChunks == << 2, X, LF,  LF, 1,  CR, LF,  0, 1, CR, LF,  3,  LF,  0, CR, LF,
                X, X, LF,  CR, LF >>
TwoLayout == << Chunk(0, 1, 2, 3), Chunk(7, 2, 1, 11), Chunk(13, 1, 0, 16) >>

Cut(s, n) == SubSeq(s, 1, n)

MCResponses ==
  { Chunks(TwoChunks, FALSE, TwoLayout) }
    \cup { Chunks(Cut(TwoChunks, n), TRUE, TwoLayout) : n \in 0 .. 20 }
    \* a whole body, shorter than what a size may take
    \cup { Chunks(<< 1, LF, X, LF, 0, LF, LF >>, FALSE,
                  << Chunk(0, 1, 1, 2), Chunk(4, 1, 0, 6) >>) }
    \* a last size line and a trailer that is no header, or longer than the buffer
    \cup { Chunks(<< 0, LF, X, X, X, X, LF, LF >>, FALSE, << Chunk(0, 1, 0, 2) >>),
           Chunks(<< 0, LF, Bad, LF, LF >>, TRUE, << Chunk(0, 1, 0, 2) >>),
           \* sizes: 18 is too large, CR is none, four digits are too many
           Chunks(<< 1, LF, X, LF, 1, 2, LF, X, X >>, TRUE,
                  << Chunk(0, 1, 1, 2), Chunk(4, 2, NoSize, 0) >>),
           Chunks(<< 1, LF, X, LF, CR, LF, X >>, FALSE,
                  << Chunk(0, 1, 1, 2), Chunk(4, 0, NoSize, 0) >>),
           Chunks(<< 0, 0, 0, 1, LF, X >>, TRUE, << Chunk(0, 4, NoSize, 0) >>) }
    \cup { Response(TRUE, "chunked", 2, << X, X >>, FALSE, << >>) }
    \* Transfer-Encoding goes before Content-Length
    \cup { Response(FALSE, e, n, SubSeq(<< X, LF, 3, X >>, 1, k), closes, << >>) :
             e \in {"absent", "other"}, n \in {-1, 0, 3}, k \in {2, 4}, closes \in BOOLEAN }
=============================================================================
