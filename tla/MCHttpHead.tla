----------------------------- MODULE MCHttpHead -----------------------------
(* Instances of HttpHead for TLC.                                          *)
EXTENDS HttpHead

X == 19    \* any other byte

Head_(s, version, status, reason, closes) ==
  [stream |-> s, version |-> version, status |-> status, reason |-> reason,
   closes |-> closes]

Cut(s, n) == SubSeq(s, 1, n)

\* a status line, two headers, an empty line, the beginning of a body
Reply == << X, X, X, CR, LF,  X, LF,  X, X, CR, LF,  CR, LF,  X, LF >>
Short == << X, X, LF, LF, LF >>

MCHeads ==
  { Head_(Cut(Reply, n), "1.1", TRUE, TRUE, TRUE) : n \in 0 .. 15 }
    \cup { Head_(s, "1.1", TRUE, reason, FALSE) : s \in {Reply, Short}, reason \in BOOLEAN }
    \cup { Head_(Short, v, status, TRUE, TRUE) : v \in Versions, status \in BOOLEAN }
    \* a status line longer than the buffer, a line that is no header, many lines
    \cup { Head_(<< X, X, X, X, X, X, X, X, LF, LF >>, "1.1", TRUE, TRUE, FALSE),
           Head_(<< X, X, LF, X, X, X, X, X, X, X, LF, LF >>, "1.1", TRUE, TRUE, FALSE),
           Head_(<< X, X, LF, Bad, LF, LF >>, "1.1", TRUE, TRUE, FALSE),
           Head_(<< X, X, LF, X, LF, X, X, LF, X, X, X, LF, X, LF, LF >>, "1.0", TRUE, TRUE, TRUE) }

MCReplies == { Head_(Reply, "1.1", TRUE, TRUE, FALSE) }
=============================================================================
