------------------------------ MODULE MCIngest ------------------------------
(***************************************************************************)
(* A small instance of Ingest for TLC: two zips, of which the second may   *)
(* lack an entry, end early, or hold a row that does not parse.            *)
(***************************************************************************)
EXTENDS Ingest

MCBases == {1, 2}

Pair(m, o) == [s \in Streams |-> IF s = "message" THEN m ELSE o]
Numbers(n) == [k \in 1..n |-> "number"]
Message == Numbers(6)
Short == Numbers(5)
Untyped == [Message EXCEPT ![2] = "text"]
Book == Numbers(4)
\* One level and a rest that is no number; and a level of which the last is none.
Rest == Append(Book, "text")
Unsized == [Book EXCEPT ![4] = "text"]

Seconds == { Pair(None, None), Pair(<< Message >>, None),
             Pair(<< Message, Message >>, << Rest, Rest >>),
             Pair(<< Message, Message >>, << Book >>),
             Pair(<< Message >>, << Book, Book >>),
             Pair(<< >>, << >>),
             Pair(<< Short >>, << Book >>),
             Pair(<< Message, Untyped >>, << Book, Book >>),
             Pair(<< Message, Message >>, << Book, Unsized >>),
             Pair(<< Message, Message >>, << Book, Broken >>) }

MCCorpora == { [b \in MCBases |-> IF b = 1 THEN Pair(<< Message >>, << Book >>) ELSE second] :
                   second \in Seconds }

=============================================================================
