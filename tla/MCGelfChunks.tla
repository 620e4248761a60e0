---------------------------- MODULE MCGelfChunks ----------------------------
(***************************************************************************)
(* Small instances of GelfChunks: the datagrams on the wire.               *)
(***************************************************************************)
EXTENDS GelfChunks

Chunk(i, n, c) == [id |-> i, num |-> n, cnt |-> c]

TwoIds == {"a", "b"}

\* A message of two chunks, with a chunk of another count and one with a
\* number outside the message; of another message one chunk only, and a chunk
\* with both header bytes above 127.
TwoMessages ==
    {Chunk("a", 0, 2), Chunk("a", 1, 2), Chunk("a", 1, 3), Chunk("a", 2, 2),
     Chunk("b", 0, 2), Chunk("b", 128, 129)}

\* The network duplicates a chunk of the first message.
OneTwice == [d \in Datagrams |-> IF d = Chunk("a", 1, 2) THEN 2 ELSE 1]
=============================================================================
