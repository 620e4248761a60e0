---------------------------- MODULE MCHttpServer ----------------------------
EXTENDS HttpServer

CONSTANTS probe, visitor      \* two clients

EditChars == {" ", "TAB", "CR", "LF", ":", "=", "CTL", "x80", "z", "1", "."}
Line(uri) == <<"G", " ">> \o uri \o <<" ", "H", "T", "T", "P", "/", "1", ".", "0", "CR", "LF">>
End == <<"CR", "LF">>
StatsUri == <<"/", "s", "t", "a", "t", "s">>

(* Requests that are right, with and without headers and escapes. *)
Uris == {StatsUri, <<"/", "a">>, <<"s">>, <<"/", ".", ".">>, <<"/", "%", "2", "e", ".">>,
         <<"%", "2", "f", "s", "t", "a", "t", "s">>, <<"/", "%", "z", "2">>, <<"/", "%", "2">>,
         <<"/", "+", "%", "+", "2">>, <<>>}
Headers == <<"a", ":", " ", "z", "CR", "LF", " ", "TAB", "z", "CR", "LF">>

Whole == {Line(u) \o End : u \in Uris} \cup {Line(StatsUri) \o Headers \o End \o <<"z">>}

(* One character dropped, added or changed, or the rest missing. *)
Edited(s) ==
    UNION {   {SubSeq(s, 1, i - 1) \o SubSeq(s, i + 1, Len(s)),
               SubSeq(s, 1, i - 1)}
         \cup {SubSeq(s, 1, i - 1) \o <<ch>> \o SubSeq(s, i, Len(s)) : ch \in EditChars}
         \cup {[s EXCEPT ![i] = ch] : ch \in EditChars} : i \in 1..Len(s)}

EditBase == Line(StatsUri) \o <<"a", ":", " ", "CR", "LF", " ", "CR", "LF">> \o End

(* Any stream of the one client alone, and some with the other beside it. *)
Stream(s, t) == [c \in Conns |-> IF c = probe THEN s ELSE t]

MCSent ==    {Stream(s, <<>>) : s \in (Whole \cup Edited(EditBase)) \ {<<>>}}
        \cup {Stream(s, t) : s \in {Line(StatsUri) \o End, <<"G", "CTL">>},
                             t \in {<<"=">>, <<"G">>}}
=============================================================================
