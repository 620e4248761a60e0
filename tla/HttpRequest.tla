---------------------------- MODULE HttpRequest ----------------------------
(***************************************************************************)
(* The request side of the HTTP statistics server (stats/http): the parser *)
(* that is fed the bytes of a connection as they arrive, the decoding of   *)
(* the URI, and the reply chosen for a request.                            *)
(*                                                                         *)
(* A character is a one-letter string or the name of a class the code      *)
(* treats alike: "=" stands for the tspecials that have no other part in   *)
(* the grammar, "CTL" for the control characters, "x80" for the bytes      *)
(* outside ASCII, "z" for the characters without a role.  The two version  *)
(* numbers and the texts of the headers are parsed but never read, so only *)
(* whether there is a header is kept.                                      *)
(***************************************************************************)
EXTENDS Integers, Sequences

Letters == {"G", "s", "t", "a", "e", "f", "H", "T", "P", "z", ".", "%", "+"}
Digits == {"0", "1", "2"}
TSpecials == {" ", "TAB", ":", "/", "="}
Ctls == {"CR", "LF", "TAB", "CTL"}
NotAscii == {"x80"}
Chars == Letters \cup Digits \cup TSpecials \cup Ctls \cup NotAscii

HexDigits == Digits \cup {"a", "e", "f"}

(* A character that may stand in a method or in the name of a header. *)
Token == Chars \ (NotAscii \cup Ctls \cup TSpecials)

NotCtl == Chars \ Ctls

----------------------------------------------------------------------------
(* The states of the parser: for each, the characters it accepts and the   *)
(* state that follows; any other character makes the request bad.          *)

RequestLineMoves ==
    [ method_start             |-> {<<Token, "method">>},
      method                   |-> {<<{" "}, "uri">>, <<Token, "method">>},
      uri                      |-> {<<{" "}, "http_version_h">>,
                                    <<NotCtl \ {" "}, "uri">>},
      http_version_h           |-> {<<{"H"}, "http_version_t_1">>},
      http_version_t_1         |-> {<<{"T"}, "http_version_t_2">>},
      http_version_t_2         |-> {<<{"T"}, "http_version_p">>},
      http_version_p           |-> {<<{"P"}, "http_version_slash">>},
      http_version_slash       |-> {<<{"/"}, "http_version_major_start">>},
      http_version_major_start |-> {<<Digits, "http_version_major">>},
      http_version_major       |-> {<<{"."}, "http_version_minor_start">>,
                                    <<Digits, "http_version_major">>},
      http_version_minor_start |-> {<<Digits, "http_version_minor">>},
      http_version_minor       |-> {<<{"CR"}, "expecting_newline_1">>,
                                    <<Digits, "http_version_minor">>},
      expecting_newline_1      |-> {<<{"LF"}, "header_line_start">>} ]

(* A line that starts with a blank continues the header before it, so the  *)
(* first line after the request line may not.                              *)
HeaderMoves(anyHeader) ==
    [ header_line_start         |-> {<<{"CR"}, "expecting_newline_3">>,
                                     <<Token, "header_name">>,
                                     <<IF anyHeader THEN {" ", "TAB"} ELSE {},
                                       "header_lws">>},
      header_lws                |-> {<<{"CR"}, "expecting_newline_2">>,
                                     <<{" ", "TAB"}, "header_lws">>,
                                     <<NotCtl \ {" "}, "header_value">>},
      header_name               |-> {<<{":"}, "space_before_header_value">>,
                                     <<Token, "header_name">>},
      space_before_header_value |-> {<<{" "}, "header_value">>},
      header_value              |-> {<<{"CR"}, "expecting_newline_2">>,
                                     <<NotCtl, "header_value">>},
      expecting_newline_2       |-> {<<{"LF"}, "header_line_start">>},
      expecting_newline_3       |-> {<<{"LF"}, "done">>} ]

ParserStates == DOMAIN RequestLineMoves \cup DOMAIN HeaderMoves(TRUE) \cup {"done"}

(* m_state, the parts of the Request that are read later, and the verdict. *)
Parsers == [state : ParserStates, uri : Seq(Chars), anyHeader : BOOLEAN,
            result : {"good", "bad", "indeterminate"}]

NewParser == [state |-> "method_start", uri |-> <<>>, anyHeader |-> FALSE,
              result |-> "indeterminate"]

Moves(p) == IF p.state \in DOMAIN RequestLineMoves
            THEN RequestLineMoves[p.state]
            ELSE HeaderMoves(p.anyHeader)[p.state]

consume(p, ch) ==
    LET to == {m[2] : m \in {m \in Moves(p) : ch \in m[1]}}
    IN IF to = {}
       THEN [p EXCEPT !.result = "bad"]
       ELSE LET next == CHOOSE s \in to : TRUE
            IN [state     |-> next,
                uri       |-> IF p.state = "uri" /\ next = "uri"
                              THEN Append(p.uri, ch) ELSE p.uri,
                anyHeader |-> p.anyHeader \/ (/\ p.state = "header_line_start"
                                              /\ next = "header_name"),
                result    |-> IF next = "done" THEN "good" ELSE "indeterminate"]

(* One turn of its loop: nothing is consumed after a verdict. *)
Advance(p, ch) ==
    IF p.result = "indeterminate" THEN consume(p, ch) ELSE p

(* Mutant: every read is parsed as the start of a request. *)
parse_afresh(p, segment) ==
    LET after[i \in 0..Len(segment)] ==
            IF i = 0 THEN NewParser ELSE Advance(after[i - 1], segment[i])
    IN after[Len(segment)]

(* RequestParser::parse: the characters that arrived together, up to the   *)
(* first verdict; the rest of the segment is not looked at.                *)
parse(p, segment) ==
    LET after[i \in 0..Len(segment)] ==
            IF i = 0 THEN p ELSE Advance(after[i - 1], segment[i])
    IN after[Len(segment)]

----------------------------------------------------------------------------
(* url_decode.  `is >> std::hex >> value' reads what it can of the two     *)
(* characters after the "%": it fails only if no digit can be read, so     *)
(* "%2z" is the character 2, and a sign may take the place of a digit.     *)

HexReadable(a, b) == a \in HexDigits \/ (a = "+" /\ b \in HexDigits)

HexChar(a, b) == CASE a = "2" /\ b = "e" -> "."
                   [] a = "2" /\ b = "f" -> "/"
                   [] OTHER -> "z"

(* The loop: i steps over the two characters after a "%" (skip). *)
Decodings == [ok : BOOLEAN, skip : 0..2, out : Seq(Chars)]

url_decode(in) ==
    LET step(d, i) ==
            CASE ~d.ok -> d
              [] d.ok /\ d.skip > 0 -> [d EXCEPT !.skip = @ - 1]
              [] d.ok /\ d.skip = 0 /\ in[i] = "%" ->
                   IF i + 2 <= Len(in) /\ HexReadable(in[i + 1], in[i + 2])
                   THEN [d EXCEPT !.skip = 2,
                                  !.out = Append(@, HexChar(in[i + 1], in[i + 2]))]
                   ELSE [d EXCEPT !.ok = FALSE]
              [] OTHER -> [d EXCEPT !.out = Append(@, IF in[i] = "+" THEN " " ELSE in[i])]
        after[i \in 0..Len(in)] ==
            IF i = 0 THEN [ok |-> TRUE, skip |-> 0, out |-> <<>>] ELSE step(after[i - 1], i)
    IN after[Len(in)]

----------------------------------------------------------------------------
(* Reply: the status, the status line and page that go with it, the two    *)
(* headers.  The text of a page is abstracted to the status it announces.  *)

Statuses == {200, 201, 202, 204, 300, 301, 302, 304, 400, 401, 403, 404,
             500, 501, 502, 503}

StatusLine(status) == IF status \in Statuses THEN status ELSE 500

StockPage(status) == IF status \in Statuses THEN status ELSE 500

stock_reply(status) ==
    [status |-> status, content |-> StockPage(status), type |-> "text/html"]

StatsPage == "metrics"

extension_to_type(extension) ==
    CASE extension = "json" -> "application/json"
      [] extension \in {"htm", "html"} -> "text/html"
      [] extension \in {"gif", "jpg", "png"} -> "image"
      [] OTHER -> "text/plain"

(* What goes over the wire, in this order. *)
to_buffers(rep) == <<StatusLine(rep.status), rep.type, rep.content>>

DotDot(path) == \E i \in 1..(Len(path) - 1) : path[i] = "." /\ path[i + 1] = "."

handle_request(uri) ==
    LET d == url_decode(uri)
        request_path == d.out
    IN CASE ~d.ok -> stock_reply(400)
         [] d.ok /\ (\/ request_path = <<>>
                     \/ request_path[1] # "/"
                     \/ DotDot(request_path)) -> stock_reply(400)
         [] d.ok /\ request_path = <<"/", "s", "t", "a", "t", "s">> ->
              [status |-> 200, content |-> StatsPage, type |-> extension_to_type("json")]
         [] OTHER -> stock_reply(404)
=============================================================================
