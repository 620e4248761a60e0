------------------------------- MODULE MCRecords -------------------------------
\* GELF documents: a good one with at most two of its members changed, left out or, for
\* the additional one, doubled; the values lie on both sides of every check.  The other
\* formats have a few documents of their own.
EXTENDS Records

MinTimestamp == 10

Good == [version |-> Str("1.1"), host |-> Str("h"), short_message |-> Str("s"),
         full_message |-> Str("f"), timestamp |-> Dbl(20), level |-> Int32(9), a |-> Int32(3)]

Keys == <<"version", "host", "short_message", "full_message", "timestamp", "level", "a">>

Others(key) ==
    CASE key = "version"       -> {Absent, Str("1.0"), Dbl(1)}
      [] key = "host"          -> {Absent, Str(""), Int32(1)}
      [] key = "short_message" -> {Absent, Str(""), Nested}
      [] key = "full_message"  -> {Absent, Str(""), Bool(1)}
      [] key = "timestamp"     -> {Absent, Int32(5), Int32(10), NumStr(9), NumStr(30), Str("nan"), Str("inf"), Str("-inf"), Str("s"), Bool(1)}
      [] key = "level"         -> {Absent, Int32(0), Int32(1), Int32(10), Int32(257), Int32(-1), NumStr(2), Str("s"), Dbl(2), Bool(1)}
      [] key = "a"             -> {Absent, Str("s"), Str("bytes"), Dbl(4), Fraction(4), BigDbl(4), Bool(0), Long(7), Nested}

Members(f) == SelectSeq([i \in 1..Len(Keys) |-> <<Keys[i], f[Keys[i]]>>], LAMBDA m : m[2] # Absent)

GelfDocs ==
    {Object(Members([Good EXCEPT ![k] = v, ![l] = w])) :
        <<k, v, l, w>> \in UNION {{<<k, v, l, w>> : v \in Others(k) \cup {Good[k]}, w \in Others(l)} :
                                    <<k, l>> \in Range(Keys) \X Range(Keys)}}
    \cup {Object(Members(Good)),
          Object(Append(Members(Good), <<"_a", Str("s")>>)),
          Object(<< <<"_a", Str("s")>> >> \o Members(Good)),
          Object(Append(Members(Good), <<"", Str("s")>>))}
    \cup {Text(f) : f \in {"text", "empty", "huge", "array", "primitive", "null"}}

JournalDocs ==
    {Object(SelectSeq(<< <<"MESSAGE", m>>, <<"_HOSTNAME", h>>, <<"PRIORITY", Str(x)>>,
                         <<"__TIME", Dbl(t)>> >>, LAMBDA f : f[2] # Absent)) :
        m \in {Absent, Str("s"), Str(""), Str("bytes")}, h \in {Absent, Str("h")},
        x \in {"num", "bytes"}, t \in {5, 20}}

Payload(kind, wrap, doc) == [kind |-> kind, wrap |-> wrap, doc |-> doc]

MCPayloads ==
    {Payload(kind, "plain", d) : kind \in {"gelf", "json", "tail"}, d \in GelfDocs}
    \cup {Payload("tail", "data", d) : d \in {x \in GelfDocs : x.form = "object"}}
    \cup {Payload("tail", "data text", Text("text"))}
    \cup {Payload("gelf", w, Object(Members(Good))) : w \in {"zlib", "gzip", "corrupt", "short"}}
    \cup {Payload("journal", "plain", d) : d \in JournalDocs}
    \cup {Payload("dummy", "plain", Text(f)) : f \in {"text", "empty"}}

MCScripts == {"data", "string", "false", "number", "throw"}
=============================================================================
