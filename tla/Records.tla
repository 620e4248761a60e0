-------------------------------- MODULE Records --------------------------------
(***************************************************************************)
(* What becomes of one record on its way through the program: the message  *)
(* an input makes of it (formats/), what a script sees and returns         *)
(* (IsolateScope), and the record a GELF or a log output makes of that     *)
(* (outputs/gelf/Output.cpp, outputs/log/Output.cpp).                      *)
(*                                                                         *)
(* A JSON value has a type t, a text s and a number n.  Of a text it       *)
(* matters whether it is empty, the version "1.1", spells a number (s =    *)
(* "num", the number in n), spells NaN or an infinity, is not UTF-8 (s =   *)
(* "bytes") or is anything else; of a double, whether it is whole.  A      *)
(* document has a form and, when it is an object, a sequence of members;   *)
(* an array is one with a scalar element, a "huge" document holds a number *)
(* that no double can hold.                                                *)
(*                                                                         *)
(* A step ends in one of three ways: a result, an iqlogger::Exception,     *)
(* which the loops catch and which loses this record only, or any other    *)
(* exception, which leaves the thread and ends the process.                *)
(***************************************************************************)
EXTENDS Integers, Sequences, SequencesExt

CONSTANTS Payloads,      \* what the inputs receive: [kind, wrap, doc]
          Scripts,       \* what scripts do with a message
          min_timestamp  \* 1 January 2019

ASSUME MinTimestampAssumption == min_timestamp \in Nat

VARIABLES stage,    \* "idle", "record", "message", "written", "lost" or "dead"
          payload,  \* the record
          message,  \* the message, and its kind
          scripted, \* what the script made of it, "none" before or without
          written,  \* the GELF output's record: a document
          logged,   \* the log output's record
          caught    \* IsolateScope::m_try_catch holds an exception

vars == <<stage, payload, message, scripted, written, logged, caught>>

-----------------------------------------------------------------------------
(* Values and documents. *)

Value(t, s, n) == [t |-> t, s |-> s, n |-> n]
Str(s)    == Value("string", s, 0)
NumStr(n) == Value("string", "num", n)
Int32(n)  == Value("int", "", n)
Long(n)   == Value("long", "", n)      \* an integer beyond 32 bits, n its low part
Dbl(n)    == Value("double", "", n)       \* a whole one of less than 2^31
Fraction(n) == Value("double", "fraction", n)
BigDbl(n) == Value("double", "big", n)    \* a whole one of 2^31 or more, n its low part
Bool(n)   == Value("bool", "", n)
Nested    == Value("nested", "", 0)    \* an object, an array or null
Absent    == Value("absent", "", 0)

Doc(form, members) == [form |-> form, members |-> members]
Object(members) == Doc("object", members)
Text(form) == Doc(form, << >>)         \* "text" and "empty" are not JSON
HasBytes(doc) == \E i \in 1..Len(doc.members) : doc.members[i][2].s = "bytes"

\* nlohmann's parser: UTF-8 only, and no number beyond a double.
IsJson(doc) == doc.form \notin {"text", "empty", "huge"} /\ ~HasBytes(doc)

\* FindMember: the first of that name.
Field(doc, key) ==
    IF \E i \in 1..Len(doc.members) : doc.members[i][1] = key
    THEN SelectSeq(doc.members, LAMBDA m : m[1] = key)[1][2]
    ELSE Absent

SystemFields == {"version", "host", "short_message", "full_message", "timestamp", "level"}

\* The name an additional field gets, and the order nlohmann's map has the names in.
Underscored(key) ==
    CASE key = "a" -> "_a" [] key = "file" -> "_file" [] key = "PRIORITY" -> "_PRIORITY"
      [] key = "" -> "_" [] OTHER -> key
SortedKeys == <<"", "PRIORITY", "_a", "a", "full_message", "host", "level", "short_message",
                "timestamp", "version">>

Scalar(v) == v.t \in {"string", "int", "long", "double", "bool"}

-----------------------------------------------------------------------------
(* GelfMessage. *)

Now == 50       \* getCurrentTime; the time a record takes on its way is not modelled
NotFinite == -1

\* GelfMessage::gelf::gelf(): the defaults.
DefaultGelf(host) ==
    [version |-> "1.1", host |-> host, short_message |-> "", full_message |-> "",
     timestamp |-> Now, level |-> 1, extra |-> [k \in {} |-> Absent]]

\* emplace: the first one stays.
Emplace(extra, key, v) ==
    [k \in DOMAIN extra \cup {key} |-> IF k \in DOMAIN extra THEN extra[k] ELSE v]

\* The checks of gelf(string_view), field by field: "ok", "error" for a GelfParseError,
\* "escape" for what std::stod and std::stoi throw.
TextVerdict(v) == IF v.t = "string" /\ v.s # "" THEN "ok" ELSE "error"

TimestampVerdict(v) ==
    CASE v.t \in {"int", "long", "double"} \/ v.s = "num" -> IF v.n < min_timestamp THEN "error" ELSE "ok"
      [] v.t = "absent" \/ v.s \in {"nan", "inf"}         -> "ok"
      [] v.t = "string" /\ v.s # "-inf"                   -> "escape"
      [] OTHER                                            -> "error"

LevelVerdict(v) ==
    CASE v.t = "int" \/ v.s = "num" -> IF v.n % 256 \in 1..9 THEN "ok" ELSE "error"
      [] v.t = "absent"                       -> "ok"
      [] v.t = "string" /\ v.s # "num"        -> "escape"
      [] OTHER                                -> "error"

ExtraVerdict(doc) ==
    IF \A i \in 1..Len(doc.members) :
          doc.members[i][1] \in SystemFields
          \/ doc.members[i][2].t \in {"string", "int", "double", "bool"}
    THEN "ok" ELSE "error"

\* In the order of the code: the first check that fails decides.
Verdicts(doc) ==
    << IF doc.form = "object" THEN "ok" ELSE "error",
       IF Field(doc, "version") = Str("1.1") THEN "ok" ELSE "error",
       TextVerdict(Field(doc, "host")),
       TextVerdict(Field(doc, "short_message")),
       IF Field(doc, "full_message").t \in {"string", "absent"} THEN "ok" ELSE "error",
       TimestampVerdict(Field(doc, "timestamp")),
       LevelVerdict(Field(doc, "level")),
       ExtraVerdict(doc) >>

Verdict(doc) ==
    LET v == SelectSeq(Verdicts(doc), LAMBDA x : x # "ok")
    IN  IF v = << >> THEN "ok" ELSE v[1]

\* gelf(string_view) of a document that passes.  The level is an unsigned char.
parse(doc) ==
    LET t == Field(doc, "timestamp")
        l == Field(doc, "level")
    IN  [version |-> "1.1",
         host |-> Field(doc, "host").s,
         short_message |-> Field(doc, "short_message").s,
         full_message |-> Field(doc, "full_message").s,
         timestamp |-> CASE t.t = "absent" -> Now [] t.s \in {"nan", "inf"} -> NotFinite [] OTHER -> t.n,
         level |-> IF l.t = "absent" THEN 1 ELSE l.n % 256,
         extra |-> FoldLeft(LAMBDA e, m : IF m[1] \in SystemFields THEN e
                                          ELSE Emplace(e, Underscored(m[1]), m[2]),
                            [k \in {} |-> Absent], doc.members)]

(* Faulty variant: the level is left out when it is the worst one. *)
dump_without_nine(m) ==
    Object(<< <<"version", Str(m.version)>>, <<"host", Str(m.host)>>,
              <<"short_message", Str(m.short_message)>>, <<"full_message", Str(m.full_message)>>,
              <<"timestamp", Dbl(m.timestamp)>> >>
           \o (IF m.level \in 1..8 THEN << <<"level", Int32(m.level)>> >> ELSE << >>)
           \o SetToSeq({<<k, m.extra[k]>> : k \in DOMAIN m.extra}))

\* gelf::dump.  rapidjson writes nothing for a double that is not finite.
dump(m) ==
    IF m.timestamp = NotFinite THEN Text("text")
    ELSE Object(<< <<"version", Str(m.version)>>, <<"host", Str(m.host)>>,
                   <<"short_message", Str(m.short_message)>> >>
                \o (IF m.full_message # "" THEN << <<"full_message", Str(m.full_message)>> >> ELSE << >>)
                \o << <<"timestamp", Dbl(m.timestamp)>> >>
                \o (IF m.level # 0 THEN << <<"level", Int32(m.level)>> >> ELSE << >>)
                \o SetToSeq({<<k, m.extra[k]>> : k \in DOMAIN m.extra}))

\* setField with one of the ObjectVariants' own types, here always a string or a double.
setField(m, key, v) ==
    CASE key = "" -> m
      [] key \in {"version", "host", "short_message", "full_message"} ->
            IF v.t = "string" THEN [m EXCEPT ![key] = v.s] ELSE m
      [] key = "timestamp" -> [m EXCEPT !.timestamp = v.n]
      [] OTHER -> [m EXCEPT !.extra = Emplace(m.extra, Underscored(key), v)]

\* setField with a json value: the value is converted to the field's type, and a
\* conversion that does not exist is a json::type_error.
Converts(key, v) ==
    CASE key \in {"version", "host", "short_message", "full_message"} -> v.t = "string"
      [] key = "timestamp" -> v.t \in {"int", "long", "double"}
      [] key = "level"     -> v.t # "string"
      [] OTHER             -> TRUE

(* Faulty variant: a host that is there stays. *)
setFieldJson_default_host(m, key, v) ==
    CASE key \in {"version", "short_message", "full_message"} -> [m EXCEPT ![key] = v.s]
      [] key = "host"      -> m
      [] key = "timestamp" -> [m EXCEPT !.timestamp = v.n]
      [] key = "level"     -> [m EXCEPT !.level = v.n % 256]
      [] OTHER -> [m EXCEPT !.extra = Emplace(m.extra, Underscored(key), v)]

setFieldJson(m, key, v) ==
    CASE key = "" -> m
      [] key \in {"version", "host", "short_message", "full_message"} -> [m EXCEPT ![key] = v.s]
      [] key = "timestamp" -> [m EXCEPT !.timestamp = v.n]
      [] key = "level"     -> [m EXCEPT !.level = v.n % 256]
      [] OTHER -> [m EXCEPT !.extra = Emplace(m.extra, Underscored(key),
                                              IF v.t = "long" THEN Int32(v.n) ELSE v)]

\* The loop over the members, in nlohmann's order: scalars only, up to a type_error.
SetAll(gelf, doc) ==
    FoldLeft(LAMBDA r, key :
                LET v == Field(doc, key)
                IN  IF r.failed \/ ~Scalar(v) THEN r
                    ELSE IF ~Converts(key, v) THEN [r EXCEPT !.failed = TRUE]
                    ELSE [r EXCEPT !.gelf = setFieldJson(r.gelf, key, v)],
             [gelf |-> gelf, failed |-> FALSE], SortedKeys)

-----------------------------------------------------------------------------
(* inputs::Record::exportMessage: the message an input makes of a record. *)

Result(how, kind, body) == [how |-> how, kind |-> kind, body |-> body]
Fails(how) == Result(how, "none", Text("empty"))

\* decompress: two bytes at most, or a broken stream, is a GelfException.
decompress(p) == IF p.wrap \in {"short", "corrupt"} THEN "error" ELSE "ok"

exportMessage(p) ==
    CASE p.kind = "gelf" ->
            IF decompress(p) # "ok" THEN Fails("error")
            ELSE IF Verdict(p.doc) # "ok" THEN Fails(Verdict(p.doc))
            ELSE Result("ok", "gelf", dump(parse(p.doc)))
      [] p.kind = "json" ->          \* the overflow of a number is no parse_error
            IF IsJson(p.doc) THEN Result("ok", "json", p.doc)
            ELSE Fails(IF p.doc.form = "huge" THEN "escape" ELSE "error")
      [] OTHER -> Result("ok", p.kind, p.doc)

-----------------------------------------------------------------------------
(* IsolateScope::process: what a script makes of a message. *)

\* The script's argument: a JSON message itself, or an object with the message under
\* "data".  What dump leaves of a GELF message whose timestamp is not finite is not JSON.
exportMessage2Json(kind, body) ==
    CASE kind = "json" -> body
      [] kind = "gelf" /\ body.form # "object" -> Text("text")
      [] OTHER -> Object(<< <<"input", Str("text")>>, <<"data", Nested>> >>)

\* wrapObject: JSON::Parse throws in the context of m_try_catch, a primitive is refused.
Parses(kind, body) == IsJson(exportMessage2Json(kind, body))
Wrappable(kind, body) == exportMessage2Json(kind, body).form \in {"object", "array"}

\* A value as JSON::Stringify writes it: JavaScript has doubles only and writes whole
\* ones as integers, and bytes that are not UTF-8 have been replaced.
Stringified(v) ==
    CASE v.t = "double" /\ v.s = ""    -> Int32(v.n)
      [] v.t = "double" /\ v.s = "big" -> Long(v.n)
      [] v.s = "bytes"                 -> Str("replaced")
      [] OTHER                         -> v

\* The data as the script returns it.  A tailed or dummy line is a string.
ThroughScript(kind, body) ==
    IF kind \in {"tail", "dummy"} THEN Text("text") ELSE
    [body EXCEPT !.members =
        [i \in 1..Len(body.members) |-> <<body.members[i][1], Stringified(body.members[i][2])>>]]

\* Whatever it can say about what was thrown, it throws a ProcessorException.
processException == Fails("error")

(* Faulty variant: a string result is not accepted. *)
process_objects_only(kind, body, does) ==
    IF ~Wrappable(kind, body) \/ does = "throw" \/ caught THEN Fails("error")
    ELSE CASE does = "false" -> Fails("ignored")
           [] does = "data"  -> Result("ok", "processor", ThroughScript(kind, body))
           [] OTHER          -> Fails("error")

\* The script returns the message's data as an object, a string, false, something else
\* or throws.  m_try_catch is never reset, so once it has caught something HasCaught()
\* is true after every later call.
process(kind, body, does) ==
    IF ~Wrappable(kind, body) \/ does = "throw" THEN Fails("error")
    ELSE IF caught THEN processException
    ELSE CASE does = "false"  -> Fails("ignored")
           [] does = "data"   -> Result("ok", "processor", ThroughScript(kind, body))
           [] does = "string" -> Result("ok", "processor", Text("text"))
           [] OTHER           -> Fails("error")

-----------------------------------------------------------------------------
(* outputs::Record<Gelf>: one constructor per kind of message. *)

MyHost == "me"
Raw == Str("raw")      \* the message's own text as a field

\* A message without text gets the entry's JSON, and dump() refuses what is not UTF-8:
\* a json::type_error, which nobody on the export thread catches.
OfJournal(data) ==
    LET m0 == DefaultGelf(MyHost)
        m1 == setField(m0, "short_message",
                       IF Field(data, "MESSAGE") = Absent THEN Raw ELSE Field(data, "MESSAGE"))
        m2 == setField(m1, "timestamp", Field(data, "__TIME"))
        m3 == IF Field(data, "_HOSTNAME") = Absent THEN m2
              ELSE setField(m2, "host", Field(data, "_HOSTNAME"))
    IN  IF Field(data, "MESSAGE") = Absent /\ HasBytes(data) THEN Fails("escape")
        ELSE Result("ok", "gelf", dump(
                FoldLeft(LAMBDA m, f : IF f[1] \in {"MESSAGE", "_HOSTNAME", "__TIME"} THEN m
                                       ELSE setField(m, f[1], f[2]), m3, data.members)))

\* wrap = "data": the line is {"data": doc}; wrap = "data text": {"data": "..."}.
OfTail(p) ==
    LET file(m) == Result("ok", "gelf", dump(setField(m, "file", Str("text"))))
        raw(m)  == file(setField(m, "short_message", IF p.doc.form = "empty" THEN Str("") ELSE Raw))
        all     == SetAll(DefaultGelf(MyHost), p.doc)
    IN  CASE p.wrap = "data text" -> Fails("error")
          [] p.wrap # "data text" /\ ~IsJson(p.doc) -> raw(DefaultGelf(MyHost))
          [] p.wrap = "data" /\ IsJson(p.doc) -> IF all.failed THEN raw(all.gelf) ELSE file(all.gelf)
          [] OTHER -> IF Verdict(p.doc) # "ok" THEN Fails(Verdict(p.doc))
                      ELSE file(parse(p.doc))

\* it.key() of an array's scalar element or of a primitive throws; null has no elements.
\* Nobody on the export thread catches a json exception.
OfJson(doc) ==
    LET all == SetAll(DefaultGelf(MyHost), doc)
    IN  IF doc.form \in {"array", "primitive"} \/ all.failed THEN Fails("escape")
        ELSE Result("ok", "gelf", dump(all.gelf))

OfDummy(body) ==
    Result("ok", "gelf", dump(setField(DefaultGelf(MyHost), "short_message",
                                       IF body.form = "empty" THEN Str("") ELSE Raw)))

GelfRecord(m, p) ==
    CASE m.kind \in {"gelf", "processor"} -> Result("ok", "gelf", m.body)
      [] m.kind = "json"    -> OfJson(m.body)
      [] m.kind = "tail"    -> OfTail(p)
      [] m.kind = "journal" -> OfJournal(m.body)
      [] m.kind = "dummy"   -> OfDummy(m.body)

\* outputs::Record<Log>: a line per field, the file's name and the line, or the text.
LogRecord(m) ==
    Result("ok", "log", IF m.kind \in {"journal", "tail"} THEN Text("text") ELSE m.body)

-----------------------------------------------------------------------------
Nothing == Text("empty")
NoPayload == [kind |-> "none", wrap |-> "plain", doc |-> Nothing]

Init ==
    /\ stage = "idle" /\ caught = FALSE
    /\ payload = NoPayload
    /\ message = Fails("none") /\ scripted = "none" /\ written = Nothing /\ logged = Fails("none")

\* What a failure does to the record, and to the process.
After(how) == stage' = IF how = "escape" THEN "dead" ELSE "lost"

\* An input enqueues a record.
Receive(p) ==
    /\ stage = "idle"
    /\ stage' = "record" /\ payload' = p
    /\ UNCHANGED <<message, scripted, written, logged, caught>>

\* The outputs' queues have the records, and the message is freed.
Release ==
    /\ stage \in {"written", "lost"}
    /\ stage' = "idle" /\ payload' = NoPayload
    /\ message' = Fails("none") /\ scripted' = "none" /\ written' = Nothing /\ logged' = Fails("none")
    /\ UNCHANGED caught

\* Input::importMessages, on an import thread.
importMessages ==
    /\ stage = "record"
    /\ message' = exportMessage(payload)
    /\ IF message'.how = "ok" THEN stage' = "message" ELSE After(message'.how)
    /\ UNCHANGED <<payload, scripted, written, logged, caught>>

\* The loop of a processor thread.
Process(does) ==
    /\ stage = "message" /\ message.kind # "processor" /\ scripted = "none"
    /\ scripted' = does
    /\ message' = process(message.kind, message.body, does)
    /\ IF message'.how = "ok" THEN UNCHANGED stage ELSE After(message'.how)
    /\ caught' = (\/ caught \/ ~Parses(message.kind, message.body)
                  \/ does = "throw" /\ Wrappable(message.kind, message.body))
    /\ UNCHANGED <<payload, written, logged>>

\* Output::importMessages, on an export thread: the log output's record is the
\* message's text, which cannot fail, then the GELF output's.
Export ==
    /\ stage = "message"
    /\ logged' = LogRecord(message)
    /\ LET r == GelfRecord(message, payload)
       IN  IF r.how = "ok" THEN stage' = "written" /\ written' = r.body
                           ELSE After(r.how) /\ UNCHANGED written
    /\ UNCHANGED <<payload, message, scripted, caught>>

Next ==
    \/ \E p \in Payloads : Receive(p)
    \/ importMessages \/ Release
    \/ \E does \in Scripts : Process(does)
    \/ Export

Spec == Init /\ [][Next]_vars

-----------------------------------------------------------------------------
(* Properties. *)

Accepted(doc) == Verdict(doc) = "ok"

Finite(doc) == Field(doc, "timestamp").s \notin {"nan", "inf"}

\* What a script changes in passing: a double of 2^31 or more becomes an integer that no
\* GELF input takes, and bytes that are not UTF-8 are replaced.
HurtByScript(doc) == HasBytes(doc) \/ \E i \in 1..Len(doc.members) : doc.members[i][2].s = "big"

WithoutFile(m) == [m EXCEPT !.extra = [k \in DOMAIN m.extra \ {"_file"} |-> m.extra[k]]]

Whole(m) == [m EXCEPT !.extra = [k \in DOMAIN m.extra |-> Stringified(m.extra[k])]]

\* Relay: a GELF message that one iqlogger accepts and writes to its GELF output is
\* accepted by the next one's GELF input and is the same message there.  Also when a
\* script hands its data on, if all its text is UTF-8 and none of its additional fields
\* a double of 2^31 or more (a smaller whole double becomes an integer).  Except for a
\* timestamp that spells NaN or an infinity.
RelayIsLossless ==
    (/\ stage = "written" /\ payload.kind = "gelf" /\ Finite(payload.doc)
     /\ scripted = "none" \/ (scripted = "data" /\ ~HurtByScript(payload.doc)))
    => /\ Accepted(written)
       /\ LET sent == parse(payload.doc)
          IN  parse(written) = (IF scripted = "none" THEN sent ELSE Whole(sent))

\* No path matters: a document that the GELF input would accept, whose timestamp and
\* level are numbers, whose text is UTF-8 and whose names are not empty and do not
\* collide, is neither lost nor ends the process when it arrives by the JSON input or as
\* a tailed line instead, and comes out of the GELF output as the same message.
PathsAgree ==
    (/\ stage \in {"written", "lost", "dead"} /\ scripted = "none"
     /\ payload.wrap \in {"plain", "data"} /\ payload.kind \in {"json", "tail"}
     /\ Accepted(payload.doc) /\ ~HasBytes(payload.doc) /\ Field(payload.doc, "") = Absent
     /\ Field(payload.doc, "timestamp").t # "string" /\ Field(payload.doc, "level").t # "string"
     /\ Field(payload.doc, "a") = Absent \/ Field(payload.doc, "_a") = Absent)
    => /\ stage = "written" /\ Accepted(written)
       /\ WithoutFile(parse(written)) = parse(payload.doc)

\* A GELF timestamp or level that is a text and spells no number.
SpellsNoNumber(doc) ==
    "escape" \in {TimestampVerdict(Field(doc, "timestamp")), LevelVerdict(Field(doc, "level"))}

\* A text where the GELF output of a JSON message wants a number.
TextForNumber(doc) == Field(doc, "timestamp").t = "string" \/ Field(doc, "level").t = "string"

\* A record that ends the process, or is lost after its message was made, has a cause.
\* With a script: the script refused it, failed on it or, on this thread, on an earlier
\* message.  On the export thread: its document has not the types the GELF output
\* converts, or is a journal entry without a message that is not UTF-8.  On the import
\* thread: a number that cannot be converted.
LossesHaveACause ==
    /\ (stage \in {"lost", "dead"} /\ scripted # "none")
          => \/ caught \/ scripted \in {"false", "number", "throw"}
             \/ ~Wrappable(payload.kind, payload.doc)
    /\ (stage \in {"lost", "dead"} /\ scripted = "none" /\ logged.how = "ok")
          => \/ payload.wrap = "data text"
             \/ payload.doc.form \notin {"object", "text", "empty"}
             \/ payload.kind \in {"json", "tail"} /\ ~Accepted(payload.doc)
             \/ payload.kind = "json" /\ TextForNumber(payload.doc)
             \/ payload.kind = "journal" /\ HasBytes(payload.doc) /\ Field(payload.doc, "MESSAGE") = Absent
    /\ (stage = "dead" /\ scripted = "none" /\ logged.how # "ok")
          => \/ payload.kind = "gelf" /\ SpellsNoNumber(payload.doc)
             \/ payload.kind = "json" /\ payload.doc.form = "huge"
=============================================================================
