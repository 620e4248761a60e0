----------------------------- MODULE MCPipeline -----------------------------
(***************************************************************************)
(* Small instances of Pipeline: their inputs, outputs, threads, messages.  *)
(***************************************************************************)
EXTENDS Pipeline, TLC

CONSTANTS m1, m2, m3, m4

\* One plain input.
OneInput == <<"tail">>
\* Two inputs; the second one runs a script.
TwoInputs == <<"tail", "gelf">>
\* A gelf and a log destination.
GelfAndLog == <<"graylog", "log">>
OneGelf == <<"graylog">>

OneThreadEach == [x \in Tasks |-> 1]
\* Two import threads race for the queues of the inputs.
TwoImporters == [x \in Tasks |-> IF x = "InputServer" THEN 2 ELSE 1]
\* Two threads receive over gelf, and together fill its queue beyond one.
TwoReceivers == [x \in Tasks |-> IF x = "gelf" THEN 2 ELSE 1]

AllThrottle == [i \in Inputs |-> "THROTTLE"]
\* The gelf input drops what does not fit, the file input waits.
GelfDrops == [i \in Inputs |-> IF i = "gelf" THEN "DROP" ELSE "THROTTLE"]

ThreeMsgs == {m1, m2, m3}
FourMsgs == {m1, m2, m3, m4}

AllFromTail == [m \in Msgs |-> "tail"]
\* Only m1 comes from the file.
OneFromTail == [m \in Msgs |-> IF m = m1 THEN "tail" ELSE "gelf"]
\* m1 and m2 come from the file, the others over gelf.
TailAndGelf == [m \in Msgs |-> IF m \in {m1, m2} THEN "tail" ELSE "gelf"]

OneBad == {m2}
ScriptIgnores == {m3}
WritableEverywhere == [o \in Outputs |-> {}]
\* m1 cannot be written to the first destination.
UnwritableFirst == [o \in Outputs |-> IF o = OutputSeq[1] THEN {m1} ELSE {}]
=============================================================================
