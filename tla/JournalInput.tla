---------------------------- MODULE JournalInput ----------------------------
(***************************************************************************)
(* The journal input (inputs/journal): a reader that stands at the end of  *)
(* the systemd journal, waits for its descriptor to become readable, asks  *)
(* sd_journal_process what happened and reads what was appended.           *)
(*                                                                         *)
(* The journal, an external library, is the number of entries that match   *)
(* the units filter, which the reader sees in order, and the changes it    *)
(* has not been asked about yet.  A change of its files hides the appends  *)
(* reported with it: sd_journal_process then returns INVALIDATE.           *)
(***************************************************************************)
EXTENDS IOInput

CONSTANTS
    OldEntries,     \* entries in the journal before the reader is built
    MaxEntries      \* bound: entries in the journal in the end

ASSUME JournalAssumption == OldEntries \in Nat /\ MaxEntries \in Nat

VARIABLES
    entries,        \* entries in the journal
    changes,        \* what happened since sd_journal_process: {"append", "rotate"}
    cursor,         \* the entry the reader stands at
    reader,         \* where the reader's code is, see ReaderStates
    answer,         \* the last answer that was not NOP, or the error of a call
    first,          \* ghost: the entry the constructor left the cursor at
    journalOffered  \* entries offered to the queue, in order

journalVars == <<entries, changes, cursor, reader, answer, first, journalOffered>>

(* "tail", "previous": inside the constructor, after the call of that name;*)
(* "waiting": async_read is outstanding; "reading": in read_journal.       *)
ReaderStates == {"tail", "previous", "waiting", "reading"}

JournalTypeOK ==
    /\ entries \in OldEntries..MaxEntries
    /\ changes \subseteq {"append", "rotate"}
    /\ cursor \in 0..entries
    /\ reader \in ReaderStates
    /\ answer \in {"none", "APPEND", "INVALIDATE", "error"}

JournalInit ==
    /\ entries = OldEntries
    /\ changes = {}
    /\ cursor = 0
    /\ reader = "tail"
    /\ answer = "none"
    /\ first = 0
    /\ journalOffered = <<>>

----------------------------------------------------------------------------
(* The journal. *)

Append_entry ==
    /\ entries < MaxEntries
    /\ entries' = entries + 1
    /\ changes' = changes \cup {"append"}
    /\ UNCHANGED <<cursor, reader, answer, first, journalOffered, ioVars>>

Rotate ==
    /\ "rotate" \notin changes
    /\ changes' = changes \cup {"rotate"}
    /\ UNCHANGED <<entries, cursor, reader, answer, first, journalOffered, ioVars>>

(* sd_journal_process, asked about these changes. *)
sd_journal_process(ch) ==
    IF "rotate" \in ch THEN "INVALIDATE" ELSE IF "append" \in ch THEN "APPEND" ELSE "NOP"

----------------------------------------------------------------------------
(* The constructor: after seek_tail, previous() goes to the last entry and *)
(* next() to the one after it.  That is normally none; an entry that comes *)
(* between the two calls is stepped over and never offered.                *)
SeekPrevious ==
    /\ reader = "tail"
    /\ cursor' = entries
    /\ reader' = "previous"
    /\ UNCHANGED <<entries, changes, answer, first, journalOffered, ioVars>>

SeekNext ==
    /\ reader = "previous"
    /\ cursor' = IF cursor < entries THEN cursor + 1 ELSE cursor
    /\ first' = cursor'
    /\ reader' = "waiting"
    /\ UNCHANGED <<entries, changes, answer, journalOffered, ioVars>>

(* process() offers the record; a refusal of the queue is only reported.   *)
OfferEntry(n) == journalOffered' = Append(journalOffered, n)

(* Mutant: the loop of read_journal is run once only. *)
read_journal_once ==
    /\ reader = "reading" /\ cursor < entries
    /\ cursor' = cursor + 1
    /\ OfferEntry(cursor + 1)
    /\ reader' = "waiting"
    /\ UNCHANGED <<entries, changes, answer, first, ioVars>>

(* handle_receive: the descriptor is readable, perhaps for nothing; an     *)
(* error of the poll only waits again.  sd_journal_process may fail, which *)
(* is only reported too, and what it should have told is lost.             *)
journal_receive ==
    /\ reader = "waiting" /\ Running
    /\ changes' = {}
    /\ \E a \in {sd_journal_process(changes), "error"} :
          /\ reader' = IF a = "APPEND" THEN "reading" ELSE "waiting"
          /\ answer' = IF a = "NOP" THEN answer ELSE a
    /\ UNCHANGED <<entries, cursor, first, journalOffered, ioVars>>

(* One turn of the loop of read_journal. *)
read_journal ==
    /\ reader = "reading" /\ cursor < entries
    /\ cursor' = cursor + 1
    /\ OfferEntry(cursor + 1)
    /\ UNCHANGED <<entries, changes, reader, answer, first, ioVars>>

(* The loop ends when there is no further entry, or when next() fails; the *)
(* descriptor is waited for again.                                         *)
read_journal_ends ==
    /\ reader = "reading"
    /\ \/ cursor = entries /\ answer' = answer
       \/ answer' = "error"
    /\ reader' = "waiting"
    /\ UNCHANGED <<entries, changes, cursor, first, journalOffered, ioVars>>

JournalNext == \/ Append_entry \/ Rotate \/ SeekPrevious \/ SeekNext
               \/ journal_receive \/ read_journal \/ read_journal_ends

JournalFairness ==
    /\ WF_journalVars(SeekPrevious) /\ WF_journalVars(SeekNext)
    /\ WF_journalVars(journal_receive)
    /\ WF_journalVars(read_journal) /\ WF_journalVars(read_journal_ends)

----------------------------------------------------------------------------
(* The entries offered are those after the place the constructor chose, in *)
(* order, none twice and none left out.                                    *)
EntriesInOrder ==
    reader \in {"waiting", "reading"} =>
        journalOffered = [i \in 1..(cursor - first) |-> first + i]

(* When the reader waits and nothing is left to tell it, every entry has   *)
(* been read, unless the last thing it was told is INVALIDATE, which it    *)
(* ignores, or a read failed: such entries stay unread until the next      *)
(* append.                                                                 *)
NothingLeftUnread ==
    reader = "waiting" /\ changes = {} /\ answer \notin {"INVALIDATE", "error"} =>
        cursor = entries

(* An entry appended after the constructor returned is read in the end.    *)
EveryEntryOffered ==
    \A n \in 1..MaxEntries :
        (entries >= n) ~> (cursor >= n \/ answer \in {"INVALIDATE", "error"} \/ stopped)
=============================================================================
