-------------------------- MODULE GelfOutput_proofs --------------------------
(***************************************************************************)
(* Theorems about GelfOutput for any number of threads and records and any *)
(* bulk size.  The inductive invariant says which operation a thread may   *)
(* have pending where (OpsInv), that every record belongs to one thread at *)
(* most (BulksInv), that a bulk in hand while an operation is late is a    *)
(* doubtful one (DoubtInv), what of the others has not been written yet    *)
(* (UnwrittenInv) and what has (SettledInv), and, for an output with one   *)
(* thread, that the service is not stopped while its operation is pending  *)
(* (AloneInv).                                                             *)
(***************************************************************************)
EXTENDS GelfOutput, FiniteSetTheorems, TLAPS

\* Where the lambda run waits for the operation it was called with.
Waits == {"enter", "run", "check", "enterDrain", "drain"}

\* A pending operation belongs to a thread that waits for it, and is the one of
\* the thread's stage.
OpsInv ==
    \A t \in Threads :
        /\ op[t] # "none" => t \in active /\ pc[t] \in Waits
        /\ op[t] = "connect" => stage[t] # "write"
        /\ op[t] = "write" => stage[t] = "write"
        /\ pc[t] = "connect" => stage[t] # "write"
        /\ pc[t] \in {"flush", "write"} => buffer[t] # {}
        /\ t \in stopDue => pc[t] \in {"run", "drain"}

\* No record is in the queue and in a bulk, or in two bulks; what of a bulk is in
\* the buffer is not left over.
BulksInv ==
    /\ \A t \in Threads :
        /\ buffer[t] \subseteq bulk[t]
        /\ left[t] \subseteq bulk[t]
        /\ buffer[t] \cap left[t] = {}
        /\ bulk[t] \cap queue = {}
    /\ \A t, u \in Threads : t # u => bulk[t] \cap bulk[u] = {}

\* A thread that no longer waits for an operation of its has doubtful records only.
DoubtInv ==
    \A t \in Threads : HasLate(t) => t \in active /\ bulk[t] \subseteq doubtful

\* Thread t will write its buffer, or is writing it and the write has not
\* succeeded.
Pending(t) ==
    \/ pc[t] \in {"flush", "write"}
    \/ stage[t] = "again" /\ pc[t] \in Waits \cup {"connect", "after"}
    \/ stage[t] = "write" /\ pc[t] \in Waits \cup {"after"} /\ (error[t] \/ op[t] # "none")

UnwrittenInv ==
    /\ accepted \cap queue = {}
    /\ \A t \in Threads :
        /\ accepted \cap left[t] = {}
        /\ Pending(t) => accepted \cap buffer[t] \subseteq doubtful

\* Thread t has written its buffer, and no error was left to it.
Flushed(t) ==
    stage[t] = "write" /\ pc[t] \in Waits \cup {"after"} /\ op[t] = "none" /\ ~error[t]

SettledInv ==
    running => \A t \in Threads :
        /\ bulk[t] \ (left[t] \cup buffer[t]) \subseteq accepted \cup doubtful
        /\ Flushed(t) => buffer[t] \subseteq accepted \cup doubtful

\* An output with one thread.
AloneInv ==
    \A t \in Threads : active = {t} =>
        /\ stopped \/ t \in stopDue => op[t] = "none"
        /\ doubtful = {}
        /\ ~HasLate(t)

IInv ==
    /\ TypeOK /\ OpsInv /\ BulksInv /\ DoubtInv /\ UnwrittenInv /\ SettledInv /\ AloneInv
    /\ CountedIsWritten /\ WrittenOnce

-----------------------------------------------------------------------------
(* Buffers *)

\* A buffer takes the first records of what is left, one at least.
LEMMA FillEffect ==
    ASSUME NEW t \in Threads, NEW from \in SUBSET Records, Fill(t, from)
    PROVE  \E b \in SUBSET from :
              /\ b # {}
              /\ buffer' = [buffer EXCEPT ![t] = b]
              /\ left' = [left EXCEPT ![t] = from \ b]
              /\ error' = [error EXCEPT ![t] = FALSE]
              /\ pc' = [pc EXCEPT ![t] = "flush"]
  <1>1. PICK b \in Prefixes(from) :
              /\ buffer' = [buffer EXCEPT ![t] = b]
              /\ left' = [left EXCEPT ![t] = from \ b]
              /\ error' = [error EXCEPT ![t] = FALSE]
              /\ pc' = [pc EXCEPT ![t] = "flush"]
    BY DEF Fill
  <1>2. PICK last \in from : b = {r \in from : r <= last}
    BY <1>1 DEF Prefixes
  <1>3. last \in Nat
    BY RecordsAssumption DEF Records
  <1>4. b \in SUBSET from /\ last \in b
    BY <1>2, <1>3
  <1>5. QED
    BY <1>1, <1>4

\* The next b of what is left fill the buffer of thread t.
FillsNext(t, b) ==
    /\ b # {}
    /\ buffer' = [buffer EXCEPT ![t] = b]
    /\ left' = [left EXCEPT ![t] = left[t] \ b]
    /\ error' = [error EXCEPT ![t] = FALSE]
    /\ pc' = [pc EXCEPT ![t] = "flush"]
    /\ UNCHANGED <<bulk, counted>>

\* flush has returned: the bulk is done, or the next buffer is filled.
LEMMA FlushEffect ==
    ASSUME TypeOK, NEW t \in active, FlushReturns(t)
    PROVE  \/ left[t] = {} /\ BulkDone(t)
           \/ \E b \in SUBSET left[t] : FillsNext(t, b)
  <1>1. CASE left[t] = {} /\ BulkDone(t)
    BY <1>1
  <1>2. CASE Fill(t, left[t]) /\ UNCHANGED <<bulk, counted>>
    <2>1. t \in Threads /\ left[t] \in SUBSET Records
      BY DEF TypeOK
    <2>2. QED
      BY <1>2, <2>1, FillEffect DEF FillsNext
  <1>3. QED
    BY <1>1, <1>2 DEF FlushReturns

\* Thread t takes bulk b out of the queue, and c of it fill the buffer.
Fetches(t, b, c) ==
    /\ c \subseteq b
    /\ c # {}
    /\ queue' = queue \ b
    /\ bulk' = [bulk EXCEPT ![t] = b]
    /\ buffer' = [buffer EXCEPT ![t] = c]
    /\ left' = [left EXCEPT ![t] = b \ c]
    /\ error' = [error EXCEPT ![t] = FALSE]
    /\ pc' = [pc EXCEPT ![t] = "flush"]
    /\ pc[t] = "loop"
    /\ doubtful' = IF HasLate(t) THEN doubtful \cup b ELSE doubtful
    /\ UNCHANGED <<active, running, stopped, stopDue, op, late, stage, socket, counted,
         accepted, again>>

\* Fetch takes some bulk and fills the buffer with some of it.
LEMMA FetchEffect ==
    ASSUME TypeOK, NEW t \in active, Fetch(t)
    PROVE  \E b, c \in SUBSET queue : Fetches(t, b, c)
  <1>1. PICK b \in Prefixes(queue) :
              /\ queue' = queue \ b
              /\ bulk' = [bulk EXCEPT ![t] = b]
              /\ Fill(t, b)
              /\ doubtful' = IF HasLate(t) THEN doubtful \cup b ELSE doubtful
    BY DEF Fetch
  <1>2. b \in SUBSET queue
    BY DEF Prefixes
  <1>3. t \in Threads /\ b \in SUBSET Records
    BY <1>2 DEF TypeOK
  <1>4. PICK c \in SUBSET b :
              /\ c # {}
              /\ buffer' = [buffer EXCEPT ![t] = c]
              /\ left' = [left EXCEPT ![t] = b \ c]
              /\ error' = [error EXCEPT ![t] = FALSE]
              /\ pc' = [pc EXCEPT ![t] = "flush"]
    BY <1>1, <1>3, FillEffect
  <1>5. /\ pc[t] = "loop"
        /\ UNCHANGED <<active, running, stopped, stopDue, op, late, stage, socket, counted,
                       accepted, again>>
    BY DEF Fetch, ioVars
  <1>6. QED
    BY <1>1, <1>2, <1>4, <1>5, Zenon DEF Fetches

-----------------------------------------------------------------------------
(* Operations a thread no longer waits for *)

\* What a step does to them: it may settle them, and it adds none.
NoNewLate ==
    /\ late' \in [Threads -> [Kinds -> Nat]]
    /\ \A v \in Threads : HasLate(v)' => HasLate(v)

\* close() makes no operation.
LEMMA CloseEffect ==
    ASSUME TypeOK, NEW t \in Threads, Close(t)
    PROVE  NoNewLate
  <1>1. PICK l : l = AllAborted(late[t])
    OBVIOUS
  <1>2. late' = [late EXCEPT ![t] = l]
    BY <1>1 DEF Close
  <1>3. late[t] \in [Kinds -> Nat]
    BY DEF TypeOK
  <1>4. l \in [Kinds -> Nat]
    BY <1>1, <1>3, SMT DEF AllAborted, Kinds
  <1>5. (\E k \in Kinds : l[k] > 0) => \E k \in Kinds : late[t][k] > 0
    BY <1>1, <1>3, SMT DEF AllAborted, Kinds
  <1>6. late' \in [Threads -> [Kinds -> Nat]]
    BY <1>2, <1>4 DEF TypeOK
  <1>7. ASSUME NEW v \in Threads, HasLate(v)' PROVE HasLate(v)
    <2>1. CASE v = t
      BY <1>2, <1>5, <1>7, <2>1 DEF HasLate, TypeOK
    <2>2. CASE v # t
      BY <1>2, <1>7, <2>2 DEF HasLate, TypeOK
    <2>3. QED
      BY <2>1, <2>2
  <1>8. QED
    BY <1>6, <1>7 DEF NoNewLate

\* The end of a late operation.
LEMMA LateEffect ==
    ASSUME TypeOK, NEW t \in Threads, NEW k \in Kinds, Late(t, k)
    PROVE  NoNewLate /\ HasLate(t) /\ UNCHANGED op
  <1>1. late[t] \in [Kinds -> Nat] /\ late[t][k] > 0
    BY DEF TypeOK, Late
  <1>2. PICK l : l = [late[t] EXCEPT ![k] = late[t][k] - 1]
    OBVIOUS
  <1>3. late' = [late EXCEPT ![t] = l]
    BY <1>2 DEF Late, TypeOK
  <1>4. l \in [Kinds -> Nat]
    BY <1>1, <1>2, SMT
  <1>5. HasLate(t)
    BY <1>1 DEF HasLate
  <1>6. late' \in [Threads -> [Kinds -> Nat]]
    BY <1>3, <1>4 DEF TypeOK
  <1>7. ASSUME NEW v \in Threads, HasLate(v)' PROVE HasLate(v)
    <2>1. CASE v # t
      BY <1>3, <1>7, <2>1 DEF HasLate, TypeOK
    <2>2. QED
      BY <1>5, <2>1
  <1>8. QED
    BY <1>5, <1>6, <1>7 DEF NoNewLate, Late

\* Nothing happens to them.
LEMMA SameLate ==
    ASSUME TypeOK, UNCHANGED late
    PROVE  NoNewLate
  BY DEF TypeOK, NoNewLate, HasLate

-----------------------------------------------------------------------------
(* One step of each action *)

\* The variables keep their types.
LEMMA TypeStep == IInv /\ [Next]_vars => TypeOK'
  <1> SUFFICES ASSUME IInv, [Next]_vars PROVE TypeOK'
    OBVIOUS
  <1> USE DEF IInv, ioVars, dataVars, historyVars
  <1>1. ASSUME NEW t \in active, StopService(t) PROVE TypeOK'
    BY <1>1, SMT DEF TypeOK, OpsInv, Places, StopService
  <1>2. ASSUME NEW t \in active, Enter(t, "enter", "run") PROVE TypeOK'
    BY <1>2, SMT DEF TypeOK, OpsInv, Places, Enter, NoWorkLeft
  <1>3. ASSUME NEW t \in active, Enter(t, "enterDrain", "drain") PROVE TypeOK'
    BY <1>3, SMT DEF TypeOK, OpsInv, Places, Enter, NoWorkLeft
  <1>4. ASSUME NEW t \in active, RunForReturns(t) PROVE TypeOK'
    BY <1>4, SMT DEF TypeOK, OpsInv, Places, RunForReturns
  <1>5. ASSUME NEW t \in active, TimedOut(t) PROVE TypeOK'
    <2>1. t \in Threads /\ late' \in [Threads -> [Kinds -> Nat]]
      BY <1>5, CloseEffect, SameLate DEF TypeOK, NoNewLate, TimedOut
    <2>2. QED
      BY <1>5, <2>1 DEF TypeOK, Kinds, OpsInv, Places, TimedOut, Close
  <1>6. ASSUME NEW t \in active, RunReturns(t) PROVE TypeOK'
    <2>1. t \in Threads /\ op[t] \in Kinds \cup {"none"}
      BY DEF TypeOK
    <2>2. CASE op[t] = "none"
      BY <1>6, <2>2 DEF TypeOK, Places, RunReturns
    <2>3. CASE op[t] \in Kinds
      <3>1. PICK l : l = [late[t] EXCEPT ![op[t]] = late[t][op[t]] + 1]
        OBVIOUS
      <3>2. late' = [late EXCEPT ![t] = l]
        BY <1>6, <2>1, <2>3, <3>1 DEF RunReturns, TypeOK, Kinds
      <3>3. l \in [Kinds -> Nat]
        BY <2>1, <2>3, <3>1 DEF TypeOK
      <3>4. late' \in [Threads -> [Kinds -> Nat]]
        BY <3>2, <3>3 DEF TypeOK
      <3>5. QED
        BY <1>6, <2>1, <3>4 DEF TypeOK, Places, RunReturns
    <2>4. QED
      BY <2>1, <2>2, <2>3
  <1>7. ASSUME NEW t \in active, Connect(t) PROVE TypeOK'
    <2>1. stopped' \in BOOLEAN
      BY <1>7, Zenon DEF Connect, StartOperation
    <2>2. QED
      BY <1>7, <2>1 DEF TypeOK, Kinds, Places, Connect, StartOperation
  <1>8. ASSUME NEW t \in active, ResolveThrows(t) PROVE TypeOK'
    BY <1>8, SMT DEF TypeOK, OpsInv, Places, ResolveThrows
  <1>9. ASSUME NEW t \in active, FirstConnection(t) PROVE TypeOK'
    <2>1. t \in Threads /\ late' \in [Threads -> [Kinds -> Nat]]
      BY <1>9, CloseEffect, SameLate DEF TypeOK, NoNewLate, FirstConnection, Reconnect
    <2>2. error' \in [Threads -> BOOLEAN]
      BY <1>9 DEF TypeOK, FirstConnection
    <2>3. CASE Reconnect(t)
      BY <1>9, <2>1, <2>2, <2>3 DEF TypeOK, Kinds, Places, FirstConnection, Reconnect, Close
    <2>4. CASE pc' = [pc EXCEPT ![t] = "loop"] /\ UNCHANGED <<op, late, socket>>
      BY <1>9, <2>1, <2>2, <2>4 DEF TypeOK, Places, FirstConnection
    <2>5. QED
      BY <1>9, <2>3, <2>4 DEF FirstConnection
  <1>10. ASSUME NEW t \in active, Reconnected(t) PROVE TypeOK'
    BY <1>10, SMT DEF TypeOK, OpsInv, Places, Reconnected, ConnectError
  <1>11. ASSUME NEW t \in active, Write(t) PROVE TypeOK'
    <2>1. stopped' \in BOOLEAN
      BY <1>11, Zenon DEF Write, StartOperation
    <2>2. QED
      BY <1>11, <2>1 DEF TypeOK, Kinds, OpsInv, Places, Write, StartOperation
  <1>12. ASSUME NEW t \in active, Retry(t) PROVE TypeOK'
    BY <1>12, SMT DEF TypeOK, OpsInv, Places, Retry
  <1>13. ASSUME NEW t \in active, FlushBegins(t) PROVE TypeOK'
    <2>1. t \in Threads /\ late' \in [Threads -> [Kinds -> Nat]]
      BY <1>13, CloseEffect, SameLate DEF TypeOK, NoNewLate, FlushBegins, Reconnect
    <2>2. buffer[t] # {}
      BY <1>13, <2>1 DEF OpsInv, FlushBegins
    <2>3. CASE Reconnect(t) /\ stage' = [stage EXCEPT ![t] = "again"]
      BY <1>13, <2>1, <2>2, <2>3 DEF TypeOK, Kinds, Places, FlushBegins, Reconnect, Close
    <2>4. CASE pc' = [pc EXCEPT ![t] = "write"] /\ UNCHANGED <<stage, op, late, socket>>
      BY <1>13, <2>1, <2>2, <2>4 DEF TypeOK, Places, FlushBegins
    <2>5. QED
      BY <1>13, <2>3, <2>4 DEF FlushBegins
  <1>14. ASSUME NEW t \in active, Fetch(t) PROVE TypeOK'
    <2>1. PICK b \in SUBSET queue, c \in SUBSET queue : Fetches(t, b, c)
      BY <1>14, FetchEffect
    <2>2. QED
      BY <2>1, SMT DEF Fetches, TypeOK, OpsInv, Places
  <1>15. ASSUME NEW t \in active, FlushReturns(t) PROVE TypeOK'
    <2>1. CASE BulkDone(t)
      BY <1>15, <2>1 DEF TypeOK, Places, FlushReturns, BulkDone
    <2>2. CASE Fill(t, left[t]) /\ UNCHANGED <<bulk, counted>>
      <3>1. PICK b \in SUBSET left[t] :
              /\ b # {}
              /\ buffer' = [buffer EXCEPT ![t] = b]
              /\ left' = [left EXCEPT ![t] = left[t] \ b]
              /\ error' = [error EXCEPT ![t] = FALSE]
              /\ pc' = [pc EXCEPT ![t] = "flush"]
        BY <2>2, FillEffect DEF TypeOK
      <3>2. error' \in [Threads -> BOOLEAN]
        BY <3>1 DEF TypeOK
      <3>3. QED
        BY <1>15, <2>2, <3>1, <3>2 DEF TypeOK, Places, FlushReturns
    <2>3. QED
      BY <1>15, <2>1, <2>2 DEF FlushReturns
  <1>16. ASSUME NEW t \in active, Exit(t) PROVE TypeOK'
    <2>1. t \in Threads /\ late' \in [Threads -> [Kinds -> Nat]]
      BY <1>16, CloseEffect, SameLate DEF TypeOK, NoNewLate, Exit
    <2>2. QED
      BY <1>16, <2>1 DEF TypeOK, Kinds, OpsInv, Places, Exit, Close
  <1>17. ASSUME NEW t \in active, PeerCloses(t) PROVE TypeOK'
    BY <1>17, SMT DEF TypeOK, OpsInv, Places, PeerCloses
  <1>18. ASSUME NEW u \in active, NEW t \in active, Connected(u, t) PROVE TypeOK'
    <2>1. t \in Threads /\ u \in active
      BY DEF TypeOK
    <2>2. late' \in [Threads -> [Kinds -> Nat]]
      BY <1>18, <2>1, LateEffect DEF TypeOK, NoNewLate, Own, Kinds, Connected
    <2>3. op' \in [Threads -> Kinds \cup {"none"}]
      BY <1>18, <2>1, LateEffect DEF TypeOK, Own, Kinds, Connected
    <2>4. PICK ec \in BOOLEAN : Handles(u, t, ec)
      BY <1>18 DEF Connected
    <2>5. error' \in [Threads -> BOOLEAN]
      BY <2>4 DEF TypeOK, Handles
    <2>6. accepted' \subseteq Records /\ again' \subseteq Records /\ doubtful' = doubtful
      BY <1>18 DEF TypeOK, Connected
    <2>7. socket' \in [Threads -> {"closed", "open", "connected", "broken"}]
      BY <1>18 DEF TypeOK, Connected
    <2>8. stopDue' \subseteq active
      BY <2>1, <2>4 DEF TypeOK, Handles, NoWorkLeft
    <2>9. QED
      BY <2>2, <2>3, <2>4, <2>5, <2>6, <2>7, <2>8 DEF TypeOK, Handles
  <1>19. ASSUME NEW u \in active, NEW t \in active, Written(u, t) PROVE TypeOK'
    <2>1. t \in Threads /\ u \in active
      BY DEF TypeOK
    <2>2. late' \in [Threads -> [Kinds -> Nat]]
      BY <1>19, <2>1, LateEffect DEF TypeOK, NoNewLate, Own, Kinds, Written
    <2>3. op' \in [Threads -> Kinds \cup {"none"}]
      BY <1>19, <2>1, LateEffect DEF TypeOK, Own, Kinds, Written
    <2>4. PICK ec \in BOOLEAN : Handles(u, t, ec)
      BY <1>19 DEF Written
    <2>5. error' \in [Threads -> BOOLEAN]
      BY <2>4 DEF TypeOK, Handles
    <2>6. accepted' \subseteq Records /\ again' \subseteq Records /\ doubtful' = doubtful
      BY <1>19 DEF TypeOK, Written
    <2>7. socket' \in [Threads -> {"closed", "open", "connected", "broken"}]
      BY <1>19 DEF TypeOK, Written
    <2>8. stopDue' \subseteq active
      BY <2>1, <2>4 DEF TypeOK, Handles, NoWorkLeft
    <2>9. QED
      BY <2>2, <2>3, <2>4, <2>5, <2>6, <2>7, <2>8 DEF TypeOK, Handles
  <1>20. ASSUME NEW u \in active, NEW t \in active, Aborted(u, t) PROVE TypeOK'
    <2>1. t \in Threads /\ u \in active
      BY DEF TypeOK
    <2>2. late' \in [Threads -> [Kinds -> Nat]]
      BY <1>20, <2>1, LateEffect DEF TypeOK, NoNewLate, Own, Kinds, Aborted
    <2>3. op' \in [Threads -> Kinds \cup {"none"}]
      BY <1>20, <2>1, LateEffect DEF TypeOK, Own, Kinds, Aborted
    <2>4. PICK ec \in BOOLEAN : Handles(u, t, ec)
      BY <1>20 DEF Aborted
    <2>5. error' \in [Threads -> BOOLEAN]
      BY <2>4 DEF TypeOK, Handles
    <2>6. accepted' \subseteq Records /\ again' \subseteq Records /\ doubtful' = doubtful
      BY <1>20 DEF TypeOK, Aborted
    <2>7. socket' \in [Threads -> {"closed", "open", "connected", "broken"}]
      BY <1>20 DEF TypeOK, Aborted
    <2>8. stopDue' \subseteq active
      BY <2>1, <2>4 DEF TypeOK, Handles, NoWorkLeft
    <2>9. QED
      BY <2>2, <2>3, <2>4, <2>5, <2>6, <2>7, <2>8 DEF TypeOK, Handles
  <1>21. CASE Stop
    <2>1. running' \in BOOLEAN
      BY <1>21, Zenon DEF Stop
    <2>2. QED
      BY <1>21, <2>1 DEF TypeOK, Stop
  <1>22. CASE UNCHANGED vars
    BY <1>22, SMT DEF TypeOK, OpsInv, Places, vars
  <1>23. QED
    BY <1>1, <1>2, <1>3, <1>4, <1>5, <1>6, <1>7, <1>8, <1>9, <1>10, <1>11, <1>12,
       <1>13, <1>14, <1>15, <1>16, <1>17, <1>18, <1>19, <1>20, <1>21, <1>22
       DEF Next, Thread

\* An operation a thread waits for is pending only while it waits.
LEMMA OpsStep == IInv /\ [Next]_vars => OpsInv'
  <1> SUFFICES ASSUME IInv, [Next]_vars PROVE OpsInv'
    OBVIOUS
  <1> USE DEF IInv, ioVars, dataVars, historyVars
  <1>1. ASSUME NEW t \in active, StopService(t) PROVE OpsInv'
    BY <1>1, SMT DEF TypeOK, OpsInv, Waits, StopService
  <1>2. ASSUME NEW t \in active, Enter(t, "enter", "run") PROVE OpsInv'
    BY <1>2, SMT DEF TypeOK, OpsInv, Waits, Enter, NoWorkLeft
  <1>3. ASSUME NEW t \in active, Enter(t, "enterDrain", "drain") PROVE OpsInv'
    BY <1>3, SMT DEF TypeOK, OpsInv, Waits, Enter, NoWorkLeft
  <1>4. ASSUME NEW t \in active, RunForReturns(t) PROVE OpsInv'
    BY <1>4, SMT DEF TypeOK, OpsInv, Waits, RunForReturns
  <1>5. ASSUME NEW t \in active, TimedOut(t) PROVE OpsInv'
    BY <1>5, SMT DEF TypeOK, OpsInv, Waits, TimedOut, Close
  <1>6. ASSUME NEW t \in active, RunReturns(t) PROVE OpsInv'
    BY <1>6, SMT DEF TypeOK, OpsInv, Waits, RunReturns
  <1>7. ASSUME NEW t \in active, Connect(t) PROVE OpsInv'
    BY <1>7, SMT DEF TypeOK, OpsInv, Waits, Connect, StartOperation
  <1>8. ASSUME NEW t \in active, ResolveThrows(t) PROVE OpsInv'
    BY <1>8, SMT DEF TypeOK, OpsInv, Waits, ResolveThrows
  <1>9. ASSUME NEW t \in active, FirstConnection(t) PROVE OpsInv'
    BY <1>9, SMT DEF TypeOK, OpsInv, Waits, FirstConnection, ConnectError, Reconnect, Close
  <1>10. ASSUME NEW t \in active, Reconnected(t) PROVE OpsInv'
    BY <1>10, SMT DEF TypeOK, OpsInv, Waits, Reconnected, ConnectError
  <1>11. ASSUME NEW t \in active, Write(t) PROVE OpsInv'
    BY <1>11, SMT DEF TypeOK, OpsInv, Waits, Write, StartOperation
  <1>12. ASSUME NEW t \in active, Retry(t) PROVE OpsInv'
    BY <1>12, SMT DEF TypeOK, OpsInv, Waits, Retry
  <1>13. ASSUME NEW t \in active, FlushBegins(t) PROVE OpsInv'
    BY <1>13, SMT DEF TypeOK, OpsInv, Waits, FlushBegins, Reconnect, Close
  <1>14. ASSUME NEW t \in active, Fetch(t) PROVE OpsInv'
    <2>1. PICK b \in SUBSET queue, c \in SUBSET queue : Fetches(t, b, c)
      BY <1>14, FetchEffect
    <2>2. QED
      BY <2>1, SMT DEF Fetches, TypeOK, OpsInv, Waits
  <1>15. ASSUME NEW t \in active, FlushReturns(t) PROVE OpsInv'
    BY <1>15, FillEffect, SMT DEF TypeOK, OpsInv, Waits, FlushReturns, BulkDone
  <1>16. ASSUME NEW t \in active, Exit(t) PROVE OpsInv'
    BY <1>16, SMT DEF TypeOK, OpsInv, Waits, Exit, Close
  <1>17. ASSUME NEW t \in active, PeerCloses(t) PROVE OpsInv'
    BY <1>17, SMT DEF TypeOK, OpsInv, Waits, PeerCloses
  <1>18. ASSUME NEW u \in active, NEW t \in active, Connected(u, t) PROVE OpsInv'
    BY <1>18, LateEffect, SMT
       DEF TypeOK, OpsInv, Waits, Connected, Own, Handles, NoWorkLeft, Kinds
  <1>19. ASSUME NEW u \in active, NEW t \in active, Written(u, t) PROVE OpsInv'
    BY <1>19, LateEffect, SMT
       DEF TypeOK, OpsInv, Waits, Written, Own, Handles, NoWorkLeft, Kinds
  <1>20. ASSUME NEW u \in active, NEW t \in active, Aborted(u, t) PROVE OpsInv'
    BY <1>20, LateEffect, SMT
       DEF TypeOK, OpsInv, Waits, Aborted, Own, Handles, NoWorkLeft, Kinds
  <1>21. CASE Stop
    BY <1>21, SMT DEF TypeOK, OpsInv, Waits, Stop
  <1>22. CASE UNCHANGED vars
    BY <1>22, SMT DEF TypeOK, OpsInv, Waits, vars
  <1>23. QED
    BY <1>1, <1>2, <1>3, <1>4, <1>5, <1>6, <1>7, <1>8, <1>9, <1>10, <1>11, <1>12,
       <1>13, <1>14, <1>15, <1>16, <1>17, <1>18, <1>19, <1>20, <1>21, <1>22
       DEF Next, Thread

\* A record never gets into two hands.
LEMMA BulksStep == IInv /\ [Next]_vars => BulksInv'
  <1> SUFFICES ASSUME IInv, [Next]_vars PROVE BulksInv'
    OBVIOUS
  <1> USE DEF IInv, ioVars, dataVars, historyVars
  <1>1. ASSUME NEW t \in active, StopService(t) PROVE BulksInv'
    BY <1>1, SMT DEF TypeOK, BulksInv, StopService
  <1>2. ASSUME NEW t \in active, Enter(t, "enter", "run") PROVE BulksInv'
    BY <1>2, SMT DEF TypeOK, BulksInv, Enter, NoWorkLeft
  <1>3. ASSUME NEW t \in active, Enter(t, "enterDrain", "drain") PROVE BulksInv'
    BY <1>3, SMT DEF TypeOK, BulksInv, Enter, NoWorkLeft
  <1>4. ASSUME NEW t \in active, RunForReturns(t) PROVE BulksInv'
    BY <1>4, SMT DEF TypeOK, BulksInv, RunForReturns
  <1>5. ASSUME NEW t \in active, TimedOut(t) PROVE BulksInv'
    BY <1>5, SMT DEF TypeOK, BulksInv, TimedOut, Close
  <1>6. ASSUME NEW t \in active, RunReturns(t) PROVE BulksInv'
    BY <1>6, SMT DEF TypeOK, BulksInv, RunReturns
  <1>7. ASSUME NEW t \in active, Connect(t) PROVE BulksInv'
    BY <1>7, SMT DEF TypeOK, BulksInv, Connect, StartOperation
  <1>8. ASSUME NEW t \in active, ResolveThrows(t) PROVE BulksInv'
    BY <1>8, SMT DEF TypeOK, BulksInv, ResolveThrows
  <1>9. ASSUME NEW t \in active, FirstConnection(t) PROVE BulksInv'
    BY <1>9, SMT DEF TypeOK, BulksInv, FirstConnection, ConnectError, Reconnect, Close
  <1>10. ASSUME NEW t \in active, Reconnected(t) PROVE BulksInv'
    BY <1>10, SMT DEF TypeOK, BulksInv, Reconnected, ConnectError
  <1>11. ASSUME NEW t \in active, Write(t) PROVE BulksInv'
    BY <1>11, SMT DEF TypeOK, BulksInv, Write, StartOperation
  <1>12. ASSUME NEW t \in active, Retry(t) PROVE BulksInv'
    BY <1>12, SMT DEF TypeOK, BulksInv, Retry
  <1>13. ASSUME NEW t \in active, FlushBegins(t) PROVE BulksInv'
    BY <1>13, SMT DEF TypeOK, BulksInv, FlushBegins, Reconnect, Close
  <1>14. ASSUME NEW t \in active, Fetch(t) PROVE BulksInv'
    <2>1. PICK b \in SUBSET queue, c \in SUBSET queue : Fetches(t, b, c)
      BY <1>14, FetchEffect
    <2>2. QED
      BY <2>1, SMT DEF Fetches, TypeOK, BulksInv
  <1>15. ASSUME NEW t \in active, FlushReturns(t) PROVE BulksInv'
    <2>1. CASE left[t] = {} /\ BulkDone(t)
      BY <1>15, <2>1, SMT DEF TypeOK, BulksInv, FlushReturns, BulkDone
    <2>2. CASE \E b \in SUBSET left[t] : FillsNext(t, b)
      BY <1>15, <2>2, SMT DEF TypeOK, BulksInv, FlushReturns, FillsNext
    <2>3. QED
      BY <1>15, <2>1, <2>2, FlushEffect
  <1>16. ASSUME NEW t \in active, Exit(t) PROVE BulksInv'
    BY <1>16, SMT DEF TypeOK, BulksInv, Exit, Close
  <1>17. ASSUME NEW t \in active, PeerCloses(t) PROVE BulksInv'
    BY <1>17, SMT DEF TypeOK, BulksInv, PeerCloses
  <1>18. ASSUME NEW u \in active, NEW t \in active, Connected(u, t) PROVE BulksInv'
    BY <1>18, LateEffect, SMT DEF TypeOK, BulksInv, Connected, Own, Handles, NoWorkLeft, Kinds
  <1>19. ASSUME NEW u \in active, NEW t \in active, Written(u, t) PROVE BulksInv'
    BY <1>19, LateEffect, SMT DEF TypeOK, BulksInv, Written, Own, Handles, NoWorkLeft, Kinds
  <1>20. ASSUME NEW u \in active, NEW t \in active, Aborted(u, t) PROVE BulksInv'
    BY <1>20, LateEffect, SMT DEF TypeOK, BulksInv, Aborted, Own, Handles, NoWorkLeft, Kinds
  <1>21. CASE Stop
    BY <1>21, SMT DEF TypeOK, BulksInv, Stop
  <1>22. CASE UNCHANGED vars
    BY <1>22, SMT DEF TypeOK, BulksInv, vars
  <1>23. QED
    BY <1>1, <1>2, <1>3, <1>4, <1>5, <1>6, <1>7, <1>8, <1>9, <1>10, <1>11, <1>12,
       <1>13, <1>14, <1>15, <1>16, <1>17, <1>18, <1>19, <1>20, <1>21, <1>22
       DEF Next, Thread

\* Only RunReturns leaves an operation behind.
LEMMA LateStep == IInv /\ [Next]_vars => NoNewLate \/ \E t \in active : RunReturns(t)
  <1> SUFFICES ASSUME IInv, [Next]_vars PROVE NoNewLate \/ \E t \in active : RunReturns(t)
    OBVIOUS
  <1> USE DEF IInv, ioVars, dataVars, historyVars
  <1>1. ASSUME NEW t \in active, StopService(t) PROVE NoNewLate
    BY <1>1, SameLate DEF StopService
  <1>2. ASSUME NEW t \in active, Enter(t, "enter", "run") PROVE NoNewLate
    BY <1>2, SameLate DEF Enter
  <1>3. ASSUME NEW t \in active, Enter(t, "enterDrain", "drain") PROVE NoNewLate
    BY <1>3, SameLate DEF Enter
  <1>4. ASSUME NEW t \in active, RunForReturns(t) PROVE NoNewLate
    BY <1>4, SameLate DEF RunForReturns
  <1>5. ASSUME NEW t \in active, TimedOut(t) PROVE NoNewLate
    BY <1>5, CloseEffect, SameLate DEF TypeOK, TimedOut
  <1>7. ASSUME NEW t \in active, Connect(t) PROVE NoNewLate
    BY <1>7, SameLate DEF Connect, StartOperation
  <1>8. ASSUME NEW t \in active, ResolveThrows(t) PROVE NoNewLate
    BY <1>8, SameLate DEF ResolveThrows
  <1>9. ASSUME NEW t \in active, FirstConnection(t) PROVE NoNewLate
    BY <1>9, CloseEffect, SameLate DEF TypeOK, FirstConnection, Reconnect
  <1>10. ASSUME NEW t \in active, Reconnected(t) PROVE NoNewLate
    BY <1>10, SameLate DEF Reconnected
  <1>11. ASSUME NEW t \in active, Write(t) PROVE NoNewLate
    BY <1>11, SameLate DEF Write, StartOperation
  <1>12. ASSUME NEW t \in active, Retry(t) PROVE NoNewLate
    BY <1>12, SameLate DEF Retry
  <1>13. ASSUME NEW t \in active, FlushBegins(t) PROVE NoNewLate
    BY <1>13, CloseEffect, SameLate DEF TypeOK, FlushBegins, Reconnect
  <1>14. ASSUME NEW t \in active, Fetch(t) PROVE NoNewLate
    BY <1>14, SameLate DEF Fetch
  <1>15. ASSUME NEW t \in active, FlushReturns(t) PROVE NoNewLate
    BY <1>15, SameLate DEF FlushReturns
  <1>16. ASSUME NEW t \in active, Exit(t) PROVE NoNewLate
    BY <1>16, CloseEffect, SameLate DEF TypeOK, Exit
  <1>17. ASSUME NEW t \in active, PeerCloses(t) PROVE NoNewLate
    BY <1>17, SameLate DEF PeerCloses
  <1>18. ASSUME NEW u \in active, NEW t \in active, Connected(u, t) PROVE NoNewLate
    BY <1>18, LateEffect, SameLate DEF TypeOK, Own, Kinds, Connected
  <1>19. ASSUME NEW u \in active, NEW t \in active, Written(u, t) PROVE NoNewLate
    BY <1>19, LateEffect, SameLate DEF TypeOK, Own, Kinds, Written
  <1>20. ASSUME NEW u \in active, NEW t \in active, Aborted(u, t) PROVE NoNewLate
    BY <1>20, LateEffect, SameLate DEF TypeOK, Own, Kinds, Aborted
  <1>21. CASE Stop
    BY <1>21, SameLate DEF Stop
  <1>22. CASE UNCHANGED vars
    BY <1>22, SameLate DEF vars
  <1>23. QED
    BY <1>1, <1>2, <1>3, <1>4, <1>5, <1>7, <1>8, <1>9, <1>10, <1>11, <1>12,
       <1>13, <1>14, <1>15, <1>16, <1>17, <1>18, <1>19, <1>20, <1>21, <1>22
       DEF Next, Thread

\* A bulk gets doubtful when an operation gets late, or when it is fetched after that.
LEMMA DoubtStep == IInv /\ [Next]_vars => DoubtInv'
  <1> SUFFICES ASSUME IInv, [Next]_vars PROVE DoubtInv'
    OBVIOUS
  <1> USE DEF IInv
  <1>1. ASSUME NEW t \in active, RunReturns(t) PROVE DoubtInv'
    <2>1. t \in Threads
      BY DEF TypeOK
    <2>2. UNCHANGED <<active, bulk>> /\ doubtful \subseteq doubtful'
      BY <1>1 DEF RunReturns, dataVars
    <2>3. ASSUME NEW v \in Threads, HasLate(v)', v # t PROVE HasLate(v)
      BY <1>1, <2>1, <2>3 DEF RunReturns, HasLate, TypeOK
    <2>4. CASE op[t] = "none"
      BY <1>1, <2>2, <2>4, SameLate DEF RunReturns, DoubtInv, NoNewLate
    <2>5. CASE op[t] # "none"
      BY <1>1, <2>2, <2>3, <2>5 DEF RunReturns, DoubtInv
    <2>6. QED
      BY <2>4, <2>5
  <1>2. ASSUME NEW t \in active, Fetch(t), NoNewLate PROVE DoubtInv'
    <2>1. PICK b \in SUBSET queue, c \in SUBSET queue : Fetches(t, b, c)
      BY <1>2, FetchEffect
    <2>2. QED
      BY <1>2, <2>1 DEF Fetches, TypeOK, DoubtInv, NoNewLate
  <1>3. ASSUME NEW t \in active, FlushReturns(t), NoNewLate PROVE DoubtInv'
    BY <1>3 DEF TypeOK, DoubtInv, NoNewLate, FlushReturns, BulkDone, historyVars
  <1>4. CASE NoNewLate /\ UNCHANGED <<active, bulk, doubtful>>
    BY <1>4 DEF DoubtInv, NoNewLate
  <1>5. QED
    BY <1>1, <1>2, <1>3, <1>4, LateStep, ZenonT(40)
       DEF Next, Thread, StopService, Enter, RunForReturns, TimedOut, Connect, ResolveThrows,
           FirstConnection, Reconnected, Write, Retry, FlushBegins, Exit, PeerCloses,
           Connected, Written, Aborted, Handles, Stop, vars, dataVars, historyVars

\* What is to be written has not been accepted, but for doubtful bulks.
LEMMA UnwrittenStep == IInv /\ [Next]_vars => UnwrittenInv'
  <1> SUFFICES ASSUME IInv, [Next]_vars PROVE UnwrittenInv'
    OBVIOUS
  <1> USE DEF IInv, ioVars, dataVars, historyVars
  <1>1. ASSUME NEW t \in active, StopService(t) PROVE UnwrittenInv'
    BY <1>1, SMT
       DEF TypeOK, OpsInv, BulksInv, DoubtInv, UnwrittenInv, Pending, Waits, StopService
  <1>2. ASSUME NEW t \in active, Enter(t, "enter", "run") PROVE UnwrittenInv'
    BY <1>2, SMT
       DEF TypeOK, OpsInv, BulksInv, DoubtInv, UnwrittenInv, Pending, Waits, Enter,
           NoWorkLeft
  <1>3. ASSUME NEW t \in active, Enter(t, "enterDrain", "drain") PROVE UnwrittenInv'
    BY <1>3, SMT
       DEF TypeOK, OpsInv, BulksInv, DoubtInv, UnwrittenInv, Pending, Waits, Enter,
           NoWorkLeft
  <1>4. ASSUME NEW t \in active, RunForReturns(t) PROVE UnwrittenInv'
    BY <1>4, SMT
       DEF TypeOK, OpsInv, BulksInv, DoubtInv, UnwrittenInv, Pending, Waits, RunForReturns
  <1>5. ASSUME NEW t \in active, TimedOut(t) PROVE UnwrittenInv'
    BY <1>5, SMT
       DEF TypeOK, OpsInv, BulksInv, DoubtInv, UnwrittenInv, Pending, Waits, TimedOut, Close
  <1>6. ASSUME NEW t \in active, RunReturns(t) PROVE UnwrittenInv'
    BY <1>6, SMT
       DEF TypeOK, OpsInv, BulksInv, DoubtInv, UnwrittenInv, Pending, Waits, RunReturns
  <1>7. ASSUME NEW t \in active, Connect(t) PROVE UnwrittenInv'
    BY <1>7, SMT
       DEF TypeOK, OpsInv, BulksInv, DoubtInv, UnwrittenInv, Pending, Waits, Connect,
           StartOperation
  <1>8. ASSUME NEW t \in active, ResolveThrows(t) PROVE UnwrittenInv'
    BY <1>8, SMT
       DEF TypeOK, OpsInv, BulksInv, DoubtInv, UnwrittenInv, Pending, Waits, ResolveThrows
  <1>9. ASSUME NEW t \in active, FirstConnection(t) PROVE UnwrittenInv'
    <2>1. t \in Threads /\ stage[t] = "first" /\ pc[t] = "after" /\ op[t] = "none"
      BY <1>9 DEF FirstConnection, TypeOK, OpsInv, Waits
    <2>2. UNCHANGED <<running, queue, bulk, left, buffer, stage, op, accepted, doubtful>>
      BY <1>9, <2>1 DEF FirstConnection, Reconnect, Close, TypeOK
    <2>3. pc'[t] \in {"connect", "loop"}
      BY <1>9, <2>1 DEF FirstConnection, Reconnect, TypeOK
    <2>4. \A v \in Threads : v # t => pc'[v] = pc[v] /\ error'[v] = error[v]
      BY <1>9, <2>1 DEF FirstConnection, Reconnect, TypeOK
    <2>5. QED
      BY <2>1, <2>2, <2>3, <2>4 DEF UnwrittenInv, Pending
  <1>10. ASSUME NEW t \in active, Reconnected(t) PROVE UnwrittenInv'
    BY <1>10, SMT
       DEF TypeOK, OpsInv, BulksInv, DoubtInv, UnwrittenInv, Pending, Waits, Reconnected,
           ConnectError
  <1>11. ASSUME NEW t \in active, Write(t) PROVE UnwrittenInv'
    BY <1>11, SMT
       DEF TypeOK, OpsInv, BulksInv, DoubtInv, UnwrittenInv, Pending, Waits, Write,
           StartOperation
  <1>12. ASSUME NEW t \in active, Retry(t) PROVE UnwrittenInv'
    BY <1>12, SMT DEF TypeOK, OpsInv, BulksInv, DoubtInv, UnwrittenInv, Pending, Waits, Retry
  <1>13. ASSUME NEW t \in active, FlushBegins(t) PROVE UnwrittenInv'
    BY <1>13, SMT
       DEF TypeOK, OpsInv, BulksInv, DoubtInv, UnwrittenInv, Pending, Waits, FlushBegins,
           Reconnect, Close
  <1>14. ASSUME NEW t \in active, Fetch(t) PROVE UnwrittenInv'
    <2>1. PICK b \in SUBSET queue, c \in SUBSET queue : Fetches(t, b, c)
      BY <1>14, FetchEffect
    <2>2. QED
      BY <2>1, SMT
         DEF Fetches, TypeOK, OpsInv, BulksInv, DoubtInv, UnwrittenInv, Pending, Waits
  <1>15. ASSUME NEW t \in active, FlushReturns(t) PROVE UnwrittenInv'
    BY <1>15, FillEffect, SMT
       DEF TypeOK, OpsInv, BulksInv, DoubtInv, UnwrittenInv, Pending, Waits, FlushReturns,
           BulkDone
  <1>16. ASSUME NEW t \in active, Exit(t) PROVE UnwrittenInv'
    BY <1>16, SMT
       DEF TypeOK, OpsInv, BulksInv, DoubtInv, UnwrittenInv, Pending, Waits, Exit, Close
  <1>17. ASSUME NEW t \in active, PeerCloses(t) PROVE UnwrittenInv'
    BY <1>17, SMT
       DEF TypeOK, OpsInv, BulksInv, DoubtInv, UnwrittenInv, Pending, Waits, PeerCloses
  <1>18. ASSUME NEW u \in active, NEW t \in active, Connected(u, t) PROVE UnwrittenInv'
    BY <1>18, LateEffect, SMT
       DEF TypeOK, OpsInv, BulksInv, DoubtInv, UnwrittenInv, Pending, Waits, Connected, Own,
           Handles, NoWorkLeft, Kinds
  <1>19. ASSUME NEW u \in active, NEW t \in active, Written(u, t) PROVE UnwrittenInv'
    <2>1. t \in Threads
      BY DEF TypeOK
    <2>2. UNCHANGED <<running, queue, bulk, left, buffer, stage, pc, doubtful>>
      BY <1>19 DEF Written, Handles
    <2>3. \A v \in Threads : v # t => error'[v] = error[v]
      BY <1>19, <2>1 DEF Written, Handles, TypeOK
    <2>4. CASE Own(t, "write")
      <3>1. /\ op' = [op EXCEPT ![t] = "none"]
            /\ Pending(t)
        BY <2>1, <2>4 DEF Own, OpsInv, Pending
      <3>2. accepted' \subseteq accepted \cup buffer[t]
        BY <1>19 DEF Written
      <3>3. \A v \in Threads : v # t => buffer[t] \cap buffer[v] = {}
        BY <2>1 DEF BulksInv
      <3>4. /\ buffer[t] \cap queue = {}
            /\ \A v \in Threads : buffer[t] \cap left[v] = {}
        BY <2>1 DEF BulksInv
      <3>5. ASSUME NEW v \in Threads, v # t, Pending(v)' PROVE Pending(v)
        BY <2>2, <2>3, <3>1, <3>5 DEF Pending, TypeOK
      <3>6. ASSUME Pending(t)' PROVE accepted' = accepted
        <4>1. error'[t]
          BY <2>1, <2>2, <2>4, <3>1, <3>6 DEF Pending, OpsInv, Own, TypeOK, Waits
        <4>2. QED
          BY <1>19, <2>1, <4>1 DEF Written, Handles, TypeOK
      <3>7. QED
        BY <2>1, <2>2, <3>1, <3>2, <3>3, <3>4, <3>5, <3>6 DEF UnwrittenInv
    <2>5. CASE Late(t, "write") /\ UNCHANGED accepted
      <3>1. UNCHANGED op /\ bulk[t] \subseteq doubtful
        BY <2>1, <2>5, LateEffect DEF DoubtInv, Kinds
      <3>2. buffer[t] \subseteq doubtful
        BY <2>1, <3>1 DEF BulksInv
      <3>3. QED
        BY <2>1, <2>2, <2>3, <2>5, <3>1, <3>2 DEF UnwrittenInv, Pending
    <2>6. QED
      BY <1>19, <2>4, <2>5 DEF Written
  <1>20. ASSUME NEW u \in active, NEW t \in active, Aborted(u, t) PROVE UnwrittenInv'
    BY <1>20, LateEffect, SMT
       DEF TypeOK, OpsInv, BulksInv, DoubtInv, UnwrittenInv, Pending, Waits, Aborted, Own,
           Handles, NoWorkLeft, Kinds
  <1>21. CASE Stop
    BY <1>21, SMT DEF TypeOK, OpsInv, BulksInv, DoubtInv, UnwrittenInv, Pending, Waits, Stop
  <1>22. CASE UNCHANGED vars
    BY <1>22, SMT DEF TypeOK, OpsInv, BulksInv, DoubtInv, UnwrittenInv, Pending, Waits, vars
  <1>23. QED
    BY <1>1, <1>2, <1>3, <1>4, <1>5, <1>6, <1>7, <1>8, <1>9, <1>10, <1>11, <1>12,
       <1>13, <1>14, <1>15, <1>16, <1>17, <1>18, <1>19, <1>20, <1>21, <1>22
       DEF Next, Thread

\* What was put away without an error was accepted or is doubtful.
LEMMA SettledStep == IInv /\ [Next]_vars => SettledInv'
  <1> SUFFICES ASSUME IInv, [Next]_vars PROVE SettledInv'
    OBVIOUS
  <1> USE DEF IInv, ioVars, dataVars, historyVars
  <1>1. ASSUME NEW t \in active, StopService(t) PROVE SettledInv'
    BY <1>1, SMT
       DEF TypeOK, OpsInv, BulksInv, DoubtInv, SettledInv, Flushed, Waits, StopService
  <1>2. ASSUME NEW t \in active, Enter(t, "enter", "run") PROVE SettledInv'
    BY <1>2, SMT
       DEF TypeOK, OpsInv, BulksInv, DoubtInv, SettledInv, Flushed, Waits, Enter, NoWorkLeft
  <1>3. ASSUME NEW t \in active, Enter(t, "enterDrain", "drain") PROVE SettledInv'
    BY <1>3, SMT
       DEF TypeOK, OpsInv, BulksInv, DoubtInv, SettledInv, Flushed, Waits, Enter, NoWorkLeft
  <1>4. ASSUME NEW t \in active, RunForReturns(t) PROVE SettledInv'
    BY <1>4, SMT
       DEF TypeOK, OpsInv, BulksInv, DoubtInv, SettledInv, Flushed, Waits, RunForReturns
  <1>5. ASSUME NEW t \in active, TimedOut(t) PROVE SettledInv'
    BY <1>5, SMT
       DEF TypeOK, OpsInv, BulksInv, DoubtInv, SettledInv, Flushed, Waits, TimedOut, Close
  <1>6. ASSUME NEW t \in active, RunReturns(t) PROVE SettledInv'
    BY <1>6, SMT DEF TypeOK, OpsInv, BulksInv, DoubtInv, SettledInv, Flushed, Waits, RunReturns
  <1>7. ASSUME NEW t \in active, Connect(t) PROVE SettledInv'
    BY <1>7, SMT
       DEF TypeOK, OpsInv, BulksInv, DoubtInv, SettledInv, Flushed, Waits, Connect,
           StartOperation
  <1>8. ASSUME NEW t \in active, ResolveThrows(t) PROVE SettledInv'
    BY <1>8, SMT
       DEF TypeOK, OpsInv, BulksInv, DoubtInv, SettledInv, Flushed, Waits, ResolveThrows
  <1>9. ASSUME NEW t \in active, FirstConnection(t) PROVE SettledInv'
    <2>1. t \in Threads /\ stage[t] = "first" /\ pc[t] = "after" /\ op[t] = "none"
      BY <1>9 DEF FirstConnection, TypeOK, OpsInv, Waits
    <2>2. UNCHANGED <<running, queue, bulk, left, buffer, stage, op, accepted, doubtful>>
      BY <1>9, <2>1 DEF FirstConnection, Reconnect, Close, TypeOK
    <2>3. pc'[t] \in {"connect", "loop"}
      BY <1>9, <2>1 DEF FirstConnection, Reconnect, TypeOK
    <2>4. \A v \in Threads : v # t => pc'[v] = pc[v] /\ error'[v] = error[v]
      BY <1>9, <2>1 DEF FirstConnection, Reconnect, TypeOK
    <2>5. QED
      BY <2>1, <2>2, <2>3, <2>4 DEF SettledInv, Flushed
  <1>10. ASSUME NEW t \in active, Reconnected(t) PROVE SettledInv'
    BY <1>10, SMT
       DEF TypeOK, OpsInv, BulksInv, DoubtInv, SettledInv, Flushed, Waits, Reconnected,
           ConnectError
  <1>11. ASSUME NEW t \in active, Write(t) PROVE SettledInv'
    BY <1>11, SMT
       DEF TypeOK, OpsInv, BulksInv, DoubtInv, SettledInv, Flushed, Waits, Write,
           StartOperation
  <1>12. ASSUME NEW t \in active, Retry(t) PROVE SettledInv'
    BY <1>12, SMT DEF TypeOK, OpsInv, BulksInv, DoubtInv, SettledInv, Flushed, Waits, Retry
  <1>13. ASSUME NEW t \in active, FlushBegins(t) PROVE SettledInv'
    BY <1>13, SMT
       DEF TypeOK, OpsInv, BulksInv, DoubtInv, SettledInv, Flushed, Waits, FlushBegins,
           Reconnect, Close
  <1>14. ASSUME NEW t \in active, Fetch(t) PROVE SettledInv'
    <2>1. PICK b \in SUBSET queue, c \in SUBSET queue : Fetches(t, b, c)
      BY <1>14, FetchEffect
    <2>2. QED
      BY <2>1, SMT DEF Fetches, TypeOK, OpsInv, BulksInv, DoubtInv, SettledInv, Flushed, Waits
  <1>15. ASSUME NEW t \in active, FlushReturns(t) PROVE SettledInv'
    <2>1. CASE left[t] = {} /\ BulkDone(t)
      BY <1>15, <2>1, SMT
         DEF TypeOK, OpsInv, BulksInv, SettledInv, Flushed, Waits, FlushReturns, BulkDone
    <2>2. CASE \E b \in SUBSET left[t] : FillsNext(t, b)
      BY <1>15, <2>2, SMT
         DEF TypeOK, OpsInv, BulksInv, SettledInv, Flushed, Waits, FlushReturns, FillsNext
    <2>3. QED
      BY <1>15, <2>1, <2>2, FlushEffect
  <1>16. ASSUME NEW t \in active, Exit(t) PROVE SettledInv'
    BY <1>16, SMT
       DEF TypeOK, OpsInv, BulksInv, DoubtInv, SettledInv, Flushed, Waits, Exit, Close
  <1>17. ASSUME NEW t \in active, PeerCloses(t) PROVE SettledInv'
    BY <1>17, SMT
       DEF TypeOK, OpsInv, BulksInv, DoubtInv, SettledInv, Flushed, Waits, PeerCloses
  <1>18. ASSUME NEW u \in active, NEW t \in active, Connected(u, t) PROVE SettledInv'
    BY <1>18, LateEffect, SMT
       DEF TypeOK, OpsInv, BulksInv, DoubtInv, SettledInv, Flushed, Waits, Connected, Own,
           Handles, NoWorkLeft, Kinds
  <1>19. ASSUME NEW u \in active, NEW t \in active, Written(u, t) PROVE SettledInv'
    <2>1. t \in Threads
      BY DEF TypeOK
    <2>2. UNCHANGED <<running, queue, bulk, left, buffer, stage, pc, doubtful>>
      BY <1>19 DEF Written, Handles
    <2>3. \A v \in Threads : v # t => error'[v] = error[v]
      BY <1>19, <2>1 DEF Written, Handles, TypeOK
    <2>4. CASE Own(t, "write")
      <3>1. op' = [op EXCEPT ![t] = "none"]
        BY <2>4 DEF Own
      <3>2. accepted \subseteq accepted'
        BY <1>19 DEF Written
      <3>3. ~error'[t] => buffer[t] \subseteq accepted' \cup doubtful
        <4>1. CASE accepted' = accepted \cup buffer[t]
          BY <4>1
        <4>2. CASE Late(t, "write")
          BY <2>1, <4>2, LateEffect DEF DoubtInv, BulksInv, Kinds
        <4>3. CASE Handles(u, t, TRUE)
          BY <2>1, <4>3 DEF Handles, TypeOK
        <4>4. QED
          BY <1>19, <4>1, <4>2, <4>3 DEF Written
      <3>4. QED
        BY <2>1, <2>2, <2>3, <3>1, <3>2, <3>3 DEF SettledInv, Flushed, TypeOK
    <2>5. CASE Late(t, "write") /\ UNCHANGED accepted
      <3>1. UNCHANGED op /\ bulk[t] \subseteq doubtful
        BY <2>1, <2>5, LateEffect DEF DoubtInv, Kinds
      <3>2. buffer[t] \subseteq doubtful
        BY <2>1, <3>1 DEF BulksInv
      <3>3. QED
        BY <2>1, <2>2, <2>3, <2>5, <3>1, <3>2 DEF SettledInv, Flushed
    <2>6. QED
      BY <1>19, <2>4, <2>5 DEF Written
  <1>20. ASSUME NEW u \in active, NEW t \in active, Aborted(u, t) PROVE SettledInv'
    BY <1>20, LateEffect, SMT
       DEF TypeOK, OpsInv, BulksInv, DoubtInv, SettledInv, Flushed, Waits, Aborted, Own,
           Handles, NoWorkLeft, Kinds
  <1>21. CASE Stop
    BY <1>21, SMT DEF TypeOK, OpsInv, BulksInv, DoubtInv, SettledInv, Flushed, Waits, Stop
  <1>22. CASE UNCHANGED vars
    BY <1>22, SMT DEF TypeOK, OpsInv, BulksInv, DoubtInv, SettledInv, Flushed, Waits, vars
  <1>23. QED
    BY <1>1, <1>2, <1>3, <1>4, <1>5, <1>6, <1>7, <1>8, <1>9, <1>10, <1>11, <1>12,
       <1>13, <1>14, <1>15, <1>16, <1>17, <1>18, <1>19, <1>20, <1>21, <1>22
       DEF Next, Thread

\* One thread alone does not stop the service under its own operation.
LEMMA AloneStep == IInv /\ [Next]_vars => AloneInv'
  <1> SUFFICES ASSUME IInv, [Next]_vars, NEW v \in Threads, active' = {v}
               PROVE  /\ stopped' \/ v \in stopDue' => op'[v] = "none"
                      /\ doubtful' = {}
                      /\ ~HasLate(v)'
    BY DEF AloneInv
  <1> DEFINE Quiet == (stopped' \/ v \in stopDue' => op'[v] = "none") /\ doubtful' = {}
  <1> USE DEF IInv, ioVars, dataVars, historyVars
  <1>0. active = {v}
    BY ZenonT(40)
       DEF Next, Thread, StopService, Enter, RunForReturns, TimedOut, RunReturns, Connect,
           ResolveThrows, FirstConnection, Reconnected, Write, Retry, FlushBegins, Fetch,
           FlushReturns, Exit, PeerCloses, Connected, Written, Aborted, Handles, Stop, vars
  <1>1. ASSUME NEW t \in active, StopService(t) PROVE Quiet
    BY <1>0, <1>1, SMT DEF TypeOK, OpsInv, AloneInv, Work, Waits, StopService
  <1>2. ASSUME NEW t \in active, Enter(t, "enter", "run") PROVE Quiet
    BY <1>0, <1>2, SMT DEF TypeOK, OpsInv, AloneInv, Work, Waits, Enter, NoWorkLeft
  <1>3. ASSUME NEW t \in active, Enter(t, "enterDrain", "drain") PROVE Quiet
    BY <1>0, <1>3, SMT DEF TypeOK, OpsInv, AloneInv, Work, Waits, Enter, NoWorkLeft
  <1>4. ASSUME NEW t \in active, RunForReturns(t) PROVE Quiet
    BY <1>0, <1>4, SMT DEF TypeOK, OpsInv, AloneInv, Work, Waits, RunForReturns
  <1>5. ASSUME NEW t \in active, TimedOut(t) PROVE Quiet
    BY <1>0, <1>5, SMT DEF TypeOK, OpsInv, AloneInv, Work, Waits, TimedOut, Close
  <1>6. ASSUME NEW t \in active, RunReturns(t) PROVE Quiet
    BY <1>0, <1>6, SMT DEF TypeOK, OpsInv, AloneInv, Work, Waits, RunReturns
  <1>7. ASSUME NEW t \in active, Connect(t) PROVE Quiet
    <2>1. t = v /\ pc[v] = "connect" /\ v \notin stopDue
      BY <1>0, <1>7 DEF Connect, OpsInv
    <2>2. ~stopped' /\ UNCHANGED <<stopDue, doubtful>>
      BY <1>7 DEF Connect, StartOperation
    <2>3. doubtful = {}
      BY <1>0 DEF AloneInv
    <2>4. QED
      BY <2>1, <2>2, <2>3
  <1>8. ASSUME NEW t \in active, ResolveThrows(t) PROVE Quiet
    BY <1>0, <1>8, SMT DEF TypeOK, OpsInv, AloneInv, Work, Waits, ResolveThrows
  <1>9. ASSUME NEW t \in active, FirstConnection(t) PROVE Quiet
    <2>1. t = v /\ op[v] = "none"
      BY <1>0, <1>9 DEF FirstConnection, OpsInv, Waits
    <2>2. op'[v] = "none"
      BY <1>9, <2>1 DEF FirstConnection, Reconnect, Close, TypeOK
    <2>3. UNCHANGED doubtful /\ doubtful = {}
      BY <1>0, <1>9 DEF FirstConnection, AloneInv
    <2>4. QED
      BY <2>2, <2>3
  <1>10. ASSUME NEW t \in active, Reconnected(t) PROVE Quiet
    BY <1>0, <1>10 DEF AloneInv, Reconnected
  <1>11. ASSUME NEW t \in active, Write(t) PROVE Quiet
    BY <1>0, <1>11, SMT DEF TypeOK, OpsInv, AloneInv, Work, Waits, Write, StartOperation
  <1>12. ASSUME NEW t \in active, Retry(t) PROVE Quiet
    BY <1>0, <1>12, SMT DEF TypeOK, OpsInv, AloneInv, Work, Waits, Retry
  <1>13. ASSUME NEW t \in active, FlushBegins(t) PROVE Quiet
    <2>1. t = v /\ op[v] = "none"
      BY <1>0, <1>13 DEF FlushBegins, OpsInv, Waits
    <2>2. op'[v] = "none"
      BY <1>13, <2>1 DEF FlushBegins, Reconnect, Close, TypeOK
    <2>3. UNCHANGED doubtful /\ doubtful = {}
      BY <1>0, <1>13 DEF FlushBegins, AloneInv
    <2>4. QED
      BY <2>2, <2>3
  <1>14. ASSUME NEW t \in active, Fetch(t) PROVE Quiet
    <2>1. PICK b \in SUBSET queue, c \in SUBSET queue : Fetches(t, b, c)
      BY <1>14, FetchEffect
    <2>2. QED
      BY <1>0, <2>1, SMT DEF Fetches, TypeOK, OpsInv, AloneInv, Waits
  <1>15. ASSUME NEW t \in active, FlushReturns(t) PROVE Quiet
    BY <1>0, <1>15, SMT DEF AloneInv, FlushReturns
  <1>16. ASSUME NEW t \in active, Exit(t) PROVE Quiet
    BY <1>0, <1>16, SMT DEF TypeOK, OpsInv, AloneInv, Work, Waits, Exit, Close
  <1>17. ASSUME NEW t \in active, PeerCloses(t) PROVE Quiet
    BY <1>0, <1>17, SMT DEF TypeOK, OpsInv, AloneInv, Work, Waits, PeerCloses
  <1>18. ASSUME NEW u \in active, NEW t \in active, Connected(u, t) PROVE Quiet
    BY <1>0, <1>18, LateEffect, SMT
       DEF TypeOK, OpsInv, AloneInv, Work, Waits, Connected, Own, Handles, NoWorkLeft, Kinds
  <1>19. ASSUME NEW u \in active, NEW t \in active, Written(u, t) PROVE Quiet
    BY <1>0, <1>19, LateEffect, SMT
       DEF TypeOK, OpsInv, AloneInv, Work, Waits, Written, Own, Handles, NoWorkLeft, Kinds
  <1>20. ASSUME NEW u \in active, NEW t \in active, Aborted(u, t) PROVE Quiet
    BY <1>0, <1>20, LateEffect, SMT
       DEF TypeOK, OpsInv, AloneInv, Work, Waits, Aborted, Own, Handles, NoWorkLeft, Kinds
  <1>21. ASSUME Stop PROVE Quiet
    <2>1. /\ stopped' = stopped /\ stopDue' = stopDue
          /\ op' = op /\ doubtful' = doubtful
      BY <1>21 DEF Stop
    <2>2. (stopped \/ v \in stopDue => op[v] = "none") /\ doubtful = {}
      BY <1>0 DEF AloneInv
    <2>3. QED
      BY <2>1, <2>2, Zenon
  <1>22. ASSUME UNCHANGED vars PROVE Quiet
    <2>1. /\ stopped' = stopped /\ stopDue' = stopDue
          /\ op' = op /\ doubtful' = doubtful
      BY <1>22 DEF vars
    <2>2. (stopped \/ v \in stopDue => op[v] = "none") /\ doubtful = {}
      BY <1>0 DEF AloneInv
    <2>3. QED
      BY <2>1, <2>2, Zenon
  <1>23. Quiet
    BY <1>1, <1>2, <1>3, <1>4, <1>5, <1>6, <1>7, <1>8, <1>9, <1>10, <1>11, <1>12,
       <1>13, <1>14, <1>15, <1>16, <1>17, <1>18, <1>19, <1>20, <1>21, <1>22
       DEF Next, Thread
  <1>24. ~HasLate(v)'
    <2>1. CASE NoNewLate
      BY <1>0, <2>1 DEF AloneInv, NoNewLate
    <2>2. CASE RunReturns(v)
      <3>1. op[v] = "none" /\ UNCHANGED late
        BY <1>0, <2>2 DEF AloneInv, RunReturns
      <3>2. QED
        BY <1>0, <3>1, SameLate DEF AloneInv, NoNewLate
    <2>3. QED
      BY <1>0, <2>1, <2>2, LateStep
  <1>25. QED
    BY <1>23, <1>24

\* Only FlushReturns counts, and then the whole bulk is accounted for.
LEMMA CountedStep == IInv /\ [Next]_vars => CountedIsWritten'
  <1> SUFFICES ASSUME IInv, [Next]_vars, running' PROVE counted' \subseteq accepted' \cup doubtful'
    BY DEF CountedIsWritten
  <1> USE DEF ioVars, dataVars, historyVars
  <1>1. /\ running
        /\ accepted \subseteq accepted'
        /\ doubtful \subseteq doubtful'
    BY ZenonT(40) DEF Next, Thread, StopService, Enter, RunForReturns, TimedOut, RunReturns, Connect,
           ResolveThrows, FirstConnection, Reconnected, Write, Retry, FlushBegins, Fetch, FlushReturns,
           Exit,
           PeerCloses, Connected, Written, Aborted, Handles, Stop, vars
  <1>2. counted \subseteq accepted \cup doubtful
    BY <1>1 DEF IInv, CountedIsWritten
  <1>3. ASSUME NEW t \in active, FlushReturns(t)
        PROVE  counted' \subseteq accepted' \cup doubtful'
    <2>1. CASE left[t] = {} /\ BulkDone(t)
      <3>1. t \in Threads /\ ~error[t] /\ pc[t] = "after" /\ stage[t] = "write"
        BY <1>1, <1>3 DEF IInv, TypeOK, FlushReturns
      <3>2. op[t] = "none"
        BY <3>1 DEF IInv, OpsInv, Waits
      <3>3. Flushed(t)
        BY <3>1, <3>2 DEF Flushed
      <3>4. bulk[t] \subseteq accepted \cup doubtful
        BY <1>1, <2>1, <3>1, <3>3 DEF IInv, SettledInv
      <3>5. QED
        BY <1>1, <1>2, <2>1, <3>4 DEF BulkDone
    <2>2. CASE UNCHANGED counted
      BY <1>1, <1>2, <2>2
    <2>3. QED
      BY <1>3, <2>1, <2>2 DEF FlushReturns
  <1>4. CASE UNCHANGED counted
    BY <1>1, <1>2, <1>4
  <1>5. QED
    BY <1>3, <1>4, ZenonT(40)
       DEF Next, Thread, StopService, Enter, RunForReturns, TimedOut, RunReturns, Connect,
           ResolveThrows, FirstConnection, Reconnected, Write, Retry, FlushBegins, Fetch, Exit,
           PeerCloses, Connected, Written, Aborted, Handles, Stop, vars

\* Only Written accepts, and then a buffer of which nothing was accepted.
LEMMA WrittenOnceStep == IInv /\ [Next]_vars => WrittenOnce'
  <1> SUFFICES ASSUME IInv, [Next]_vars PROVE WrittenOnce'
    OBVIOUS
  <1> USE DEF ioVars, dataVars, historyVars
  <1>1. /\ doubtful \subseteq doubtful'
        /\ again \subseteq doubtful
    BY ZenonT(40)
       DEF IInv, WrittenOnce, Next, Thread, StopService, Enter, RunForReturns, TimedOut,
           RunReturns, Connect, ResolveThrows, FirstConnection, Reconnected, Write, Retry,
           FlushBegins, Fetch, FlushReturns, Exit, PeerCloses, Connected, Written, Aborted,
           Handles, Stop, vars
  <1>2. ASSUME NEW u \in active, NEW t \in active, Written(u, t), ~UNCHANGED again
        PROVE  WrittenOnce'
    <2>1. t \in Threads /\ op[t] = "write" /\ again' = again \cup (accepted \cap buffer[t])
      BY <1>2 DEF IInv, TypeOK, Written, Own
    <2>2. Pending(t)
      BY <2>1 DEF IInv, OpsInv, Pending, Waits
    <2>3. accepted \cap buffer[t] \subseteq doubtful
      BY <2>1, <2>2 DEF IInv, UnwrittenInv
    <2>4. QED
      BY <1>1, <2>1, <2>3 DEF WrittenOnce
  <1>3. CASE UNCHANGED again
    BY <1>1, <1>3 DEF WrittenOnce
  <1>4. QED
    BY <1>2, <1>3
       DEF Next, Thread, StopService, Enter, RunForReturns, TimedOut, RunReturns, Connect,
           ResolveThrows, FirstConnection, Reconnected, Write, Retry, FlushBegins, Fetch,
           FlushReturns, Exit, PeerCloses, Connected, Aborted, Stop, vars

\* startImpl begins with nothing dequeued, pending or written.
LEMMA InitIInv == Init => IInv
  <1> SUFFICES ASSUME Init PROVE IInv
    OBVIOUS
  <1>1. TypeOK
    BY DEF Init, TypeOK, Places
  <1>2. OpsInv /\ BulksInv
    BY DEF Init, OpsInv, BulksInv, Waits
  <1>3. \A t \in Threads : ~HasLate(t)
    BY SMT DEF Init, HasLate
  <1>4. DoubtInv /\ UnwrittenInv /\ SettledInv /\ AloneInv
    BY <1>3 DEF Init, DoubtInv, UnwrittenInv, SettledInv, Flushed, AloneInv
  <1>5. CountedIsWritten /\ WrittenOnce
    BY DEF Init, CountedIsWritten, WrittenOnce
  <1>6. QED
    BY <1>1, <1>2, <1>4, <1>5 DEF IInv

-----------------------------------------------------------------------------
(* The theorems *)

\* The inductive invariant holds in every reachable state.
LEMMA Inductive == Spec => []IInv
  <1>1. IInv /\ [Next]_vars => IInv'
    BY TypeStep, OpsStep, BulksStep, DoubtStep, UnwrittenStep, SettledStep, AloneStep, CountedStep,
       WrittenOnceStep DEF IInv
  <1>2. QED
    BY <1>1, InitIInv, PTL DEF Spec

\* The variables of the output's threads keep their types, and whenever flush of
\* GelfOutput.cpp:106 is on its way it has something to write.
THEOREM TypeCorrect == Spec => []TypeOK
  <1>1. IInv => TypeOK
    BY DEF IInv
  <1>2. QED
    BY <1>1, Inductive, PTL

\* However many threads share the io service and however their time-outs, failed
\* reconnects and each other's handlers interleave, while the output runs the
\* counters of GelfOutput.cpp:160 grow only by records whose write succeeded,
\* unless their thread had an operation pending that it no longer waited for and
\* whose handler may have changed its error under it (GelfOutput.cpp:37, 66, 119).
THEOREM CountedAreWritten == Spec => []CountedIsWritten
  <1>1. IInv => CountedIsWritten
    BY DEF IInv
  <1>2. QED
    BY <1>1, Inductive, PTL

\* Whatever flush retries (GelfOutput.cpp:125), it never writes a buffer whose
\* write has succeeded, and no two threads write the same record; but for the
\* bulks a thread had in hand while it had such an operation pending.
THEOREM NeverWrittenTwice == Spec => []WrittenOnce
  <1>1. IInv => WrittenOnce
    BY DEF IInv
  <1>2. QED
    BY <1>1, Inductive, PTL

\* With one thread the lambda run never returns before the handler of its
\* operation was executed: the service is stopped only when no work is left, and
\* nobody else restarts it.
THEOREM AloneNothingDangles == Spec => []NothingDangling
  <1>1. IInv => NothingDangling
    <2> SUFFICES ASSUME IInv, Cardinality(active) = 1 
                 PROVE  doubtful = {} /\ \A t \in active : ~HasLate(t)
      BY DEF NothingDangling
    <2>1. active \in SUBSET Threads /\ IsFiniteSet(Threads)
      BY ThreadsAssumption DEF IInv, TypeOK
    <2>2. IsFiniteSet(active)
      BY <2>1, FS_Subset
    <2>3. PICK t : active = {t}
      BY <2>2, FS_Singleton
    <2>4. QED
      BY <2>1, <2>3 DEF IInv, AloneInv
  <1>2. QED
    BY <1>1, Inductive, PTL
=============================================================================
