------------------------------ MODULE LogQueue ------------------------------
(***************************************************************************)
(* Logger and LockQueue: threads push lines to a queue, and one detached   *)
(* thread, started when the first line is logged, writes them to the day's *)
(* file.                                                                   *)
(*                                                                         *)
(* The thread takes the date and opens the file before it waits for a      *)
(* line, so that a line's file is the one of the day on which the line     *)
(* before it was written.                                                  *)
(***************************************************************************)
EXTENDS Integers, Sequences

CONSTANT LastDay  \* bound: days the clock goes through

ASSUME LogAssumption == LastDay \in Nat

VARIABLES
  lines,    \* m_lckQue: the lines not yet taken, by their number
  logged,   \* the number of lines logged
  writer,   \* where the writing thread is
  file,     \* the day of the file it has open
  line,     \* the line it has taken
  written,  \* the lines in the files, each with its file's day
  day,      \* the clock
  up        \* the process runs

logVars == <<lines, logged, writer, file, line, written, day, up>>

LogOK ==
  /\ logged \in Nat /\ lines \in Seq(1..logged)
  /\ writer \in {"none", "open", "pop", "waiting", "woken", "write"}
  /\ day \in 0..LastDay /\ file \in 0..LastDay
  /\ line \in 0..logged
  /\ written \in Seq([line : 1..logged, file : 0..LastDay])
  /\ up \in BOOLEAN

LogInit ==
  /\ lines = <<>> /\ logged = 0 /\ writer = "none"
  /\ file = 0 /\ line = 0 /\ written = <<>> /\ day = 0 /\ up = TRUE

----------------------------------------------------------------------------
\* GetInstance constructs the logger at the first line, and with it the
\* thread; notify_one wakes it if it waits.
Started == IF writer = "none" THEN "open"
           ELSE IF writer = "waiting" THEN "woken" ELSE writer

\* Mutant: the queue is not signalled.
LogSilent ==
  /\ lines' = Append(lines, logged + 1) /\ logged' = logged + 1
  /\ writer' = IF writer = "none" THEN "open" ELSE writer
  /\ UNCHANGED <<file, line, written, day, up>>

\* LOG_ERR.
Log ==
  /\ lines' = Append(lines, logged + 1) /\ logged' = logged + 1
  /\ writer' = Started
  /\ UNCHANGED <<file, line, written, day, up>>

OpenFile ==
  /\ writer = "open"
  /\ file' = day
  /\ writer' = "pop"
  /\ UNCHANGED <<lines, logged, line, written, day, up>>

\* fopen fails and the thread exits the process.
OpenFails ==
  /\ writer = "open"
  /\ up' = FALSE
  /\ UNCHANGED <<lines, logged, writer, file, line, written, day>>

PopWaits ==
  /\ writer \in {"pop", "woken"} /\ lines = <<>>
  /\ writer' = "waiting"
  /\ UNCHANGED <<lines, logged, file, line, written, day, up>>

Pop ==
  /\ writer \in {"pop", "woken"} /\ lines # <<>>
  /\ line' = Head(lines) /\ lines' = Tail(lines)
  /\ writer' = "write"
  /\ UNCHANGED <<logged, file, written, day, up>>

\* Mutant: a second look at the queue before the line is written.
WriteTwice ==
  /\ writer = "write"
  /\ IF lines = <<>>
     THEN /\ written' = Append(written, [line |-> line, file |-> file])
          /\ UNCHANGED lines
     ELSE /\ written' = Append(written, [line |-> Head(lines), file |-> file])
          /\ lines' = Tail(lines)
  /\ writer' = "open"
  /\ UNCHANGED <<logged, file, line, day, up>>

WriteLine ==
  /\ writer = "write"
  /\ written' = Append(written, [line |-> line, file |-> file])
  /\ writer' = "open"
  /\ UNCHANGED <<lines, logged, file, line, day, up>>

\* The wait of LockQueue::Pop returns without a notification.
SpuriousPop ==
  /\ writer = "waiting"
  /\ writer' = "woken"
  /\ UNCHANGED <<lines, logged, file, line, written, day, up>>

Midnight ==
  /\ day < LastDay
  /\ day' = day + 1
  /\ UNCHANGED <<lines, logged, writer, file, line, written, up>>

WriterStep == OpenFile \/ OpenFails \/ PopWaits \/ Pop \/ WriteLine

----------------------------------------------------------------------------
\* The lines on their way: written, in the thread's hands, queued.
Kept ==
  [i \in DOMAIN written |-> written[i].line]
    \o (IF writer = "write" THEN <<line>> ELSE <<>>) \o lines

\* No line is lost, doubled or overtaken between LOG_ERR and the files, and
\* the files are filled one after the other: none gets a line before a line
\* of an earlier day's file, or of a day that is still to come.
InOrder ==
  /\ Len(Kept) = logged /\ \A i \in DOMAIN Kept : Kept[i] = i
  /\ \A i, j \in DOMAIN written : i <= j => written[i].file <= written[j].file
  /\ \A i \in DOMAIN written : written[i].file <= day

\* The writing thread does not sleep over a line.
WriterAwake == writer = "waiting" => lines = <<>>
=============================================================================
