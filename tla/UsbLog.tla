------------------------------- MODULE UsbLog -------------------------------
(***************************************************************************)
(* The bounded USB output of output.rs and the console of console.rs that  *)
(* replies through it.  A line is known by whether its writer flushes; the *)
(* host reads when it likes, so the writer may stop between any two steps. *)
(***************************************************************************)
EXTENDS Naturals, Sequences

CONSTANTS
  Capacity,  \* 16 records
  MaxDropped \* bound: records dropped in one boot

ASSUME UsbLogAssumption == Capacity \in Nat \ {0} /\ MaxDropped \in Nat

VARIABLES
  lines,         \* LINES
  dropped,       \* DROPPED
  total_dropped, \* TOTAL_DROPPED
  flushed,       \* FLUSHED
  writer,        \* writer_task: what it writes next
  console,       \* run: the command and how far it is
  announced,     \* drops in the notices that were written
  older          \* whether an earlier record was still to be flushed when the wait began

usbVars == <<lines, dropped, total_dropped, flushed, writer, console, announced, older>>

Records == {"Line", "Flush"}
Flushing == {"network", "reboot", "watchdog"}
Commands == Flushing \cup {"other"}

Room == Len(lines) < Capacity

\* A record whose end will signal FLUSHED.
InQueue == \E i \in 1..Len(lines) : lines[i] = "Flush"
InWriter == writer.at # "Receive" /\ writer.record = "Flush"
FlushPending == InQueue \/ InWriter

Receiving == [at |-> "Receive", record |-> "Line", notice |-> 0]
Reading == [at |-> "Read", command |-> "other"]

\* After software_reset, or in the loop of "test watchdog", nothing runs.
Stopped == console.at \in {"Reset", "Spin"}

LogTypeOK ==
  /\ lines \in Seq(Records) /\ Len(lines) <= Capacity
  /\ dropped \in Nat /\ total_dropped \in Nat /\ announced \in Nat
  /\ flushed \in BOOLEAN /\ older \in BOOLEAN
  /\ writer \in [at : {"Receive", "Notice", "Line", "Flush"}, record : Records, notice : Nat]
  /\ console \in [at : {"Read", "Reply", "Send", "Wait", "Reset", "Spin"}, command : Commands]

-----------------------------------------------------------------------------
\* QueueLogger::log, by any task.
Log ==
  IF Room
  THEN /\ lines' = Append(lines, "Line")
       /\ UNCHANGED <<dropped, total_dropped, flushed, writer, console, announced, older>>
  ELSE /\ total_dropped < MaxDropped
       /\ dropped' = dropped + 1
       /\ total_dropped' = total_dropped + 1
       /\ UNCHANGED <<lines, flushed, writer, console, announced, older>>

-----------------------------------------------------------------------------
(* writer_task, from one await to the next.                                *)

\* Mutant: the counter is read here and cleared once the notice is written.
SwappedLate == UNCHANGED dropped

\* The swap.
Swapped == dropped' = 0

Receive ==
  /\ writer.at = "Receive" /\ lines # <<>>
  /\ lines' = Tail(lines)
  /\ writer' = [at |-> IF dropped # 0 THEN "Notice" ELSE "Line",
                record |-> Head(lines), notice |-> dropped]
  /\ Swapped
  /\ UNCHANGED <<total_dropped, flushed, console, announced, older>>

NoticeWritten ==
  /\ writer.at = "Notice"
  /\ announced' = announced + writer.notice
  /\ writer' = [writer EXCEPT !.at = "Line", !.notice = 0]
  /\ UNCHANGED <<lines, dropped, total_dropped, flushed, console, older>>

LineWritten ==
  /\ writer.at = "Line"
  /\ writer' = IF writer.record = "Flush" THEN [writer EXCEPT !.at = "Flush"] ELSE Receiving
  /\ UNCHANGED <<lines, dropped, total_dropped, flushed, console, announced, older>>

FlushWritten ==
  /\ writer.at = "Flush"
  /\ flushed' = TRUE
  /\ writer' = Receiving
  /\ UNCHANGED <<lines, dropped, total_dropped, console, announced, older>>

Writer == Receive \/ NoticeWritten \/ LineWritten \/ FlushWritten

-----------------------------------------------------------------------------
(* The console: one command at a time, replied to before the next is read. *)

\* Mutant: FLUSHED keeps what an earlier wait did not take.
WaitBeginsStale == UNCHANGED flushed

\* response_and_flush resets FLUSHED before it queues its record.
WaitBegins == flushed' = FALSE

Hear(command) ==
  /\ console.at = "Read"
  /\ IF command \in Flushing
     THEN /\ WaitBegins /\ older' = FlushPending
          /\ console' = [at |-> "Send", command |-> command]
     ELSE /\ UNCHANGED <<flushed, older>>
          /\ console' = [at |-> "Reply", command |-> command]
  /\ UNCHANGED <<lines, dropped, total_dropped, writer, announced>>

\* response, which waits for room without a limit.
Reply ==
  /\ console.at = "Reply" /\ Room
  /\ lines' = Append(lines, "Line")
  /\ console' = Reading
  /\ UNCHANGED <<dropped, total_dropped, flushed, writer, announced, older>>

Send ==
  /\ console.at = "Send" /\ Room
  /\ lines' = Append(lines, "Flush")
  /\ console' = [console EXCEPT !.at = "Wait"]
  /\ UNCHANGED <<dropped, total_dropped, flushed, writer, announced, older>>

\* What follows the reply: RESTART is signalled, or nothing runs any more.
Carried(command) ==
  CASE command = "reboot" -> [at |-> "Reset", command |-> command]
    [] command = "watchdog" -> [at |-> "Spin", command |-> command]
    [] OTHER -> Reading

FlushSeen ==
  /\ console.at = "Wait" /\ flushed
  /\ flushed' = FALSE
  /\ console' = Carried(console.command)
  /\ UNCHANGED <<lines, dropped, total_dropped, writer, announced, older>>

\* Mutant: the second is counted from when the record is in the queue.
TimedOutAfterSend ==
  /\ console.at = "Wait"
  /\ console' = Carried(console.command)
  /\ UNCHANGED <<lines, dropped, total_dropped, flushed, writer, announced, older>>

\* One second for both: a record that was not sent yet never will be.
TimedOut ==
  /\ console.at \in {"Send", "Wait"}
  /\ console' = Carried(console.command)
  /\ UNCHANGED <<lines, dropped, total_dropped, flushed, writer, announced, older>>

Console == (\E command \in Commands : Hear(command)) \/ Reply \/ Send \/ FlushSeen

\* The statics and tasks, which a reset starts anew.
LogInit ==
  /\ lines = <<>> /\ dropped = 0 /\ total_dropped = 0 /\ flushed = FALSE
  /\ writer = Receiving /\ console = Reading /\ announced = 0 /\ older = FALSE

LogRestarts ==
  /\ lines' = <<>> /\ dropped' = 0 /\ total_dropped' = 0 /\ flushed' = FALSE
  /\ writer' = Receiving /\ console' = Reading /\ announced' = 0 /\ older' = FALSE

-----------------------------------------------------------------------------
\* Every log line that was lost is in a notice that was written, in the one
\* being written, or still counted, whatever is dropped while the writer swaps
\* the counter and writes (output.rs, writer_task).
DropsAreCounted == total_dropped = announced + writer.notice + dropped

\* The wait for a flush ends early only when its own line was written, unless
\* the record of an earlier wait, which timed out, was still to be written when
\* it began: that one's signal is taken for its own (output.rs,
\* response_and_flush).
EarlyFlushIsOwn == console.at = "Wait" /\ flushed /\ ~older => ~FlushPending
=============================================================================
