------------------------------ MODULE AuditLogger ------------------------------
(***************************************************************************)
(* The audit log (pkg/audit/logger.go) and its two loggers in the daemon   *)
(* (cmd/frpc/audit.go, run.go): the early one that catches what happens    *)
(* before the configuration is read, and the configured one that takes     *)
(* over while callers may already hold the early one.                      *)
(*                                                                         *)
(* A logger is a bounded channel, a goroutine that drains it into a        *)
(* buffered writer, and a file.  bufio and the JSON encoder keep their     *)
(* first error for ever.  A caller reads the default logger and then sends *)
(* without a lock, so a send may meet a closed channel; Log recovers.      *)
(* Rotation and the slog mirror lose nothing and are left out.             *)
(***************************************************************************)
EXTENDS Naturals, Sequences, FiniteSets, SequencesExt

CONSTANTS
  Callers,
  Entries,      \* entries each caller logs, a bound
  BufferSize,   \* of the channel
  FlushAt,      \* entries the writer holds before it writes to the file
  Faults        \* of FaultKinds

FaultKinds == {"disk", "open", "disabled"}

ASSUME AuditAssumption ==
  /\ Entries \in Nat /\ BufferSize \in Nat \ {0} /\ FlushAt \in Nat \ {0}
  /\ IsFiniteSet(Callers) /\ Faults \subseteq FaultKinds

VARIABLES
  default,  \* the process-wide logger
  caller,   \* caller -> [next, via]: the entry it logs next, the logger it read
  main,     \* of the command: "early", "close", "serve", "exit", "ended"
  leaving,  \* the logger main closes
  ch,       \* logger -> entries in the channel
  closed,   \* logger -> the channel is closed
  buf,      \* logger -> entries in the writer's buffer
  failed,   \* logger -> the writer has its sticky error
  file,     \* logger -> entries in the file
  running,  \* logger -> its goroutine runs
  dropped,  \* logger -> the drop counter
  warned,   \* logger -> the count last put in a warning
  full,     \* the disk is full
  lost,     \* history: entries the file sink lost, reported or not
  drops,    \* history: entries Log did not send
  silent    \* history: entries lost and never reported

queue == <<ch, closed, dropped>>
writer == <<buf, failed, file, running, warned>>
process == <<default, main, leaving>>
history == <<lost, silent, drops>>
vars == <<process, caller, queue, writer, full, history>>

Loggers == {"early", "configured"}
None == "nop"

Change(f, l, v) == [f EXCEPT ![l] = v]

--------------------------------------------------------------------------------
(***************************************************************************)
(* Log: read the default logger, then send, drop or recover.               *)
(***************************************************************************)
Entry(c) == <<c, caller[c].next>>

Load(c) ==
  /\ caller[c].via = "none" /\ caller[c].next < Entries /\ main # "ended"
  /\ caller' = [caller EXCEPT ![c].via = default]
  /\ UNCHANGED <<process, queue, writer, full, history>>

Sent(c) == [caller EXCEPT ![c] = [next |-> @.next + 1, via |-> "none"]]

Enqueue(c) ==
  LET l == caller[c].via IN
  /\ l \in Loggers /\ ~closed[l] /\ Len(ch[l]) < BufferSize
  /\ ch' = Change(ch, l, Append(ch[l], Entry(c)))
  /\ caller' = Sent(c)
  /\ UNCHANGED <<process, closed, dropped, writer, full, history>>

\* A full channel, or a closed one: the panic of the send is recovered.
Drop(c) ==
  LET l == caller[c].via IN
  /\ l \in Loggers /\ (closed[l] \/ Len(ch[l]) >= BufferSize)
  /\ dropped' = Change(dropped, l, dropped[l] + 1)
  /\ drops' = drops \union {<<l, Entry(c)>>}
  /\ caller' = Sent(c)
  /\ UNCHANGED <<process, ch, closed, writer, full, lost, silent>>

LogNop(c) ==
  /\ caller[c].via = None
  /\ caller' = Sent(c)
  /\ UNCHANGED <<process, queue, writer, full, history>>

--------------------------------------------------------------------------------
(***************************************************************************)
(* The goroutine (run).                                                    *)
(***************************************************************************)
\* Flush writes the buffer out or fails for ever; its error is dropped here and
\* everywhere run calls it.
Flushed(l, b) ==
  IF failed[l] \/ b = <<>>
  THEN buf' = Change(buf, l, b) /\ UNCHANGED <<file, failed, silent, lost>>
  ELSE IF full
  THEN /\ buf' = Change(buf, l, b) /\ failed' = Change(failed, l, TRUE)
       /\ silent' = silent \union ToSet(b) /\ lost' = lost \union ToSet(b)
       /\ UNCHANGED file
  ELSE /\ buf' = Change(buf, l, <<>>) /\ file' = Change(file, l, file[l] \o b)
       /\ UNCHANGED <<failed, silent, lost>>

\* One entry: encode it, which fails once the writer has failed and says so.
Write(l) ==
  /\ running[l] /\ ch[l] # <<>>
  /\ ch' = Change(ch, l, Tail(ch[l]))
  /\ IF failed[l]
     THEN lost' = lost \union {Head(ch[l])} /\ UNCHANGED <<buf, file, failed, silent>>
     ELSE LET b == Append(buf[l], Head(ch[l]))
          IN  IF Len(b) < FlushAt
              THEN buf' = Change(buf, l, b) /\ UNCHANGED <<file, failed, silent, lost>>
              ELSE Flushed(l, b)
  /\ UNCHANGED <<process, caller, closed, dropped, running, warned, full, drops>>

\* Mutant: the ticker has no flush; the buffer goes out when it is full.
NoTick(l) ==
  /\ running[l] /\ Len(buf[l]) >= FlushAt
  /\ Flushed(l, buf[l])
  /\ UNCHANGED <<process, caller, queue, running, warned, full, drops>>

FlushTick(l) ==
  /\ running[l] /\ buf[l] # <<>> /\ ~failed[l]
  /\ Flushed(l, buf[l])
  /\ UNCHANGED <<process, caller, queue, running, warned, full, drops>>

Warn(l) ==
  /\ running[l] /\ dropped[l] > warned[l]
  /\ warned' = Change(warned, l, dropped[l])
  /\ UNCHANGED <<process, caller, queue, buf, failed, file, running, full, history>>

\* Mutant: the goroutine ends with the channel, whatever the buffer holds.
DrainUnflushed(l) ==
  /\ running[l] /\ closed[l]
  /\ running' = Change(running, l, FALSE)
  /\ UNCHANGED <<process, caller, queue, buf, failed, file, warned, full, history>>

\* A closed channel is drained first; then flush, summarise the drops, done.
Drained(l) ==
  /\ running[l] /\ closed[l] /\ ch[l] = <<>>
  /\ Flushed(l, buf[l])
  /\ warned' = Change(warned, l, dropped[l])
  /\ running' = Change(running, l, FALSE)
  /\ UNCHANGED <<process, caller, queue, full, drops>>

--------------------------------------------------------------------------------
(***************************************************************************)
(* The command: swap the loggers, serve, exit.                             *)
(***************************************************************************)
\* swapAuditLoggerFromYAML: the new logger is the default before the old one
\* is closed; nothing changes when the new one cannot be opened.
SwapFails ==
  /\ main = "early" /\ "open" \in Faults
  /\ main' = "serve"
  /\ UNCHANGED <<default, leaving, caller, queue, writer, full, history>>

\* With an audit log that the environment or the file disables, entries go
\* nowhere from here on.
Swap ==
  /\ main = "early"
  /\ \E next \in {"configured"} \union (IF "disabled" \in Faults THEN {None} ELSE {}) :
       /\ default' = next /\ leaving' = default
       /\ running' = Change(running, "configured", next = "configured")
  /\ main' = "close"
  /\ UNCHANGED <<caller, queue, buf, failed, file, warned, full, history>>

\* Close: close the channel once, ...
CloseChannel ==
  /\ main \in {"close", "exit"} /\ leaving \in Loggers /\ ~closed[leaving]
  /\ closed' = Change(closed, leaving, TRUE)
  /\ UNCHANGED <<process, caller, ch, dropped, writer, full, history>>

After == IF main = "close" THEN "serve" ELSE "ended"

\* ... wait for the goroutine, close the file.
CloseReturns ==
  /\ main \in {"close", "exit"}
  /\ leaving \in Loggers => closed[leaving] /\ ~running[leaving]
  /\ main' = After
  /\ UNCHANGED <<default, leaving, caller, queue, writer, full, history>>

\* The command ends, early on an error before the swap.
Exit ==
  /\ main \in {"early", "serve"}
  /\ main' = "exit" /\ leaving' = default
  /\ UNCHANGED <<default, caller, queue, writer, full, history>>

DiskFills ==
  /\ "disk" \in Faults /\ ~full
  /\ full' = TRUE
  /\ UNCHANGED <<process, caller, queue, writer, history>>

DiskFrees ==
  /\ full
  /\ full' = FALSE
  /\ UNCHANGED <<process, caller, queue, writer, history>>

--------------------------------------------------------------------------------
\* initEarlyAuditLogger falls back to no logger when it cannot open its file.
Init ==
  /\ default \in {"early"} \union (IF "open" \in Faults THEN {None} ELSE {})
  /\ caller = [c \in Callers |-> [next |-> 0, via |-> "none"]]
  /\ main = "early" /\ leaving = None
  /\ ch = [l \in Loggers |-> <<>>] /\ closed = [l \in Loggers |-> FALSE]
  /\ buf = [l \in Loggers |-> <<>>] /\ file = [l \in Loggers |-> <<>>]
  /\ failed = [l \in Loggers |-> FALSE]
  /\ running = [l \in Loggers |-> l = default]
  /\ dropped = [l \in Loggers |-> 0] /\ warned = [l \in Loggers |-> 0]
  /\ full = FALSE
  /\ lost = {} /\ drops = {} /\ silent = {}

Logging(c) == Load(c) \/ Enqueue(c) \/ Drop(c) \/ LogNop(c)
Goroutine(l) == Write(l) \/ FlushTick(l) \/ Drained(l)
Closing == CloseChannel \/ CloseReturns

Next ==
  \/ \E c \in Callers : Logging(c)
  \/ \E l \in Loggers : Goroutine(l) \/ Warn(l)
  \/ SwapFails \/ Swap \/ Closing \/ Exit
  \/ DiskFills \/ DiskFrees

Spec == Init /\ [][Next]_vars

\* Go runs the goroutines and the command's closing of a logger; the ticker
\* ticks, and select prefers no case for ever.
LiveSpec ==
  /\ Spec
  /\ \A l \in Loggers : SF_vars(Write(l)) /\ SF_vars(FlushTick(l)) /\ WF_vars(Drained(l))
  /\ WF_vars(Closing)

--------------------------------------------------------------------------------
Unwritten == UNION {ToSet(ch[l]) \union ToSet(buf[l]) : l \in Loggers}

DropsCounted ==
  \A l \in Loggers : dropped[l] = Cardinality({d \in drops : d[1] = l})

ExitDrains == main = "ended" => Unwritten \subseteq lost

ClosedIsSilent == (main \in {"serve", "exit"} /\ default = "configured") => ~running["early"]

\* Every drop is in the counter of the logger it was meant for, one by one, also
\* a send that raced Close into a closed channel ("the entry is accounted as a
\* drop", Log).  When the command has ended, what was logged before is in a
\* file, counted as dropped, or lost to a full disk, whichever logger it went to
\* (Close "waits for it to drain all remaining entries").  After a swap the old
\* logger's goroutine is gone: its file does not go on beside the new one.
Accounted == DropsCounted /\ ExitDrains /\ ClosedIsSilent

\* What a live logger has accepted reaches the file, unless its writer fails.
AcceptedIsWritten ==
  \A l \in Loggers : (ch[l] # <<>> \/ buf[l] # <<>>) ~> ((ch[l] = <<>> /\ buf[l] = <<>>) \/ failed[l])
\* "Non-nil close errors surface via slog.Warn so a swap-time disk failure
\* (rotator's final Flush returns EIO, etc.) is observable" (closeAuditLogger,
\* cmd/frpc/audit.go:211): the last flush of a logger loses nothing in silence.
FinalFlushIsReported ==
  [][(\E l \in Loggers : running[l] /\ ~running'[l]) => silent' = silent]_vars
================================================================================
