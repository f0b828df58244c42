--------------------------- MODULE AuditLogger_proofs ---------------------------
(***************************************************************************)
(* Theorems about AuditLogger, for every finite set of callers, every      *)
(* number of entries, every size of the channel and of the writer's        *)
(* buffer, and every fault.                                                *)
(***************************************************************************)
EXTENDS AuditLogger, FiniteSetTheorems, TLAPS

--------------------------------------------------------------------------------
(***************************************************************************)
(* The inductive invariant.                                                *)
(***************************************************************************)
Messages == Callers \X Nat

Typed ==
  /\ default \in Loggers \union {None} /\ leaving \in Loggers \union {None}
  /\ main \in {"early", "close", "serve", "exit", "ended"}
  /\ caller \in [Callers -> [next: Nat, via: Loggers \union {None, "none"}]]
  /\ ch \in [Loggers -> Seq(Messages)] /\ buf \in [Loggers -> Seq(Messages)]
  /\ {closed, running, failed} \subseteq [Loggers -> BOOLEAN]
  /\ dropped \in [Loggers -> Nat]
  /\ drops \subseteq Loggers \X Messages /\ IsFiniteSet(drops)

\* Who can still be sent to has its goroutine, or its channel is closed and a
\* send to it is dropped.
Reached(l) == default = l \/ \E c \in Callers : caller[c].via = l
Heard == \A l \in Loggers : Reached(l) => running[l] \/ closed[l]

\* A goroutine ends with its channel empty and its buffer written or lost, and
\* a writer that failed has lost what it holds.
NothingKept ==
  \A l \in Loggers :
    /\ ~running[l] => ch[l] = <<>> /\ ToSet(buf[l]) \subseteq lost
    /\ failed[l] => ToSet(buf[l]) \subseteq lost

\* The command has at most one logger at a time, two while it swaps them.
Quiet(S) == \A l \in Loggers \ S : ~running[l]

Handover ==
  /\ main = "early" => default \in {"early", None} /\ Quiet({default})
  /\ main = "close" => leaving \in {"early", None} /\ Quiet({leaving, default})
                       /\ default \in {"configured", None}
  /\ main \in {"serve", "exit"} => Quiet({default})
  /\ main = "exit" => leaving = default
  /\ main = "ended" => Quiet({})

\* A caller goes on to its next entry with every drop: no drop is met twice.
Passed == \A d \in drops : d[2][2] < caller[d[2][1]].next

Bookkeeping == Typed /\ Heard /\ NothingKept /\ Handover /\ Passed /\ DropsCounted

--------------------------------------------------------------------------------
(***************************************************************************)
(* Log.                                                                    *)
(***************************************************************************)
\* A caller that has read a logger, or dealt with an entry.
LEMMA LogKeeps ==
  ASSUME Bookkeeping, NEW c \in Callers, Load(c) \/ Enqueue(c) \/ LogNop(c)
  PROVE  Bookkeeping'
<1>0. caller[c] \in [next: Nat, via: Loggers \union {None, "none"}]
  BY DEF Bookkeeping, Typed
<1>1. CASE Load(c)
  <2>1. /\ caller' = [caller EXCEPT ![c].via = default]
        /\ UNCHANGED <<process, queue, writer, full, history>>
    BY <1>1 DEF Load
  <2>2. Typed'
    BY <2>1 DEF Bookkeeping, Typed, process, queue, writer, history
  <2>3. Heard'
    <3>1. \A l \in Loggers : Reached(l)' => Reached(l)
      BY <2>1 DEF Reached, process, Bookkeeping, Typed
    <3> QED BY <2>1, <3>1 DEF Bookkeeping, Heard, queue, writer
  <2>4. Passed'
    BY <2>1 DEF Bookkeeping, Passed, Typed, history, Messages
  <2>5. NothingKept' /\ Handover' /\ DropsCounted'
    BY <2>1 DEF Bookkeeping, NothingKept, Handover, Quiet, DropsCounted, process, queue, writer, history
  <2> QED BY <2>2, <2>3, <2>4, <2>5 DEF Bookkeeping
<1>2. CASE Enqueue(c) \/ LogNop(c)
  <2>1. /\ caller' = Sent(c)
        /\ UNCHANGED <<process, closed, dropped, writer, full, history>>
    BY <1>2 DEF Enqueue, LogNop, queue
  <2>2. /\ caller' \in [Callers -> [next: Nat, via: Loggers \union {None, "none"}]]
        /\ \A b \in Callers : caller'[b].next >= caller[b].next
        /\ \A b \in Callers : b # c => caller'[b] = caller[b]
        /\ caller'[c].via = "none"
    BY <1>0, <2>1 DEF Sent, Bookkeeping, Typed
  <2>3. ch' \in [Loggers -> Seq(Messages)] /\ \A l \in Loggers : ~running[l] => ch'[l] = ch[l]
    <3>1. CASE LogNop(c)
      BY <3>1 DEF LogNop, queue, Bookkeeping, Typed
    <3>2. CASE Enqueue(c)
      <4> DEFINE l == caller[c].via
      <4>1. l \in Loggers /\ ~closed[l] /\ ch' = [ch EXCEPT ![l] = Append(ch[l], Entry(c))]
        BY <3>2 DEF Enqueue, Change
      <4>2. Entry(c) \in Messages
        BY <1>0 DEF Entry, Messages
      <4>3. running[l]
        BY <4>1 DEF Bookkeeping, Heard, Reached
      <4> HIDE DEF l
      <4> QED BY <4>1, <4>2, <4>3 DEF Bookkeeping, Typed
    <3> QED BY <1>2, <3>1, <3>2
  <2>4. Typed'
    BY <2>1, <2>2, <2>3 DEF Bookkeeping, Typed, process, writer, history
  <2>5. Heard'
    <3>1. \A l \in Loggers : Reached(l)' => Reached(l)
      <4>1. "none" \notin Loggers
        BY DEF Loggers
      <4> QED BY <2>1, <2>2, <4>1 DEF Reached, process
    <3> QED BY <2>1, <3>1 DEF Bookkeeping, Heard, writer
  <2>6. Passed'
    BY <2>1, <2>2 DEF Bookkeeping, Passed, Typed, history, Messages
  <2>7. NothingKept' /\ Handover' /\ DropsCounted'
    BY <2>1, <2>3 DEF Bookkeeping, NothingKept, Handover, Quiet, DropsCounted, process, writer, history
  <2> QED BY <2>4, <2>5, <2>6, <2>7 DEF Bookkeeping
<1> QED BY <1>1, <1>2

\* One more drop is one more in the counter, because the entry is a new one.
LEMMA DropKeeps ==
  ASSUME Bookkeeping, NEW c \in Callers, Drop(c)
  PROVE  Bookkeeping'
<1> DEFINE l == caller[c].via
           d == <<l, Entry(c)>>
           Of(k, D) == {e \in D : e[1] = k}
<1>0. /\ l \in Loggers /\ caller' = Sent(c) /\ drops' = drops \union {d}
      /\ dropped' = [dropped EXCEPT ![l] = dropped[l] + 1]
      /\ UNCHANGED <<process, ch, closed, writer, full, lost, silent>>
  BY DEF Drop, Change
<1>1. caller[c] \in [next: Nat, via: Loggers \union {None, "none"}]
  BY DEF Bookkeeping, Typed
<1>2. d \in Loggers \X Messages /\ d[1] = l /\ d[2] = <<c, caller[c].next>>
  BY <1>0, <1>1 DEF Entry, Messages
<1>3. /\ caller' \in [Callers -> [next: Nat, via: Loggers \union {None, "none"}]]
      /\ \A b \in Callers : caller'[b].next >= caller[b].next
      /\ \A b \in Callers : b # c => caller'[b] = caller[b]
      /\ caller'[c].via = "none" /\ caller'[c].next = caller[c].next + 1
  BY <1>0, <1>1 DEF Sent, Bookkeeping, Typed
<1>4. d \notin drops
  BY <1>1, <1>2 DEF Bookkeeping, Passed
<1> HIDE DEF d, l
<1>5. Typed'
  <2>1. drops' \subseteq Loggers \X Messages /\ IsFiniteSet(drops')
    BY <1>0, <1>2, FS_AddElement DEF Bookkeeping, Typed
  <2>2. dropped' \in [Loggers -> Nat]
    BY <1>0 DEF Bookkeeping, Typed
  <2> QED BY <1>0, <1>3, <2>1, <2>2 DEF Bookkeeping, Typed, process, writer
<1>6. Heard'
  <2>1. \A k \in Loggers : Reached(k)' => Reached(k)
    <3>1. "none" \notin Loggers
      BY DEF Loggers
    <3> QED BY <1>0, <1>3, <3>1 DEF Reached, process
  <2> QED BY <1>0, <2>1 DEF Bookkeeping, Heard, writer
<1>7. NothingKept' /\ Handover'
  BY <1>0 DEF Bookkeeping, NothingKept, Handover, Quiet, process, writer
<1>8. Passed'
  <2>1. \A e \in drops : e[2][1] \in Callers /\ e[2][2] \in Nat /\ caller[e[2][1]].next \in Nat
    BY DEF Bookkeeping, Typed, Messages
  <2>2. \A e \in drops : e[2][2] < caller'[e[2][1]].next
    BY <1>3, <2>1 DEF Bookkeeping, Passed
  <2>3. d[2][1] = c /\ d[2][2] < caller'[c].next
    BY <1>1, <1>2, <1>3
  <2> QED BY <1>0, <2>2, <2>3 DEF Passed
<1>9. ASSUME NEW k \in Loggers PROVE dropped'[k] = Cardinality(Of(k, drops'))
  <2>1. dropped[k] = Cardinality(Of(k, drops)) /\ IsFiniteSet(Of(k, drops))
    <3>1. Of(k, drops) \subseteq drops
      OBVIOUS
    <3> QED BY <3>1, FS_Subset DEF Bookkeeping, DropsCounted, Typed
  <2>2. CASE k = l
    <3>1. Of(k, drops') = Of(k, drops) \union {d} /\ d \notin Of(k, drops)
      BY <1>0, <1>2, <1>4, <2>2
    <3>2. Cardinality(Of(k, drops')) = Cardinality(Of(k, drops)) + 1
      BY <2>1, <3>1, FS_AddElement
    <3> QED BY <1>0, <2>1, <2>2, <3>2 DEF Bookkeeping, Typed
  <2>3. CASE k # l
    <3>1. Of(k, drops') = Of(k, drops)
      BY <1>0, <1>2, <2>3
    <3> QED BY <1>0, <2>1, <2>3, <3>1 DEF Bookkeeping, Typed
  <2> QED BY <2>2, <2>3
<1> QED BY <1>5, <1>6, <1>7, <1>8, <1>9 DEF Bookkeeping, DropsCounted

--------------------------------------------------------------------------------
(***************************************************************************)
(* The goroutine.                                                          *)
(***************************************************************************)
\* Flush leaves the writer empty, or failed with everything it holds lost.
LEMMA FlushLosesOrWrites ==
  ASSUME Bookkeeping, NEW l \in Loggers, NEW b \in Seq(Messages),
         failed[l] => ToSet(b) \subseteq lost, Flushed(l, b)
  PROVE  /\ buf' \in [Loggers -> Seq(Messages)] /\ failed' \in [Loggers -> BOOLEAN]
         /\ lost \subseteq lost' /\ ToSet(buf'[l]) \subseteq lost'
         /\ \A k \in Loggers : k # l => buf'[k] = buf[k] /\ failed'[k] = failed[k]
<1>0. <<>> \in Seq(Messages) /\ ToSet(<<>>) = {}
  BY DEF ToSet
<1> QED BY <1>0 DEF Flushed, Change, Bookkeeping, Typed

\* run: an entry is taken from the channel, the ticker flushes, a drained
\* goroutine ends.
LEMMA GoroutineKeeps ==
  ASSUME Bookkeeping, NEW l \in Loggers, Goroutine(l) \/ Warn(l)
  PROVE  Bookkeeping'
<1>0. /\ UNCHANGED <<process, caller, closed, dropped, drops>> /\ running[l]
  BY DEF Goroutine, Write, FlushTick, Drained, Warn, queue, writer, history
<1>1. Passed' /\ DropsCounted' /\ UNCHANGED <<default, main, leaving>>
  BY <1>0 DEF Bookkeeping, Passed, DropsCounted, process
<1>2. ASSUME ch' \in [Loggers -> Seq(Messages)], running' \in [Loggers -> BOOLEAN],
             buf' \in [Loggers -> Seq(Messages)], failed' \in [Loggers -> BOOLEAN],
             \A k \in Loggers : k # l => running'[k] = running[k],
             running'[l] \/ closed[l], NothingKept'
      PROVE  Bookkeeping'
  <2>1. Typed'
    BY <1>0, <1>1, <1>2 DEF Bookkeeping, Typed
  <2>2. Heard'
    BY <1>0, <1>1, <1>2 DEF Bookkeeping, Heard, Reached
  <2>3. \A k \in Loggers : ~running[k] => ~running'[k]
    BY <1>0, <1>2
  <2>4. Handover'
    BY <1>1, <2>3 DEF Bookkeeping, Handover, Quiet
  <2> QED BY <1>1, <1>2, <2>1, <2>2, <2>4 DEF Bookkeeping
<1>3. CASE Write(l)
  <2>1. ch[l] # <<>> /\ ch' = [ch EXCEPT ![l] = Tail(ch[l])] /\ UNCHANGED running
    BY <1>3 DEF Write, Change
  <2>2. /\ ch' \in [Loggers -> Seq(Messages)] /\ running' \in [Loggers -> BOOLEAN]
        /\ \A k \in Loggers : k # l => ch'[k] = ch[k]
        /\ Head(ch[l]) \in Messages /\ ch[l] \in Seq(Messages) /\ buf[l] \in Seq(Messages)
    BY <2>1 DEF Bookkeeping, Typed
  <2> DEFINE b == Append(buf[l], Head(ch[l]))
  <2>3. b \in Seq(Messages)
    BY <2>2
  <2> HIDE DEF b
  <2>4. CASE failed[l] /\ lost' = lost \union {Head(ch[l])} /\ UNCHANGED <<buf, file, failed, silent>>
    <3>1. NothingKept'
      BY <1>0, <2>1, <2>2, <2>4 DEF Bookkeeping, NothingKept
    <3> QED BY <1>0, <1>2, <2>1, <2>2, <2>4, <3>1 DEF Bookkeeping, Typed
  <2>5. CASE ~failed[l] /\ buf' = Change(buf, l, b) /\ UNCHANGED <<file, failed, silent, lost>>
    <3>1. buf' \in [Loggers -> Seq(Messages)] /\ \A k \in Loggers : k # l => buf'[k] = buf[k]
      BY <2>3, <2>5 DEF Change, Bookkeeping, Typed
    <3>2. NothingKept'
      BY <1>0, <2>1, <2>2, <2>5, <3>1 DEF Bookkeeping, NothingKept
    <3> QED BY <1>0, <1>2, <2>1, <2>2, <2>5, <3>1, <3>2 DEF Bookkeeping, Typed
  <2>6. CASE ~failed[l] /\ Flushed(l, b)
    <3>1. /\ buf' \in [Loggers -> Seq(Messages)] /\ failed' \in [Loggers -> BOOLEAN]
          /\ lost \subseteq lost' /\ ToSet(buf'[l]) \subseteq lost'
          /\ \A k \in Loggers : k # l => buf'[k] = buf[k] /\ failed'[k] = failed[k]
      BY <2>3, <2>6, FlushLosesOrWrites
    <3>2. NothingKept'
      BY <1>0, <2>1, <2>2, <3>1 DEF Bookkeeping, NothingKept
    <3> QED BY <1>0, <1>2, <2>1, <2>2, <3>1, <3>2
  <2> QED BY <1>3, <2>4, <2>5, <2>6 DEF Write, b
<1>4. CASE FlushTick(l) \/ Drained(l)
  <2>1. /\ Flushed(l, buf[l]) /\ UNCHANGED ch
        /\ \/ UNCHANGED running
           \/ closed[l] /\ ch[l] = <<>> /\ running' = [running EXCEPT ![l] = FALSE]
    BY <1>4 DEF FlushTick, Drained, queue, Change
  <2>2. /\ ch' \in [Loggers -> Seq(Messages)] /\ running' \in [Loggers -> BOOLEAN]
        /\ running'[l] \/ (closed[l] /\ ch[l] = <<>>)
        /\ \A k \in Loggers : k # l => running'[k] = running[k]
    BY <1>0, <2>1 DEF Bookkeeping, Typed
  <2>3. /\ buf' \in [Loggers -> Seq(Messages)] /\ failed' \in [Loggers -> BOOLEAN]
        /\ lost \subseteq lost' /\ ToSet(buf'[l]) \subseteq lost'
        /\ \A k \in Loggers : k # l => buf'[k] = buf[k] /\ failed'[k] = failed[k]
    <3>1. buf[l] \in Seq(Messages) /\ (failed[l] => ToSet(buf[l]) \subseteq lost)
      BY DEF Bookkeeping, Typed, NothingKept
    <3> QED BY <2>1, <3>1, FlushLosesOrWrites
  <2>4. NothingKept'
    BY <2>1, <2>2, <2>3 DEF Bookkeeping, NothingKept
  <2> QED BY <1>2, <2>2, <2>3, <2>4
<1>5. CASE Warn(l)
  <2>1. UNCHANGED <<ch, running, buf, failed, lost>>
    BY <1>5 DEF Warn, queue, history
  <2>2. NothingKept'
    BY <2>1 DEF Bookkeeping, NothingKept
  <2> QED BY <1>0, <1>2, <2>1, <2>2 DEF Bookkeeping, Typed
<1> QED BY <1>3, <1>4, <1>5 DEF Goroutine

--------------------------------------------------------------------------------
(***************************************************************************)
(* The command, and the disk.                                              *)
(***************************************************************************)
\* swapAuditLoggerFromYAML and Close: whoever can still be sent to is heard.
LEMMA CommandKeeps ==
  ASSUME Bookkeeping, SwapFails \/ Swap \/ Closing \/ Exit \/ DiskFills \/ DiskFrees
  PROVE  Bookkeeping'
<1>0. UNCHANGED <<caller, ch, dropped, buf, failed, lost, drops>>
  BY DEF SwapFails, Swap, Closing, CloseChannel, CloseReturns, Exit, DiskFills, DiskFrees,
     queue, writer, history
<1>1. Passed' /\ DropsCounted'
  BY <1>0 DEF Bookkeeping, Passed, DropsCounted
<1>2. Loggers = {"early", "configured"} /\ None \notin Loggers
  BY DEF Loggers, None
<1>3. CASE SwapFails \/ DiskFills \/ DiskFrees
  <2>1. UNCHANGED <<default, leaving, closed, running>> /\ (UNCHANGED main \/ (main = "early" /\ main' = "serve"))
    BY <1>3 DEF SwapFails, DiskFills, DiskFrees, queue, writer, process
  <2> QED BY <1>0, <1>1, <2>1 DEF Bookkeeping, Typed, Heard, Reached, NothingKept, Handover, Quiet
<1>4. CASE Swap
  <2>1. PICK next \in {"configured", None} :
          /\ main = "early" /\ main' = "close" /\ default' = next /\ leaving' = default
          /\ running' = [running EXCEPT !["configured"] = next = "configured"]
          /\ UNCHANGED closed
    BY <1>4 DEF Swap, queue, Change
  <2>2. default \in {"early", None} /\ ~running["configured"] /\ running' \in [Loggers -> BOOLEAN]
    BY <1>2, <2>1 DEF Bookkeeping, Handover, Quiet, Typed
  <2>3. Typed'
    BY <1>0, <1>2, <2>1, <2>2 DEF Bookkeeping, Typed
  <2>4. running'["early"] = running["early"] /\ running'["configured"] = (next = "configured")
    BY <1>2, <2>1 DEF Bookkeeping, Typed
  <2>5. Heard'
    BY <1>0, <1>2, <2>1, <2>2, <2>4 DEF Bookkeeping, Heard, Reached
  <2>6. NothingKept'
    BY <1>0, <1>2, <2>2, <2>4 DEF Bookkeeping, NothingKept
  <2>7. Handover'
    BY <1>2, <2>1, <2>2, <2>4 DEF Bookkeeping, Handover, Quiet
  <2> QED BY <1>1, <2>3, <2>5, <2>6, <2>7 DEF Bookkeeping
<1>5. CASE CloseChannel
  <2>1. closed' = [closed EXCEPT ![leaving] = TRUE] /\ UNCHANGED <<default, main, leaving, running>>
    BY <1>5 DEF CloseChannel, Change, process, writer
  <2>2. closed' \in [Loggers -> BOOLEAN] /\ \A l \in Loggers : closed[l] => closed'[l]
    BY <2>1 DEF Bookkeeping, Typed
  <2> QED BY <1>0, <1>1, <2>1, <2>2 DEF Bookkeeping, Typed, Heard, Reached, NothingKept, Handover, Quiet
<1>6. CASE CloseReturns
  <2>1. /\ main \in {"close", "exit"} /\ main' = After
        /\ leaving \in Loggers => ~running[leaving]
        /\ UNCHANGED <<default, leaving, closed, running>>
    BY <1>6 DEF CloseReturns, queue, writer
  <2>2. Handover'
    BY <1>2, <2>1 DEF Bookkeeping, Typed, Handover, Quiet, After
  <2> QED BY <1>0, <1>1, <2>1, <2>2 DEF Bookkeeping, Typed, Heard, Reached, NothingKept, After
<1>7. CASE Exit
  <2>1. /\ main \in {"early", "serve"} /\ main' = "exit" /\ leaving' = default
        /\ UNCHANGED <<default, closed, running>>
    BY <1>7 DEF Exit, queue, writer
  <2> QED BY <1>0, <1>1, <2>1 DEF Bookkeeping, Typed, Heard, Reached, NothingKept, Handover, Quiet
<1> QED BY <1>3, <1>4, <1>5, <1>6, <1>7 DEF Closing

--------------------------------------------------------------------------------
\* A logger that has just started owes nothing.
LEMMA InitKeeps == Init => Bookkeeping
<1> SUFFICES ASSUME Init PROVE Bookkeeping
  OBVIOUS
<1>1. <<>> \in Seq(Messages) /\ ToSet(<<>>) = {}
  BY DEF ToSet
<1>2. IsFiniteSet(drops) /\ DropsCounted
  <2>1. \A l \in Loggers : {d \in drops : d[1] = l} = {}
    BY DEF Init
  <2> QED BY <2>1, FS_EmptySet DEF Init, DropsCounted
<1>3. Typed
  BY <1>1, <1>2 DEF Init, Typed, Loggers, None
<1>4. Heard /\ NothingKept /\ Handover /\ Passed
  BY <1>1 DEF Init, Heard, Reached, NothingKept, Handover, Quiet, Passed, Loggers, None
<1> QED BY <1>2, <1>3, <1>4 DEF Bookkeeping

\* Every step keeps the books.
LEMMA StepKeeps == Bookkeeping /\ [Next]_vars => Bookkeeping'
<1> SUFFICES ASSUME Bookkeeping, [Next]_vars PROVE Bookkeeping'
  OBVIOUS
<1>1. CASE UNCHANGED vars
  BY <1>1 DEF vars, process, queue, writer, history, Bookkeeping, Typed, Heard, Reached,
     NothingKept, Handover, Quiet, Passed, DropsCounted
<1>2. ASSUME NEW c \in Callers, Logging(c) PROVE Bookkeeping'
  BY <1>2, LogKeeps, DropKeeps DEF Logging
<1>3. ASSUME NEW l \in Loggers, Goroutine(l) \/ Warn(l) PROVE Bookkeeping'
  BY <1>3, GoroutineKeeps
<1>4. CASE SwapFails \/ Swap \/ Closing \/ Exit \/ DiskFills \/ DiskFrees
  BY <1>4, CommandKeeps
<1> QED BY <1>1, <1>2, <1>3, <1>4 DEF Next

\* Log counts every entry it does not send, Close and run leave nothing in a
\* channel or a buffer that is not lost, and a swap ends the old goroutine.
THEOREM EntriesAreAccounted == Spec => []Accounted
<1>1. Bookkeeping => Accounted
  <2> SUFFICES ASSUME Bookkeeping PROVE ExitDrains /\ ClosedIsSilent
    BY DEF Bookkeeping, Accounted
  <2>1. ASSUME main = "ended" PROVE Unwritten \subseteq lost
    <3>1. \A l \in Loggers : ToSet(ch[l]) = {} /\ ToSet(buf[l]) \subseteq lost
      BY <2>1 DEF Bookkeeping, Handover, Quiet, NothingKept, ToSet
    <3> QED BY <3>1 DEF Unwritten
  <2>2. ClosedIsSilent
    BY DEF Bookkeeping, Handover, Quiet, ClosedIsSilent, Loggers
  <2> QED BY <2>1, <2>2 DEF ExitDrains
<1> QED BY <1>1, InitKeeps, StepKeeps, PTL DEF Spec

================================================================================
