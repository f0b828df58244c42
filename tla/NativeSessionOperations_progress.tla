------------------- MODULE NativeSessionOperations_progress -------------------
(***************************************************************************)
(* What competing recoveries see of each other: a recovery that lost an    *)
(* optimistic write always finds progress, and the deadline one recovery   *)
(* persisted holds back every other.  Then what a process may rely on that *)
(* has the state directory to itself.                                      *)
(***************************************************************************)
EXTENDS NativeSessionOperations_proofs

--------------------------------------------------------------------------------
(***************************************************************************)
(* A record never comes back.  What a recovery finds in place of the       *)
(* record it lost is progress over it, unless it is that very record       *)
(* again; transitions only move status and counters forward, but a pinned  *)
(* endpoint could be pinned away and back.  It is not, because only the    *)
(* process that took an attempt number may move the endpoint under it.     *)
(***************************************************************************)
\* The steps at which a process owns the attempt number of the record it holds.
Owner == {"exchange", "silent", "pin"}

Follows(s) ==
  s.pc \in Holding /\ s.held.status # "PREPARED" =>
    \/ journal[s.op] = Absent
    \/ journal[s.op] = s.held /\ s.pc # "reconcile"
    \/ MonotonicAdvance(s.held, journal[s.op])

Owns(p) ==
  proc[p].pc \in Owner =>
    LET s == proc[p]
    IN  /\ journal[s.op] # Absent /\ journal[s.op].attempt = s.held.attempt
             => journal[s.op].endpoint = s.held.endpoint
        /\ s.pc = "pin" => s.moved.endpoint # s.held.endpoint
        /\ \A q \in Procs : LET t == proc[q] IN
             /\ q # p /\ t.pc \in Holding /\ t.op = s.op
             /\ t.held.status # "PREPARED" /\ t.held.attempt = s.held.attempt
             => t.pc \notin Owner /\ t.held.endpoint = s.held.endpoint

Forward == \A p \in Procs : Follows(proc[p]) /\ Owns(p)

\* A transition that comes back to a record progress had left changed nothing
\* but the endpoint (validSessionOperationTransition).
LEMMA OnlyEndpointsReturn ==
  ASSUME NEW r \in Record, NEW m \in Record, MonotonicAdvance(r, m), ValidTransition(m, r)
  PROVE  m.status = r.status /\ m.attempt = r.attempt /\ m.noReply = r.noReply
BY DEF ValidTransition, MonotonicAdvance, Record, SameOperation, KeepsAdmission,
       NoRegress, RecoveryProgress, Transitions, Reachable, Status

\* Progress never loses an attempt (validSessionOperationRecoveryProgress).
LEMMA ProgressCounts ==
  ASSUME NEW r \in Record, NEW m \in Record, m = r \/ MonotonicAdvance(r, m)
  PROVE  m.attempt >= r.attempt
BY DEF MonotonicAdvance, NoRegress, Record

\* A process that holds a record holds a well-formed one of an operation that
\* was issued; an owner is past the ambiguity boundary.
LEMMA WhatIsHeld ==
  ASSUME Sanity, Kept, NEW p \in Procs
  PROVE  /\ proc[p].pc \in Holding =>
              /\ proc[p].op \in Ops /\ proc[p].op \in issued
              /\ Sane(proc[p].held) /\ proc[p].held \in Record
         /\ proc[p].pc \in Owner => proc[p].pc \in Holding /\ proc[p].held.status # "PREPARED"
<1>1. Sound(proc[p]) /\ Keeps(proc[p])
  BY DEF Sanity, ProcsSound, Kept
<1>2. Owner \subseteq Holding /\ Owner \subseteq Acting /\ "PREPARED" \notin Custodied
  BY DEF Owner, Holding, Acting, Custodied
<1>3. proc[p].pc \in Owner => proc[p].held.status \in Custodied
  BY <1>1, <1>2 DEF Keeps
<1>4. proc[p].pc \in Holding => proc[p].op \in Ops /\ proc[p].op \in issued /\ Sane(proc[p].held)
  BY <1>1 DEF Sound, Keeps, Holding, Resting
<1> QED BY <1>2, <1>3, <1>4 DEF Sane

\* However a call ends or starts over, the process holds no record.
LEMMA EndingsHoldNothing ==
  ASSUME NEW s \in Process
  PROVE  /\ Rest(s).pc \notin Holding /\ Fail(s).pc \notin Holding /\ Refuse(s).pc \notin Holding
         /\ Succeed(s).pc \notin Holding /\ Cleanup(s).pc \notin Holding
         /\ Reload(s).pc \notin Holding
         /\ Reconcile(s).pc = "reconcile" /\ Reconcile(s).op = s.op /\ Reconcile(s).held = s.held
<1>1. Cleanup(s).pc = "load" /\ Reload(s).pc = "load" /\ \A t : Rest(t).pc = "idle"
  BY DEF Process, Cleanup, Reload, Rest
<1>2. \A f : Swept(s, f).pc = "sweep"
  BY DEF Swept, Rest
<1>3. \A f : Ends(s, f).pc \in {"idle", "sweep"}
  BY <1>2 DEF Ends, Rest
<1>4. Succeed(s).pc \in {"idle", "sweep", "pendings"}
  BY <1>1, <1>2 DEF Succeed, Rest
<1>5. {"idle", "sweep", "pendings", "load"} \cap Holding = {}
  BY DEF Holding
<1>6. Reconcile(s).pc = "reconcile" /\ Reconcile(s).op = s.op /\ Reconcile(s).held = s.held
  BY DEF Process, Reconcile
<1> QED BY <1>1, <1>3, <1>4, <1>5, <1>6 DEF Fail, Refuse

\* A step that writes nothing: the process loses its record, keeps it, or takes
\* the one the journal holds at that moment.
LEMMA LookingForward ==
  ASSUME Sanity, Kept, Forward, NEW p \in Procs, NEW t, Become(p, t), UNCHANGED journal,
         \/ t.pc \notin Holding
         \/ /\ t.held = journal[t.op] /\ t.held # Absent
            /\ t.pc \notin Owner \union {"reconcile"}
         \/ /\ proc[p].pc \in Holding /\ t.op = proc[p].op /\ t.held = proc[p].held
            /\ t.pc \in Owner => proc[p].pc \in Owner
            /\ t.pc = "reconcile" => journal[t.op] # t.held \/ proc[p].pc = "reconcile"
            /\ t.pc = "pin" => t.moved.endpoint # t.held.endpoint
  PROVE  Forward'
<1>1. proc'[p] = t /\ \A q \in Procs : q # p => proc'[q] = proc[q]
  BY DEF Become, Sanity, ProcsSound
<1>2. Owner \subseteq Holding /\ "pin" \in Owner
  BY DEF Owner, Holding
<1>3. Follows(t)
  BY DEF Forward, Follows
<1>4. \A q \in Procs : Follows(proc[q])'
  BY <1>1, <1>3 DEF Forward, Follows
<1>5. Owns(p)'
  <2>1. CASE t.pc \notin Owner
    BY <1>1, <2>1 DEF Owns
  <2>2. CASE t.pc \in Owner
    <3>1. proc[p].pc \in Owner /\ t.op = proc[p].op /\ t.held = proc[p].held
          /\ (t.pc = "pin" => t.moved.endpoint # t.held.endpoint)
      BY <1>2, <2>2
    <3> QED BY <1>1, <3>1 DEF Forward, Owns
  <2> QED BY <2>1, <2>2
<1>6. ASSUME NEW q \in Procs, q # p PROVE Owns(q)'
  <2> SUFFICES ASSUME proc[q].pc \in Owner PROVE Owns(q)'
    BY <1>1, <1>6 DEF Owns
  <2> DEFINE s == proc[q]
  <2>1. /\ journal[s.op] # Absent /\ journal[s.op].attempt = s.held.attempt
             => journal[s.op].endpoint = s.held.endpoint
        /\ s.pc = "pin" => s.moved.endpoint # s.held.endpoint
        /\ \A r \in Procs :
             /\ r # q /\ proc[r].pc \in Holding /\ proc[r].op = s.op
             /\ proc[r].held.status # "PREPARED" /\ proc[r].held.attempt = s.held.attempt
             => proc[r].pc \notin Owner /\ proc[r].held.endpoint = s.held.endpoint
    BY DEF Forward, Owns
  <2>2. ASSUME t.pc \in Holding, t.op = s.op, t.held.status # "PREPARED",
               t.held.attempt = s.held.attempt
        PROVE  t.pc \notin Owner /\ t.held.endpoint = s.held.endpoint
    <3>1. CASE t.held = journal[t.op] /\ t.held # Absent /\ t.pc \notin Owner
      BY <2>1, <2>2, <3>1
    <3>2. CASE /\ proc[p].pc \in Holding /\ t.op = proc[p].op /\ t.held = proc[p].held
               /\ t.pc \in Owner => proc[p].pc \in Owner
      BY <1>6, <2>1, <2>2, <3>2
    <3> QED BY <2>2, <3>1, <3>2
  <2> QED BY <1>1, <1>6, <2>1, <2>2 DEF Owns
<1> QED BY <1>4, <1>5, <1>6 DEF Forward

\* A locked write.  It moves the status or a counter, or it pins an endpoint
\* under an attempt number the process owns; so the journal never shows another
\* recovery the record that one has lost.
LEMMA WritingForward ==
  ASSUME Sanity, Sanity', Kept, Forward, NEW p \in Procs, proc[p].pc \in Holding,
         NEW next, NEW done, NEW lost, NEW err,
         Write(p, next, done, lost, err),
         Legal(proc[p].held, next) /\ next # Absent =>
           \/ /\ next.endpoint = proc[p].held.endpoint
              /\ \/ next.status # proc[p].held.status
                 \/ next.attempt # proc[p].held.attempt
                 \/ next.noReply # proc[p].held.noReply
           \/ proc[p].pc = "pin" /\ next = proc[p].moved,
         Legal(proc[p].held, next) =>
           \/ done.pc \notin Holding
           \/ /\ next # Absent /\ done.op = proc[p].op /\ done.held = next
              /\ \/ done.pc \notin Owner \union {"reconcile"}
                 \/ done.pc = "exchange" /\ next.attempt > proc[p].held.attempt,
         \/ lost.pc \notin Holding
         \/ lost.pc = "reconcile" /\ lost.op = proc[p].op /\ lost.held = proc[p].held,
         err.pc \notin Holding
  PROVE  Forward'
<1>0. PICK o \in Ops, prev \in Record : o = proc[p].op /\ prev = proc[p].held
  BY WhatIsHeld
<1>1. CASE UNCHANGED journal /\ (Become(p, err) \/ (journal[o] # prev /\ Become(p, lost)))
  <2>1. CASE Become(p, err)
    BY <1>1, <2>1, LookingForward
  <2>2. CASE journal[o] # prev /\ Become(p, lost)
    <3>1. CASE lost.pc \notin Holding
      BY <1>1, <2>2, <3>1, LookingForward
    <3>2. CASE lost.pc = "reconcile" /\ lost.op = proc[p].op /\ lost.held = proc[p].held
      <4>1. lost.pc \notin Owner
        BY <3>2 DEF Owner
      <4> QED BY <1>0, <1>1, <2>2, <3>2, <4>1, LookingForward
    <3> QED BY <3>1, <3>2
  <2> QED BY <1>1, <2>1, <2>2
<1>2. CASE /\ Legal(prev, next) /\ journal[o] = prev
           /\ journal' = [journal EXCEPT ![o] = next]
           /\ Become(p, done) \/ Become(p, err)
  <2>1. journal'[o] = next /\ \A x \in Ops : x # o => journal'[x] = journal[x]
    BY <1>2 DEF Sanity, JournalSane
  <2>2. (\A q \in Procs : q # p => proc'[q] = proc[q]) /\ proc'[p] \in {done, err}
    BY <1>2 DEF Become, Sanity, ProcsSound
  <2>3. prev # Absent /\ Owner \subseteq Holding /\ "pin" \in Owner /\ "reconcile" \notin Owner
    BY AbsentIsNoRecord DEF Owner, Holding
  <2>4. next # Absent => next \in Record /\ ValidTransition(prev, next)
    BY <1>0, <1>2, <2>1 DEF Legal, Sanity, JournalSane
  <2>5. next # Absent => prev.attempt \in Nat /\ next.attempt \in Nat /\ next.attempt >= prev.attempt
    BY <2>4 DEF ValidTransition, RecoveryProgress, NoRegress, Record
  \* A pin moves the endpoint away from the one pinned under this number.
  <2>6. next # Absent =>
          \/ next.endpoint = prev.endpoint
          \/ /\ proc[p].pc = "pin" /\ next.endpoint # prev.endpoint /\ next.attempt = prev.attempt
    <3>1. CASE next # Absent /\ proc[p].pc = "pin" /\ next = proc[p].moved
      <4>1. proc[p].moved = [prev EXCEPT !.endpoint = proc[p].moved.endpoint]
        BY <1>0, <3>1 DEF Kept, Keeps
      <4>2. proc[p].moved.endpoint # prev.endpoint
        BY <1>0, <2>3, <3>1 DEF Forward, Owns
      <4>3. proc[p].moved.attempt = prev.attempt
        BY <4>1 DEF Record
      <4> QED BY <3>1, <4>2, <4>3
    <3> QED BY <1>0, <1>2, <3>1
  <2>7. ASSUME NEW q \in Procs, q # p, proc[q].pc \in Holding, proc[q].op = o,
               proc[q].held.status # "PREPARED"
        PROVE  /\ proc[q].held \in Record /\ prev.attempt >= proc[q].held.attempt
               /\ proc[q].held.attempt \in Nat
               /\ next = Absent \/ next = proc[q].held \/ MonotonicAdvance(proc[q].held, next)
               /\ proc[q].pc = "reconcile" => next # proc[q].held
    <3> DEFINE r == proc[q].held
    <3>1. r \in Record /\ r.attempt \in Nat
      BY <2>7, WhatIsHeld DEF Record
    <3>2. \/ prev = r /\ proc[q].pc # "reconcile"
          \/ MonotonicAdvance(r, prev)
      BY <1>2, <2>3, <2>7 DEF Forward, Follows
    <3>3. prev.attempt >= r.attempt
      BY <3>1, <3>2, ProgressCounts
    <3>4. next = Absent \/ next = r \/ MonotonicAdvance(r, next)
      BY <2>4, <2>7, <3>1, <3>2, ProgressComposes
    <3>5. ASSUME proc[q].pc = "reconcile", next = r PROVE FALSE
      <4>1. next \in Record /\ next # Absent /\ ValidTransition(prev, r) /\ MonotonicAdvance(r, prev)
        BY <2>4, <3>1, <3>2, <3>5, AbsentIsNoRecord
      <4>2. prev.status = r.status /\ prev.attempt = r.attempt /\ prev.noReply = r.noReply
        BY <3>1, <4>1, OnlyEndpointsReturn
      <4>3. proc[p].pc = "pin" /\ next = proc[p].moved
        BY <1>0, <1>2, <3>5, <4>1, <4>2
      <4>4. r.endpoint = prev.endpoint
        BY <1>0, <2>3, <2>7, <4>2, <4>3 DEF Forward, Owns
      <4>5. next.endpoint # prev.endpoint
        BY <1>0, <2>3, <4>3 DEF Forward, Owns
      <4> QED BY <3>5, <4>4, <4>5
    <3> QED BY <3>1, <3>3, <3>4, <3>5
  <2>8. ASSUME NEW q \in Procs PROVE Follows(proc[q])'
    <3>1. CASE q = p
      <4>1. CASE proc'[p].pc \notin Holding
        BY <3>1, <4>1 DEF Follows
      <4>2. CASE proc'[p] = done /\ done.pc \in Holding
        <5>1. done.op = o /\ done.held = next /\ done.pc # "reconcile"
          BY <1>0, <1>2, <4>2
        <5> QED BY <2>1, <3>1, <4>2, <5>1 DEF Follows
      <4> QED BY <2>2, <4>1, <4>2
    <3>2. CASE q # p /\ proc[q].op # o
      <4>1. Follows(proc[q]) /\ proc'[q] = proc[q]
        BY <2>2, <3>2 DEF Forward
      <4>2. proc[q].pc \in Holding => journal'[proc[q].op] = journal[proc[q].op]
        BY <2>1, <3>2, WhatIsHeld
      <4> QED BY <4>1, <4>2 DEF Follows
    <3>3. CASE q # p /\ proc[q].op = o
      <4>1. proc'[q] = proc[q]
        BY <2>2, <3>3
      <4> QED BY <2>1, <2>7, <3>3, <4>1 DEF Follows
    <3> QED BY <3>1, <3>2, <3>3
  \* What the writer holds now is told apart from what an owner holds.
  <2>9. ASSUME NEW q \in Procs, q # p, proc[q].pc \in Owner, proc[q].op = o, next # Absent,
               next.attempt = proc[q].held.attempt
        PROVE  next.endpoint = proc[q].held.endpoint /\ next.attempt = prev.attempt
    <3>1. proc[q].pc \in Holding /\ proc[q].held.status # "PREPARED"
      BY <2>9, WhatIsHeld
    <3>2. prev.attempt >= proc[q].held.attempt /\ proc[q].held.attempt \in Nat
      BY <2>7, <2>9, <3>1
    <3>3. prev.attempt = proc[q].held.attempt
      BY <2>5, <2>9, <3>2
    <3>4. prev.endpoint = proc[q].held.endpoint
      BY <1>2, <2>3, <2>9, <3>3 DEF Forward, Owns
    <3>5. proc[p].pc # "pin"
      BY <1>0, <2>3, <2>9, <3>1, <3>3 DEF Forward, Owns
    <3> QED BY <2>6, <2>9, <3>3, <3>4, <3>5
  <2>10. ASSUME NEW q \in Procs, q # p PROVE Owns(q)'
    <3> SUFFICES ASSUME proc[q].pc \in Owner PROVE Owns(q)'
      BY <2>2, <2>10 DEF Owns
    <3> DEFINE s == proc[q]
    <3>1. /\ journal[s.op] # Absent /\ journal[s.op].attempt = s.held.attempt
               => journal[s.op].endpoint = s.held.endpoint
          /\ s.pc = "pin" => s.moved.endpoint # s.held.endpoint
          /\ \A r \in Procs :
               /\ r # q /\ proc[r].pc \in Holding /\ proc[r].op = s.op
               /\ proc[r].held.status # "PREPARED" /\ proc[r].held.attempt = s.held.attempt
               => proc[r].pc \notin Owner /\ proc[r].held.endpoint = s.held.endpoint
      BY DEF Forward, Owns
    <3>2. journal'[s.op] # Absent /\ journal'[s.op].attempt = s.held.attempt
            => journal'[s.op].endpoint = s.held.endpoint
      <4>1. s.op \in Ops
        BY <2>3, WhatIsHeld
      <4> QED BY <2>1, <2>9, <2>10, <3>1, <4>1
    <3>3. ASSUME proc'[p].pc \in Holding, proc'[p].op = s.op,
                 proc'[p].held.status # "PREPARED", proc'[p].held.attempt = s.held.attempt
          PROVE  proc'[p].pc \notin Owner /\ proc'[p].held.endpoint = s.held.endpoint
      <4>1. /\ proc'[p] = done /\ next # Absent /\ done.op = o /\ done.held = next
            /\ \/ done.pc \notin Owner
               \/ next.attempt > prev.attempt
        BY <1>0, <1>2, <2>2, <3>3
      <4>2. next.endpoint = s.held.endpoint /\ next.attempt = prev.attempt
        BY <2>9, <2>10, <3>3, <4>1
      <4> QED BY <2>5, <4>1, <4>2
    <3> QED BY <2>2, <2>10, <3>1, <3>2, <3>3 DEF Owns
  <2>11. Owns(p)'
    <3> SUFFICES ASSUME proc'[p].pc \in Owner PROVE Owns(p)'
      BY DEF Owns
    <3>1. /\ proc'[p] = done /\ done.op = o /\ done.held = next /\ next # Absent
          /\ done.pc = "exchange" /\ next.attempt > prev.attempt
      BY <1>0, <1>2, <2>2, <2>3
    <3>2. ASSUME NEW q \in Procs, q # p, proc[q].pc \in Holding, proc[q].op = o,
                 proc[q].held.status # "PREPARED", proc[q].held.attempt = next.attempt
          PROVE  FALSE
      <4>1. prev.attempt >= proc[q].held.attempt
        BY <2>7, <3>2
      <4> QED BY <2>5, <3>1, <3>2, <4>1
    <3> QED BY <2>1, <2>2, <3>1, <3>2 DEF Owns
  <2> QED BY <2>8, <2>10, <2>11 DEF Forward
<1> QED BY <1>0, <1>1, <1>2 DEF Write

\* Every step of the admission and retirement paths goes forward.
LEMMA AdmittingForward ==
  ASSUME Sanity, Sanity', Kept, Forward, NEW p \in Procs,
         Admitting(p) \/ RecoverPending(p, "orphans") \/ Retiring(p) \/ Crash(p)
  PROVE  Forward'
<1> DEFINE s == proc[p]
           Off(t) == t.pc \notin Holding
<1> USE DEF At, durable, host, network, history
<1>0. /\ s \in Process /\ Sound(s) /\ Keeps(s)
      /\ Off(Rest(s)) /\ Off(Fail(s)) /\ Off(Refuse(s)) /\ Off(Succeed(s)) /\ Off(Cleanup(s))
  BY EndingsHoldNothing DEF Sanity, ProcsSound, Kept
<1>1. ASSUME NEW t, Become(p, t), Off(t), UNCHANGED journal PROVE Forward'
  BY <1>1, LookingForward
<1>2. ASSUME NEW task \in {"orphans", "admit"}, RecoverPending(p, task) PROVE Forward'
  <2>1. \A todo : Off([s EXCEPT !.pc = "sweep", !.task = task, !.todo = todo])
    BY <1>0 DEF Process, Holding
  <2> QED BY <1>1, <1>2, <2>1 DEF RecoverPending
<1>3. CASE CreateOperation(p)
  <2>1. CASE Become(p, Fail(s)) /\ UNCHANGED durable
    BY <1>0, <1>1, <2>1
  <2>2. ASSUME NEW o \in Ops \ issued, NEW r, r.status = "PREPARED",
               journal' = [journal EXCEPT ![o] = r],
               \/ Become(p, [s EXCEPT !.pc = "dispatch", !.op = o, !.held = r])
               \/ Become(p, Fail(s))
        PROVE  Forward'
    <3>1. \A x \in Ops : x # o => journal'[x] = journal[x]
      BY <2>2 DEF Sanity, JournalSane
    <3>2. \A q \in Procs : q # p => proc'[q] = proc[q]
      BY <2>2 DEF Become, Sanity, ProcsSound
    <3>3. ASSUME NEW q \in Procs, proc[q].pc \in Holding PROVE journal'[proc[q].op] = journal[proc[q].op]
      BY <2>2, <3>1, <3>3, WhatIsHeld
    <3>4. proc'[p].pc \in Holding => proc'[p].pc = "dispatch" /\ proc'[p].held.status = "PREPARED"
      <4>1. CASE proc'[p] = Fail(s)
        BY <1>0, <4>1
      <4>2. CASE proc'[p] = [s EXCEPT !.pc = "dispatch", !.op = o, !.held = r]
        BY <1>0, <2>2, <4>2 DEF Process
      <4> QED BY <2>2, <4>1, <4>2 DEF Become, Sanity, ProcsSound
    <3>5. Owner \subseteq Holding /\ "dispatch" \notin Owner
      BY DEF Owner, Holding
    <3>6. ASSUME NEW q \in Procs PROVE Follows(proc[q])'
      BY <3>2, <3>3, <3>4 DEF Forward, Follows
    <3>7. ASSUME NEW q \in Procs PROVE Owns(q)'
      <4>1. CASE q = p
        BY <3>4, <3>5, <4>1 DEF Owns
      <4>2. CASE q # p
        BY <3>2, <3>3, <3>4, <3>5, <4>2 DEF Forward, Owns
      <4> QED BY <4>1, <4>2
    <3> QED BY <3>6, <3>7 DEF Forward
  <2> DEFINE record == NewRecord(assigned, clock + Lifetime)
  <2>3. record.status = "PREPARED"
    BY DEF NewRecord
  <2> HIDE DEF record
  <2> QED BY <1>3, <2>1, <2>2, <2>3 DEF CreateOperation, record
<1>4. CASE PersistDispatching(p)
  <2> DEFINE next == [s.held EXCEPT !.status = "DISPATCHING"]
             done == [s EXCEPT !.pc = "knock", !.held = Absent]
  <2>1. s.pc = "dispatch" /\ s.pc \in Holding /\ s.held.status = "PREPARED" /\ s.held \in Record
    BY <1>0, <1>4, WhatIsHeld DEF PersistDispatching, Holding, Keeps
  <2>2. next.status # s.held.status /\ next.endpoint = s.held.endpoint
    BY <2>1 DEF Record
  <2>3. Off(done)
    BY <1>0 DEF Process, Holding
  <2>4. Write(p, next, done, Fail(s), Fail(s))
    BY <1>4 DEF PersistDispatching
  <2> HIDE DEF next, done
  <2> QED BY <1>0, <2>1, <2>2, <2>3, <2>4, WritingForward
<1>5. CASE SendKnock(p) \/ KnockReturns(p)
  <2>1. Off([s EXCEPT !.pc = "knocking"]) /\ Off([s EXCEPT !.pc = "mapLoad"])
    BY <1>0 DEF Process, Holding
  <2> QED BY <1>0, <1>1, <1>5, <2>1 DEF SendKnock, KnockReturns
<1>6. CASE RecordMapped(p)
  <2>1. CASE s.pc = "mapLoad"
    <3>1. CASE Become(p, Cleanup(s))
      BY <1>0, <1>1, <1>6, <2>1, <3>1 DEF RecordMapped
    <3>2. CASE /\ journal[s.op].status = "DISPATCHING"
               /\ Become(p, [s EXCEPT !.pc = "mapWrite", !.held = journal[s.op]])
      <4> DEFINE t == [s EXCEPT !.pc = "mapWrite", !.held = journal[s.op]]
      <4>1. t.pc = "mapWrite" /\ t.op = s.op /\ t.held = journal[s.op]
        BY <1>0 DEF Process
      <4>2. t.held # Absent /\ UNCHANGED journal
        BY <1>6, <2>1, <3>2, <4>1 DEF Absent, RecordMapped
      <4>3. t.pc \notin Owner \union {"reconcile"}
        BY <4>1 DEF Owner
      <4>4. Become(p, t)
        BY <3>2
      <4> HIDE DEF t
      <4> QED BY <4>1, <4>2, <4>3, <4>4, LookingForward
    <3> QED BY <1>6, <2>1, <3>1, <3>2 DEF RecordMapped
  <2>2. CASE s.pc = "mapWrite"
    <3> DEFINE next == [s.held EXCEPT !.status = "MAPPED", !.admission = TRUE]
               done == [s EXCEPT !.pc = "track", !.held = Absent]
    <3>1. s.pc \in Holding /\ s.held \in Record
      BY <2>2, WhatIsHeld DEF Holding
    <3>2. next.status = "MAPPED" /\ next.endpoint = s.held.endpoint
      BY <3>1 DEF Record
    <3>3. Off(done)
      BY <1>0 DEF Process, Holding
    <3>4. Write(p, next, done, Cleanup(s), Cleanup(s))
      BY <1>6, <2>2 DEF RecordMapped
    <3> HIDE DEF next, done
    <3>5. Legal(s.held, next) /\ next # Absent => next.status # s.held.status
      BY <3>2 DEF Legal, ValidTransition, Transitions
    <3> QED BY <1>0, <3>1, <3>2, <3>3, <3>4, <3>5, WritingForward
  <2> QED BY <1>6, <2>1, <2>2 DEF RecordMapped
<1>7. CASE TrackAdmission(p)
  <2> DEFINE t == [s EXCEPT !.live = @ \union {s.op}]
  <2>1. Off(Rest(t))
    BY DEF Rest, Holding
  <2>2. \A x : Off([t EXCEPT !.pc = "retire", !.task = "retire", !.pending = x])
    BY <1>0 DEF Process, Holding
  <2>3. /\ \/ Become(p, Rest(t)) \/ Become(p, Cleanup(s))
           \/ \E x : Become(p, [t EXCEPT !.pc = "retire", !.task = "retire", !.pending = x])
        /\ UNCHANGED journal
    BY <1>7 DEF TrackAdmission
  <2> HIDE DEF t
  <2>4. \E u : Off(u) /\ Become(p, u) /\ UNCHANGED journal
    BY <1>0, <2>1, <2>2, <2>3
  <2> QED BY <1>1, <2>4
<1>8. CASE Retiring(p)
  <2>1. /\ \A o, x : Off([s EXCEPT !.pc = "retire", !.task = "retire", !.op = o, !.pending = x])
        /\ Off([s EXCEPT !.pc = "pendings", !.task = "queue"])
        /\ \A o : Off([s EXCEPT !.pc = "retire", !.op = o])
        /\ Off([s EXCEPT !.pc = "prepare", !.task = "knock"])
        /\ Off([s EXCEPT !.pc = "load"])
    BY <1>0 DEF Process, Holding
  <2>2. Off([Rest(s) EXCEPT !.queued = FALSE])
    BY DEF Rest, Holding
  <2>3. CASE RetireAdmission(p) \/ RecoverQueued(p)
    BY <1>1, <2>1, <2>3 DEF RetireAdmission, RecoverQueued
  <2>4. CASE RetirePendingForResource(p)
    BY <1>1, <2>1, <2>2, <2>4 DEF RetirePendingForResource
  <2>5. CASE Retire(p)
    BY <1>0, <1>1, <2>1, <2>5 DEF Retire
  <2> QED BY <1>8, <2>3, <2>4, <2>5 DEF Retiring
<1>9. CASE Crash(p)
  BY <1>1, <1>9 DEF Crash, Fresh, Holding
<1> QED BY <1>2, <1>3, <1>4, <1>5, <1>6, <1>7, <1>8, <1>9 DEF Admitting

\* The steps of a recovery that choose, load, wait or reconcile, and the
\* exchanges: none of them writes the journal.
LEMMA LookingOnForward ==
  ASSUME Sanity, Kept, Forward, NEW p \in Procs,
         \/ RecoverNext(p) \/ RecoverPendingEnds(p) \/ LoadOperation(p)
         \/ AwaitDeadline(p) \/ ReconcileConflict(p)
         \/ ExchangePinned(p) \/ ExchangeRefenced(p)
  PROVE  Forward'
<1> DEFINE s == proc[p]
           Off(t) == t.pc \notin Holding
<1> USE DEF At, durable, host, network, history
<1>0. /\ s \in Process /\ Sound(s) /\ Keeps(s)
      /\ Off(Rest(s)) /\ Off(Fail(s)) /\ Off(Refuse(s)) /\ Off(Succeed(s)) /\ Off(Reload(s))
  BY EndingsHoldNothing DEF Sanity, ProcsSound, Kept
<1>1. ASSUME NEW t, Become(p, t), Off(t), UNCHANGED journal PROVE Forward'
  BY <1>1, LookingForward
\* The process goes on with the record it holds.
<1>2. ASSUME NEW t, Become(p, t), UNCHANGED journal, s.pc \in Holding,
             t.op = s.op, t.held = s.held, t.pc # "reconcile",
             t.pc \in Owner => s.pc \in Owner,
             t.pc = "pin" => t.moved.endpoint # t.held.endpoint
      PROVE  Forward'
  BY <1>2, LookingForward
<1>3. CASE RecoverNext(p)
  <2>1. \A o : Off([s EXCEPT !.pc = "load", !.op = o])
    BY <1>0 DEF Process, Holding
  <2> QED BY <1>1, <1>3, <2>1 DEF RecoverNext
<1>4. CASE RecoverPendingEnds(p)
  <2>1. /\ \A b : Off([Rest(s) EXCEPT !.swept = b])
        /\ Off([Rest(s) EXCEPT !.pc = "pendings", !.task = "pendings"])
    BY DEF Rest, Holding
  <2>2. \E u : Off(u) /\ Become(p, u) /\ UNCHANGED journal
    BY <1>0, <1>4, <2>1 DEF RecoverPendingEnds
  <2> QED BY <1>1, <2>2
<1>5. CASE LoadOperation(p)
  <2>1. UNCHANGED journal
    BY <1>5 DEF LoadOperation
  <2>2. ASSUME NEW pc \in {"delete", "cancel", "closing", "gate"},
               Become(p, [s EXCEPT !.pc = pc, !.held = journal[s.op]]), journal[s.op] # Absent
        PROVE  Forward'
    <3> DEFINE t == [s EXCEPT !.pc = pc, !.held = journal[s.op]]
    <3>1. t.pc = pc /\ t.op = s.op /\ t.held = journal[s.op] /\ Become(p, t)
      BY <1>0, <2>2 DEF Process
    <3> HIDE DEF t
    <3> QED BY <2>1, <2>2, <3>1, LookingForward DEF Owner
  <2>3. CASE Become(p, Succeed(s)) \/ Become(p, Fail(s))
    BY <1>0, <1>1, <2>1, <2>3
  <2>4. journal[s.op].status \in Status => journal[s.op] # Absent
    BY DEF Absent, Status
  <2>5. Terminal \union {"PREPARED", "MAPPED", "DISPATCHING", "CLOSING"} \subseteq Status
    BY DEF Terminal, Status
  <2> QED BY <1>5, <2>2, <2>3, <2>4, <2>5 DEF LoadOperation
<1>6. CASE AwaitDeadline(p)
  <2>1. CASE Become(p, Fail(s))
    BY <1>0, <1>1, <1>6, <2>1 DEF AwaitDeadline
  <2>2. CASE Become(p, [s EXCEPT !.pc = "attempt"])
    <3> DEFINE t == [s EXCEPT !.pc = "attempt"]
    <3>1. t.pc = "attempt" /\ t.op = s.op /\ t.held = s.held /\ s.pc \in Holding
      BY <1>0, <1>6 DEF Process, AwaitDeadline, Holding
    <3>2. Become(p, t) /\ UNCHANGED journal
      BY <1>6, <2>2 DEF AwaitDeadline
    <3> HIDE DEF t
    <3> QED BY <1>2, <3>1, <3>2 DEF Owner
  <2> QED BY <1>6, <2>1, <2>2 DEF AwaitDeadline
<1>7. CASE ReconcileConflict(p)
  <2>1. \E u : Off(u) /\ Become(p, u) /\ UNCHANGED journal
    BY <1>0, <1>7, ZenonT(30) DEF ReconcileConflict
  <2> QED BY <1>1, <2>1
<1>8. CASE ExchangePinned(p)
  <2>0. s.pc \in Holding /\ s.pc \in Owner /\ UNCHANGED journal
    BY <1>8 DEF ExchangePinned, Holding, Owner
  <2>1. CASE Become(p, Fail(s)) \/ Become(p, Reload(s)) \/ Become(p, Refuse(s))
    BY <1>0, <1>1, <2>0, <2>1
  <2>2. ASSUME NEW pc \in {"silent", "unexpected", "finish"}, NEW r, NEW m,
               \/ Become(p, [s EXCEPT !.pc = pc, !.reply = r])
               \/ Become(p, [s EXCEPT !.pc = pc, !.reply = r, !.moved = m])
        PROVE  Forward'
    <3>1. PICK t : /\ Become(p, t) /\ t.pc = pc /\ t.op = s.op /\ t.held = s.held
      <4> DEFINE u == [s EXCEPT !.pc = pc, !.reply = r]
                 v == [s EXCEPT !.pc = pc, !.reply = r, !.moved = m]
      <4>1. u.pc = pc /\ u.op = s.op /\ u.held = s.held /\ v.pc = pc /\ v.op = s.op /\ v.held = s.held
        BY <1>0 DEF Process
      <4>2. Become(p, u) \/ Become(p, v)
        BY <2>2, Zenon
      <4> HIDE DEF u, v
      <4> QED BY <4>1, <4>2
    <3> QED BY <1>2, <2>0, <3>1
  <2>3. ASSUME NEW r, Become(p, Answered(s, r)) PROVE Forward'
    BY <2>1, <2>2, <2>3, ZenonT(60) DEF Answered
  <2> QED BY <1>8, <2>1, <2>2, <2>3 DEF ExchangePinned
<1>9. CASE ExchangeRefenced(p)
  <2>0. s.pc \in Holding /\ s.pc \in Owner /\ UNCHANGED journal /\ s.held \in Record
    BY <1>9, WhatIsHeld DEF ExchangeRefenced, Holding, Owner
  <2>1. CASE Become(p, Fail(s))
    BY <1>0, <1>1, <2>0, <2>1
  <2>2. CASE Become(p, [s EXCEPT !.pc = "count", !.reply = "none"])
    <3> DEFINE t == [s EXCEPT !.pc = "count", !.reply = "none"]
    <3>1. t.pc = "count" /\ t.op = s.op /\ t.held = s.held
      BY <1>0 DEF Process
    <3>2. Become(p, t)
      BY <2>2
    <3> HIDE DEF t
    <3> QED BY <1>2, <2>0, <3>1, <3>2 DEF Owner
  <2>3. ASSUME CanRefence(s), NEW r,
               Become(p, [s EXCEPT !.pc = "pin", !.reply = r,
                                   !.moved = [s.held EXCEPT !.endpoint = assigned]])
        PROVE  Forward'
    <3> DEFINE m == [s.held EXCEPT !.endpoint = assigned]
               t == [s EXCEPT !.pc = "pin", !.reply = r, !.moved = m]
    <3>1. m.endpoint # s.held.endpoint
      BY <2>0, <2>3 DEF CanRefence, Record
    <3>2. t.pc = "pin" /\ t.op = s.op /\ t.held = s.held /\ t.moved = m
      <4> HIDE DEF m
      <4> QED BY <1>0 DEF Process
    <3>3. Become(p, t)
      BY <2>3
    <3> HIDE DEF t, m
    <3> QED BY <1>2, <2>0, <3>1, <3>2, <3>3
  <2> QED BY <1>9, <2>1, <2>2, <2>3, ZenonT(60) DEF ExchangeRefenced
<1> QED BY <1>3, <1>4, <1>5, <1>6, <1>7, <1>8, <1>9

\* The writes of a recovery: each moves the status or a counter of the record
\* it replaces, or pins another endpoint under the number it owns.
LEMMA WritingOnForward ==
  ASSUME Sanity, Sanity', Kept, Forward, NEW p \in Procs,
         \/ CancelPrepared(p) \/ CloseMapped(p) \/ DeleteTerminal(p)
         \/ CountAttempt(p) \/ PinEndpoint(p) \/ MapUnexpected(p)
         \/ CountNoReply(p) \/ FinishOperation(p)
  PROVE  Forward'
<1> DEFINE s == proc[p]
           Off(t) == t.pc \notin Holding
<1> USE DEF At
<1>0. /\ s \in Process /\ Sound(s) /\ Keeps(s) /\ s.pc \in Holding /\ s.held \in Record
      /\ Off(Fail(s)) /\ Off(Refuse(s)) /\ Off(Succeed(s)) /\ Off(Reload(s))
      /\ Reconcile(s).pc = "reconcile" /\ Reconcile(s).op = s.op /\ Reconcile(s).held = s.held
  <2>1. s.pc \in Holding
    BY DEF CancelPrepared, CloseMapped, MoveTo, DeleteTerminal, CountAttempt, PinEndpoint,
           MapUnexpected, CountNoReply, FinishOperation, Holding
  <2> QED BY <2>1, WhatIsHeld, EndingsHoldNothing DEF Sanity, ProcsSound, Kept
\* A write that keeps the endpoint and moves something else.
<1>1. ASSUME NEW next, NEW done, NEW lost \in {Reconcile(s), Refuse(s)},
             Write(p, next, done, lost, Fail(s)),
             next.endpoint = s.held.endpoint,
             \/ next.status # s.held.status
             \/ next.attempt # s.held.attempt
             \/ next.noReply # s.held.noReply,
             \/ Off(done)
             \/ /\ next # Absent /\ done.op = s.op /\ done.held = next
                /\ \/ done.pc \notin Owner \union {"reconcile"}
                   \/ done.pc = "exchange" /\ next.attempt > s.held.attempt
      PROVE  Forward'
  BY <1>0, <1>1, WritingForward
<1>2. ASSUME NEW from, NEW pc \in {"delete", "gate"}, NEW st \in Status, st # s.held.status,
             MoveTo(p, from, st, pc)
      PROVE  Forward'
  <2> DEFINE next == [s.held EXCEPT !.status = st]
             done == [s EXCEPT !.pc = pc, !.held = next]
  <2>1. next.status # s.held.status /\ next.endpoint = s.held.endpoint /\ next # Absent
    BY <1>0, <1>2, AbsentIsNoRecord DEF Record
  <2>2. done.pc = pc /\ done.op = s.op /\ done.held = next
    <3> HIDE DEF next
    <3> QED BY <1>0 DEF Process
  <2>3. Write(p, next, done, Reconcile(s), Fail(s))
    BY <1>2 DEF MoveTo
  <2> HIDE DEF next, done
  <2> QED BY <1>1, <2>1, <2>2, <2>3 DEF Owner
<1>3. CASE CancelPrepared(p)
  <2>1. s.held.status = "PREPARED"
    BY <1>0, <1>3 DEF CancelPrepared, MoveTo, Keeps
  <2> QED BY <1>2, <1>3, <2>1 DEF CancelPrepared, Status
<1>4. CASE CloseMapped(p)
  <2>1. s.held.status = "MAPPED"
    BY <1>0, <1>4 DEF CloseMapped, MoveTo, Keeps
  <2> QED BY <1>2, <1>4, <2>1 DEF CloseMapped, Status
<1>5. CASE DeleteTerminal(p)
  <2>1. Write(p, Absent, Succeed(s), Reconcile(s), Fail(s))
    BY <1>5 DEF DeleteTerminal
  <2> QED BY <1>0, <2>1, WritingForward
<1>6. CASE CountAttempt(p)
  <2> DEFINE n == s.held.attempt + 1
             next == [s.held EXCEPT !.attempt = n, !.notBefore = Later(s.held, RecoveryBackoff[n])]
             done == [s EXCEPT !.pc = "exchange", !.held = next]
  <2>1. CASE Become(p, Fail(s)) /\ UNCHANGED journal
    BY <1>0, <2>1, LookingForward
  <2>2. CASE Write(p, next, done, Reconcile(s), Fail(s))
    <3>1. next.attempt > s.held.attempt /\ next.attempt # s.held.attempt
          /\ next.endpoint = s.held.endpoint
      BY <1>0 DEF Record
    <3>2. next # Absent
      <4>1. "endpoint" \in DOMAIN next /\ "endpoint" \notin DOMAIN Absent
        BY <1>0 DEF Record, Absent
      <4> QED BY <4>1
    <3>3. done.pc = "exchange" /\ done.op = s.op /\ done.held = next
      <4> HIDE DEF next
      <4> QED BY <1>0 DEF Process
    <3> HIDE DEF next, done
    <3> QED BY <1>1, <2>2, <3>1, <3>2, <3>3
  <2> QED BY <1>6, <2>1, <2>2 DEF CountAttempt
<1>7. CASE PinEndpoint(p)
  <2> DEFINE t == [s EXCEPT !.held = s.moved]
             lost == IF s.reply = "admitted" THEN Refuse(s) ELSE Reconcile(s)
  <2>1. s.pc = "pin" /\ s.moved \in Record /\ s.moved # Absent
    BY <1>0, <1>7, AbsentIsNoRecord DEF PinEndpoint, Sound, Sane
  <2>2. t \in Process /\ t.op = s.op /\ t.held = s.moved
    BY <1>0, <2>1 DEF Process
  <2>3. Write(p, s.moved, Answered(t, s.reply), lost, Fail(s))
    BY <1>7 DEF PinEndpoint
  <2>4. lost \in {Refuse(s), Reconcile(s)}
    OBVIOUS
  <2> HIDE DEF t, lost
  <2>5. \/ Off(Answered(t, s.reply))
        \/ /\ Answered(t, s.reply).op = s.op /\ Answered(t, s.reply).held = s.moved
           /\ Answered(t, s.reply).pc \in {"finish", "unexpected"}
    <3>1. Off(Reload(t)) /\ Off(Fail(t)) /\ Off(Refuse(t))
      BY <2>2, EndingsHoldNothing
    <3>2. ASSUME NEW pc, NEW r, NEW m
          PROVE  LET u == [t EXCEPT !.pc = pc, !.reply = r, !.moved = m]
                 IN  u.pc = pc /\ u.op = t.op /\ u.held = t.held
      BY <2>2 DEF Process
    <3> QED BY <2>2, <3>1, <3>2 DEF Answered
  <2>6. {"finish", "unexpected"} \cap (Owner \union {"reconcile"}) = {}
    BY DEF Owner
  <2> QED BY <1>0, <2>1, <2>3, <2>4, <2>5, <2>6, WritingForward
<1>8. CASE MapUnexpected(p)
  <2> DEFINE next == [s.held EXCEPT !.status = "MAPPED", !.admission = TRUE]
  <2>1. CASE Become(p, Refuse(s)) /\ UNCHANGED journal
    BY <1>0, <2>1, LookingForward
  <2>2. CASE s.held.status = "DISPATCHING" /\ Write(p, next, Reload(s), Refuse(s), Fail(s))
    <3>1. next.status # s.held.status /\ next.endpoint = s.held.endpoint
      BY <1>0, <2>2 DEF Record
    <3> HIDE DEF next
    <3> QED BY <1>0, <1>1, <2>2, <3>1
  <2> QED BY <1>8, <2>1, <2>2 DEF MapUnexpected
<1>9. CASE CountNoReply(p)
  <2> DEFINE n == s.held.noReply + 1
             next == [s.held EXCEPT !.noReply = n, !.notBefore = Later(s.held, NoReplyBackoff[n])]
             giveUp == [s EXCEPT !.pc = "finish", !.held = next, !.reply = "silent"]
             done == IF n < AbandonAttempts THEN Fail(s) ELSE giveUp
  <2>1. CASE Become(p, Fail(s)) /\ UNCHANGED journal
    BY <1>0, <2>1, LookingForward
  <2>2. CASE Write(p, next, done, Reconcile(s), Fail(s))
    <3>1. next.noReply # s.held.noReply /\ next.endpoint = s.held.endpoint
      BY <1>0 DEF Record
    <3>2. next # Absent
      <4>1. "endpoint" \in DOMAIN next /\ "endpoint" \notin DOMAIN Absent
        BY <1>0 DEF Record, Absent
      <4> QED BY <4>1
    <3>3. giveUp.pc = "finish" /\ giveUp.op = s.op /\ giveUp.held = next
      <4> HIDE DEF next
      <4> QED BY <1>0 DEF Process
    <3>4. "finish" \notin Owner \union {"reconcile"}
      BY DEF Owner
    <3> HIDE DEF next, giveUp, n
    <3>5. \/ Off(done)
          \/ done.op = s.op /\ done.held = next /\ done.pc \notin Owner \union {"reconcile"}
      BY <1>0, <3>3, <3>4
    <3> HIDE DEF done
    <3> QED BY <1>1, <2>2, <3>1, <3>2, <3>5
  <2> QED BY <1>9, <2>1, <2>2 DEF CountNoReply
<1>10. CASE FinishOperation(p)
  <2> DEFINE next == [s.held EXCEPT !.status = IF s.held.admission THEN "CLOSED" ELSE "CANCELED"]
             done == [s EXCEPT !.pc = "delete", !.held = next, !.reply = "none"]
  <2>1. s.held.status \in Custodied
    BY <1>0, <1>10 DEF FinishOperation, Keeps, Acting
  <2>2. next.status # s.held.status /\ next.endpoint = s.held.endpoint
    BY <1>0, <2>1 DEF Record, Custodied
  <2>3. next # Absent
    <3>1. "endpoint" \in DOMAIN next /\ "endpoint" \notin DOMAIN Absent
      BY <1>0 DEF Record, Absent
    <3> QED BY <3>1
  <2>4. done.pc = "delete" /\ done.op = s.op /\ done.held = next
    <3> HIDE DEF next
    <3> QED BY <1>0 DEF Process
  <2>5. Write(p, next, done, Reconcile(s), Fail(s))
    BY <1>10 DEF FinishOperation
  <2> HIDE DEF next, done
  <2> QED BY <1>1, <2>2, <2>3, <2>4, <2>5 DEF Owner
<1> QED BY <1>3, <1>4, <1>5, <1>6, <1>7, <1>8, <1>9, <1>10

\* No step takes a recovery out of what the journal can have become.
LEMMA StepForward == Sanity /\ Sanity' /\ Kept /\ Forward /\ [Next]_vars => Forward'
<1> SUFFICES ASSUME Sanity, Sanity', Kept, Forward, [Next]_vars PROVE Forward'
  OBVIOUS
<1>1. ASSUME UNCHANGED <<journal, proc>> PROVE Forward'
  BY <1>1 DEF Forward, Follows, Owns
<1>2. CASE UNCHANGED vars
  BY <1>1, <1>2 DEF vars, durable
<1>3. CASE Environment
  BY <1>1, <1>3 DEF Environment, KnockArrives, RollEndpoint, RenewAssignment, DeleteResource, Tick, Settle,
                    CorrectClock, durable
<1>4. CASE Next
  BY <1>3, <1>4, AdmittingForward, LookingOnForward, WritingOnForward DEF Next, Recovering
<1> QED BY <1>2, <1>4

\* Whatever competitors made of the record a recovery holds, it is progress.
LEMMA ForwardHolds == Spec => []Forward
<1>1. Init => Forward
  <2>1. \A p \in Procs : Init => proc[p].pc = "idle"
    BY DEF Init, Fresh
  <2>2. "idle" \notin Holding /\ "idle" \notin Owner
    BY DEF Holding, Owner
  <2> QED BY <2>1, <2>2 DEF Forward, Follows, Owns
<1>2. Sanity /\ Sanity' /\ Kept /\ Forward /\ [Next]_vars => Forward'
  BY StepForward
<1> QED BY <1>1, <1>2, KeptHolds, SanityHolds, PTL DEF Spec

\* A recovery that lost an optimistic write never mistakes a competitor's
\* legitimate progress for corruption, except the PREPARED record it had
\* chosen to cancel (reconcileRecoveryConflict): what it finds there is gone or
\* is a monotonic advance over what it held.
THEOREM ProgressIsAccepted == Spec => []ReconcileAcceptsProgress
<1>1. Forward => ReconcileAcceptsProgress
  BY DEF Forward, Follows, ReconcileAcceptsProgress, Holding
<1> QED BY <1>1, ForwardHolds, PTL

--------------------------------------------------------------------------------
(***************************************************************************)
(* The persisted deadline.  A process that is about to count an attempt    *)
(* waited for the record it holds; the journal may hold a later one of a   *)
(* competitor, but then the compare-and-swap fails.  What has to be shown  *)
(* is that the wait is never cut short: it is, at RecoveryMaxDelay, unless *)
(* the deadline is an escalated one, which defers the call instead.  So a  *)
(* deadline must be known never to lie further ahead than the backoff that *)
(* set it, which needs that one attempt's deadline has passed before the   *)
(* next is computed from it.                                               *)
(***************************************************************************)
Due(c, r) ==
  c < MaxClock => r.notBefore <= c + IF r.noReply = 0 THEN RecoveryMaxDelay ELSE NoReplyMaxDelay

Near(c, r) == c < MaxClock => r.notBefore <= c + RecoveryMaxDelay

Ripe(c, r) == c >= r.notBefore \/ c = MaxClock

Punctual(c, s) ==
  /\ s.pc \in Holding => Due(c, s.held)
  /\ s.pc \in Owner \union {"count"} => Near(c, s.held)
  /\ s.pc = "attempt" => Ripe(c, s.held)

Deadlines ==
  /\ clock <= MaxClock
  /\ \A o \in Ops : journal[o] # Absent => Due(clock, journal[o])
  /\ \A p \in Procs : Punctual(clock, proc[p])

\* No step counts an attempt over a record whose deadline has not come.
Awaited ==
  \A o \in Ops :
    journal[o] # Absent /\ journal'[o] # Absent /\ journal'[o].attempt > journal[o].attempt
      => Ripe(clock, journal[o])

\* The delays of session_operation.go: every backoff is at least one unit and at
\* most its cap, and the cap of the escalated one is the larger.
LEMMA Delays ==
  /\ RecoveryMaxDelay \in Nat /\ NoReplyMaxDelay \in Nat /\ MaxClock \in Nat /\ MaxAttempts \in Nat
  /\ RecoveryMaxDelay < NoReplyMaxDelay
  /\ \A n \in 1..MaxAttempts : RecoveryBackoff[n] \in 1..RecoveryMaxDelay
  /\ \A n \in 1..MaxAttempts : NoReplyBackoff[n] \in 1..NoReplyMaxDelay
BY OperationsAssumption

\* While the clock is not corrected, a deadline only comes nearer.
LEMMA DeadlinesComeNearer ==
  ASSUME NEW c \in Nat, NEW d \in Nat, c <= d, d <= MaxClock, NEW r \in Record
  PROVE  /\ Due(c, r) => Due(d, r)
         /\ Near(c, r) => Near(d, r)
         /\ Ripe(c, r) => Ripe(d, r)
BY Delays DEF Due, Near, Ripe, Record

\* What the processes know of their deadlines survives the passing of time.
LEMMA TimePasses ==
  ASSUME Sanity, Kept, Deadlines, NEW d \in Nat, clock <= d, d <= MaxClock
  PROVE  /\ \A o \in Ops : journal[o] # Absent => Due(d, journal[o])
         /\ \A p \in Procs : Punctual(d, proc[p])
<1>1. clock \in Nat
  BY DEF Sanity, RestTyped
<1>2. ASSUME NEW o \in Ops, journal[o] # Absent PROVE Due(d, journal[o])
  <2>1. journal[o] \in Record /\ Due(clock, journal[o])
    BY <1>2 DEF Deadlines, Sanity, JournalSane, Sane
  <2> QED BY <1>1, <2>1, DeadlinesComeNearer
<1>3. ASSUME NEW p \in Procs PROVE Punctual(d, proc[p])
  <2>1. Punctual(clock, proc[p])
    BY DEF Deadlines
  <2>2. Owner \union {"count", "attempt"} \subseteq Holding
    BY DEF Owner, Holding
  <2>3. CASE proc[p].pc \in Holding
    <3>1. proc[p].held \in Record
      BY <2>3, WhatIsHeld
    <3>2. /\ Due(clock, proc[p].held) => Due(d, proc[p].held)
          /\ Near(clock, proc[p].held) => Near(d, proc[p].held)
          /\ Ripe(clock, proc[p].held) => Ripe(d, proc[p].held)
      BY <1>1, <3>1, DeadlinesComeNearer
    <3> QED BY <2>1, <3>2 DEF Punctual
  <2>4. CASE proc[p].pc \notin Holding
    BY <2>2, <2>4 DEF Punctual
  <2> QED BY <2>3, <2>4
<1> QED BY <1>2, <1>3

\* A step that writes nothing.
LEMMA LookingDue ==
  ASSUME Sanity, Kept, Deadlines, NEW p \in Procs, NEW t, Become(p, t), UNCHANGED journal,
         NEW d \in Nat, clock' = d, clock <= d, d <= MaxClock, Punctual(d, t)
  PROVE  Deadlines' /\ Awaited
<1>1. proc'[p] = t /\ \A q \in Procs : q # p => proc'[q] = proc[q]
  BY DEF Become, Sanity, ProcsSound
<1>2. /\ \A o \in Ops : journal[o] # Absent => Due(d, journal[o])
      /\ \A q \in Procs : Punctual(d, proc[q])
  BY TimePasses
<1>3. \A q \in Procs : Punctual(d, proc'[q])
  BY <1>1, <1>2
<1>4. Deadlines'
  BY <1>2, <1>3 DEF Deadlines
<1>5. Awaited
  <2>1. ASSUME NEW o \in Ops, journal[o] # Absent PROVE ~(journal[o].attempt > journal[o].attempt)
    BY <2>1 DEF Sanity, JournalSane, Sane, Record
  <2> QED BY <2>1 DEF Awaited
<1> QED BY <1>4, <1>5

\* A locked write: the record it leaves is due, and it counts an attempt only
\* over a record that is ripe.
LEMMA WritingDue ==
  ASSUME Sanity, Sanity', Kept, Deadlines, NEW p \in Procs, proc[p].pc \in Holding,
         NEW next, NEW done, NEW lost, NEW err, Write(p, next, done, lost, err),
         UNCHANGED clock,
         Legal(proc[p].held, next) /\ next # Absent =>
           /\ Due(clock, next)
           /\ next.attempt = proc[p].held.attempt \/ Ripe(clock, proc[p].held),
         Legal(proc[p].held, next) => Punctual(clock, done),
         Punctual(clock, lost), Punctual(clock, err)
  PROVE  Deadlines' /\ Awaited
<1>0. PICK o \in Ops, prev \in Record : o = proc[p].op /\ prev = proc[p].held
  BY WhatIsHeld
<1>1. PICK c \in Nat : c = clock /\ c <= c /\ c <= MaxClock /\ clock' = c
  BY DEF Sanity, RestTyped, Deadlines
<1>2. CASE UNCHANGED journal /\ (Become(p, err) \/ Become(p, lost))
  <2>1. PICK t : Become(p, t) /\ Punctual(c, t)
    BY <1>1, <1>2
  <2> QED BY <1>1, <1>2, <2>1, LookingDue
<1>3. CASE /\ Legal(prev, next) /\ journal[o] = prev
           /\ journal' = [journal EXCEPT ![o] = next]
           /\ Become(p, done) \/ Become(p, err)
  <2>1. journal'[o] = next /\ \A x \in Ops : x # o => journal'[x] = journal[x]
    BY <1>3 DEF Sanity, JournalSane
  <2>2. (\A q \in Procs : q # p => proc'[q] = proc[q]) /\ proc'[p] \in {done, err}
    BY <1>3 DEF Become, Sanity, ProcsSound
  <2>3. \A x \in Ops : journal'[x] # Absent => Due(c, journal'[x])
    BY <1>0, <1>1, <1>3, <2>1 DEF Deadlines
  <2>4. \A q \in Procs : Punctual(c, proc'[q])
    BY <1>0, <1>1, <1>3, <2>2 DEF Deadlines
  <2>5. Deadlines'
    BY <1>1, <2>3, <2>4 DEF Deadlines
  <2>6. ASSUME NEW x \in Ops, journal[x] # Absent, journal'[x] # Absent,
               journal'[x].attempt > journal[x].attempt
        PROVE  Ripe(clock, journal[x])
    <3>1. journal[x].attempt \in Nat
      BY <2>6 DEF Sanity, JournalSane, Sane, Record
    <3>2. x = o /\ journal'[x] = next /\ journal[x] = prev /\ next.attempt # prev.attempt
      BY <1>3, <2>1, <2>6, <3>1
    <3> QED BY <1>0, <1>3, <2>6, <3>2
  <2> QED BY <2>5, <2>6 DEF Awaited
<1> QED BY <1>0, <1>2, <1>3 DEF Write

\* A process that holds no record waits for none; one that reconciles keeps the
\* deadline of the record it lost.
LEMMA EndingsArePunctual ==
  ASSUME NEW s \in Process, NEW c
  PROVE  /\ \A t : t.pc \notin Holding => Punctual(c, t)
         /\ Punctual(c, Rest(s)) /\ Punctual(c, Fail(s)) /\ Punctual(c, Refuse(s))
         /\ Punctual(c, Succeed(s)) /\ Punctual(c, Cleanup(s)) /\ Punctual(c, Reload(s))
         /\ Due(c, s.held) => Punctual(c, Reconcile(s))
<1>1. Owner \union {"count", "attempt"} \subseteq Holding \ {"reconcile"}
  BY DEF Owner, Holding
<1>2. \A t : t.pc \notin Holding => Punctual(c, t)
  BY <1>1 DEF Punctual
<1>3. Due(c, s.held) => Punctual(c, Reconcile(s))
  BY <1>1, EndingsHoldNothing DEF Punctual
<1> HIDE DEF Punctual
<1> QED BY <1>2, <1>3, EndingsHoldNothing

\* Admissions and retirements write fresh deadlines or none.
LEMMA AdmittingDue ==
  ASSUME Sanity, Sanity', Kept, Deadlines, NEW p \in Procs,
         Admitting(p) \/ RecoverPending(p, "orphans") \/ Retiring(p) \/ Crash(p)
  PROVE  Deadlines' /\ Awaited
<1> DEFINE s == proc[p]
           Off(t) == t.pc \notin Holding
<1> USE DEF At, durable, host, network, history
<1>c. PICK c \in Nat : c = clock /\ c <= c /\ c <= MaxClock
  BY DEF Sanity, RestTyped, Deadlines
<1>0. /\ s \in Process /\ Sound(s) /\ Keeps(s) /\ Punctual(c, s)
      /\ Off(Rest(s)) /\ Off(Fail(s)) /\ Off(Refuse(s)) /\ Off(Succeed(s)) /\ Off(Cleanup(s))
  BY <1>c, EndingsHoldNothing DEF Sanity, ProcsSound, Kept, Deadlines
<1>1. ASSUME NEW t, Become(p, t), Off(t), UNCHANGED <<journal, clock>> PROVE Deadlines' /\ Awaited
  <2>1. Punctual(c, t)
    BY <1>0, <1>1, EndingsArePunctual
  <2>2. clock' = c
    BY <1>c, <1>1
  <2> QED BY <1>c, <1>1, <2>1, <2>2, LookingDue
<1>2. ASSUME NEW task \in {"orphans", "admit"}, RecoverPending(p, task) PROVE Deadlines' /\ Awaited
  <2>1. \A todo : Off([s EXCEPT !.pc = "sweep", !.task = task, !.todo = todo])
    BY <1>0 DEF Process, Holding
  <2> QED BY <1>1, <1>2, <2>1 DEF RecoverPending
<1>3. CASE CreateOperation(p)
  <2>0. UNCHANGED clock
    BY <1>3 DEF CreateOperation
  <2>1. CASE Become(p, Fail(s)) /\ UNCHANGED durable
    BY <1>0, <1>1, <2>0, <2>1
  <2>2. ASSUME NEW o \in Ops \ issued, NEW r, Due(c, r),
               journal' = [journal EXCEPT ![o] = r],
               \/ Become(p, [s EXCEPT !.pc = "dispatch", !.op = o, !.held = r])
               \/ Become(p, Fail(s))
        PROVE  Deadlines' /\ Awaited
    <3>1. journal'[o] = r /\ \A x \in Ops : x # o => journal'[x] = journal[x]
      BY <2>2 DEF Sanity, JournalSane
    <3>2. \A q \in Procs : q # p => proc'[q] = proc[q]
      BY <2>2 DEF Become, Sanity, ProcsSound
    <3>3. journal[o] = Absent
      BY <2>2 DEF Kept, World, Answerable
    <3>4. Punctual(c, proc'[p])
      <4>1. CASE proc'[p] = Fail(s)
        BY <1>0, <4>1, EndingsArePunctual
      <4>2. CASE proc'[p] = [s EXCEPT !.pc = "dispatch", !.op = o, !.held = r]
        <5>1. proc'[p].pc = "dispatch" /\ proc'[p].held = r
          BY <1>0, <4>2 DEF Process
        <5> QED BY <2>2, <5>1 DEF Punctual, Owner
      <4> QED BY <2>2, <4>1, <4>2 DEF Become, Sanity, ProcsSound
    <3>5. \A q \in Procs : Punctual(c, proc'[q])
      BY <1>c, <3>2, <3>4 DEF Deadlines
    <3>6. \A x \in Ops : journal'[x] # Absent => Due(c, journal'[x])
      BY <1>c, <2>2, <3>1 DEF Deadlines
    <3>7. Deadlines'
      BY <1>c, <2>0, <3>5, <3>6 DEF Deadlines
    <3>8. ASSUME NEW x \in Ops, journal[x] # Absent PROVE ~(journal'[x].attempt > journal[x].attempt)
      <4>1. journal[x].attempt \in Nat
        BY <3>8 DEF Sanity, JournalSane, Sane, Record
      <4> QED BY <3>1, <3>3, <3>8, <4>1
    <3> QED BY <3>7, <3>8 DEF Awaited
  <2> DEFINE record == NewRecord(assigned, clock + Lifetime)
  <2>3. Due(c, record)
    <3>1. record.notBefore = 0
      BY DEF NewRecord
    <3> QED BY <3>1, <1>c, Delays DEF Due
  <2> HIDE DEF record
  <2> QED BY <1>3, <2>1, <2>2, <2>3 DEF CreateOperation, record
<1>w. ASSUME NEW next, NEW done, NEW lost, Write(p, next, done, lost, lost), s.pc \in Holding,
             UNCHANGED clock, Off(done), Off(lost),
             next.attempt = s.held.attempt, next.notBefore = s.held.notBefore,
             next.noReply = s.held.noReply
      PROVE  Deadlines' /\ Awaited
  <2>1. Due(c, next)
    BY <1>0, <1>w DEF Punctual, Due
  <2>2. Punctual(c, done) /\ Punctual(c, lost)
    BY <1>0, <1>w, EndingsArePunctual
  <2> HIDE DEF Punctual, Due
  <2> QED BY <1>c, <1>w, <2>1, <2>2, WritingDue
<1>4. CASE PersistDispatching(p)
  <2> DEFINE next == [s.held EXCEPT !.status = "DISPATCHING"]
             done == [s EXCEPT !.pc = "knock", !.held = Absent]
  <2>1. s.pc \in Holding /\ s.held \in Record
    BY <1>4, WhatIsHeld DEF PersistDispatching, Holding
  <2>2. /\ next.attempt = s.held.attempt /\ next.notBefore = s.held.notBefore
        /\ next.noReply = s.held.noReply
    BY <2>1 DEF Record
  <2>3. Off(done)
    BY <1>0 DEF Process, Holding
  <2>4. Write(p, next, done, Fail(s), Fail(s)) /\ UNCHANGED clock
    BY <1>4 DEF PersistDispatching
  <2> HIDE DEF next, done
  <2> QED BY <1>0, <1>w, <2>1, <2>2, <2>3, <2>4
<1>5. CASE SendKnock(p) \/ KnockReturns(p)
  <2>1. Off([s EXCEPT !.pc = "knocking"]) /\ Off([s EXCEPT !.pc = "mapLoad"])
    BY <1>0 DEF Process, Holding
  <2> QED BY <1>0, <1>1, <1>5, <2>1 DEF SendKnock, KnockReturns
<1>6. CASE RecordMapped(p)
  <2>1. CASE s.pc = "mapLoad"
    <3>1. CASE Become(p, Cleanup(s))
      BY <1>0, <1>1, <1>6, <2>1, <3>1 DEF RecordMapped
    <3>2. CASE /\ journal[s.op].status = "DISPATCHING"
               /\ Become(p, [s EXCEPT !.pc = "mapWrite", !.held = journal[s.op]])
      <4> DEFINE t == [s EXCEPT !.pc = "mapWrite", !.held = journal[s.op]]
      <4>1. t.pc = "mapWrite" /\ t.held = journal[s.op]
        BY <1>0 DEF Process
      <4>2. journal[s.op] # Absent /\ UNCHANGED <<journal, clock>> /\ s.op \in Ops
        BY <1>0, <1>6, <2>1, <3>2 DEF Absent, RecordMapped, Sound, Resting
      <4>3. Due(c, journal[s.op])
        BY <1>c, <4>2 DEF Deadlines
      <4>4. Punctual(c, t)
        BY <4>1, <4>3 DEF Punctual, Owner
      <4>5. Become(p, t) /\ clock' = c
        BY <1>c, <3>2, <4>2
      <4> HIDE DEF t
      <4> QED BY <1>c, <4>2, <4>4, <4>5, LookingDue
    <3> QED BY <1>6, <2>1, <3>1, <3>2 DEF RecordMapped
  <2>2. CASE s.pc = "mapWrite"
    <3> DEFINE next == [s.held EXCEPT !.status = "MAPPED", !.admission = TRUE]
               done == [s EXCEPT !.pc = "track", !.held = Absent]
    <3>1. s.pc \in Holding /\ s.held \in Record
      BY <2>2, WhatIsHeld DEF Holding
    <3>2. /\ next.attempt = s.held.attempt /\ next.notBefore = s.held.notBefore
          /\ next.noReply = s.held.noReply
      BY <3>1 DEF Record
    <3>3. Off(done)
      BY <1>0 DEF Process, Holding
    <3>4. Write(p, next, done, Cleanup(s), Cleanup(s)) /\ UNCHANGED clock
      BY <1>6, <2>2 DEF RecordMapped
    <3> HIDE DEF next, done
    <3> QED BY <1>0, <1>w, <3>1, <3>2, <3>3, <3>4
  <2> QED BY <1>6, <2>1, <2>2 DEF RecordMapped
<1>7. CASE TrackAdmission(p)
  <2> DEFINE t == [s EXCEPT !.live = @ \union {s.op}]
  <2>1. Off(Rest(t))
    BY DEF Rest, Holding
  <2>2. \A x : Off([t EXCEPT !.pc = "retire", !.task = "retire", !.pending = x])
    BY <1>0 DEF Process, Holding
  <2>3. /\ \/ Become(p, Rest(t)) \/ Become(p, Cleanup(s))
           \/ \E x : Become(p, [t EXCEPT !.pc = "retire", !.task = "retire", !.pending = x])
        /\ UNCHANGED <<journal, clock>>
    BY <1>7 DEF TrackAdmission
  <2> HIDE DEF t
  <2>4. \E u : Off(u) /\ Become(p, u) /\ UNCHANGED <<journal, clock>>
    BY <1>0, <2>1, <2>2, <2>3
  <2> QED BY <1>1, <2>4
<1>8. CASE Retiring(p)
  <2>1. /\ \A o, x : Off([s EXCEPT !.pc = "retire", !.task = "retire", !.op = o, !.pending = x])
        /\ Off([s EXCEPT !.pc = "pendings", !.task = "queue"])
        /\ \A o : Off([s EXCEPT !.pc = "retire", !.op = o])
        /\ Off([s EXCEPT !.pc = "prepare", !.task = "knock"])
        /\ Off([s EXCEPT !.pc = "load"])
    BY <1>0 DEF Process, Holding
  <2>2. Off([Rest(s) EXCEPT !.queued = FALSE])
    BY DEF Rest, Holding
  <2>3. CASE RetireAdmission(p) \/ RecoverQueued(p)
    BY <1>1, <2>1, <2>3 DEF RetireAdmission, RecoverQueued
  <2>4. CASE RetirePendingForResource(p)
    BY <1>1, <2>1, <2>2, <2>4 DEF RetirePendingForResource
  <2>5. CASE Retire(p)
    BY <1>0, <1>1, <2>1, <2>5 DEF Retire
  <2> QED BY <1>8, <2>3, <2>4, <2>5 DEF Retiring
<1>9. CASE Crash(p)
  BY <1>1, <1>9 DEF Crash, Fresh, Holding
<1> QED BY <1>2, <1>3, <1>4, <1>5, <1>6, <1>7, <1>8, <1>9 DEF Admitting

\* Recovery waits a deadline out: AwaitDeadline lets the attempt go on only once
\* the deadline has passed, although it never sleeps longer than
\* RecoveryMaxDelay, because a longer wait defers the call (RecoverOperation).
LEMMA AwaitingDue ==
  ASSUME Sanity, Kept, Deadlines, NEW p \in Procs, AwaitDeadline(p)
  PROVE  Deadlines' /\ Awaited
<1> DEFINE s == proc[p]
           wait == IF clock = MaxClock THEN 0 ELSE s.held.notBefore - clock
           deferred == s.held.noReply > 0 /\ wait > RecoveryMaxDelay /\ wait <= NoReplyMaxDelay
           woken == clock + (IF wait > RecoveryMaxDelay THEN RecoveryMaxDelay ELSE wait)
           t == [s EXCEPT !.pc = "attempt"]
<1>0. /\ s \in Process /\ s.pc = "gate" /\ s.held \in Record /\ clock \in Nat /\ clock <= MaxClock
      /\ Due(clock, s.held) /\ UNCHANGED journal
  <2>1. s.pc = "gate" /\ s.pc \in Holding
    BY DEF AwaitDeadline, At, Holding
  <2> QED BY <2>1, WhatIsHeld DEF AwaitDeadline, durable, Sanity, ProcsSound, RestTyped, Deadlines, Punctual
<1>1. /\ s.held.notBefore \in Nat /\ s.held.noReply \in Nat /\ wait \in Int
  BY <1>0, Delays DEF Record
<1>2. t.pc = "attempt" /\ t.held = s.held
  BY <1>0 DEF Process
<1>3. CASE Become(p, Fail(s)) /\ UNCHANGED clock
  <2>1. Punctual(clock, Fail(s))
    BY <1>0, EndingsArePunctual
  <2> QED BY <1>0, <1>3, <2>1, LookingDue
<1>4. CASE /\ wait <= 0 \/ ~deferred
           /\ clock' = IF wait <= 0 THEN clock ELSE IF woken > MaxClock THEN MaxClock ELSE woken
           /\ Become(p, t)
  <2>1. clock < MaxClock => wait <= IF s.held.noReply = 0 THEN RecoveryMaxDelay ELSE NoReplyMaxDelay
    BY <1>0, <1>1, Delays DEF Due
  <2>2. PICK d : d = clock'
    OBVIOUS
  <2>3. d \in Nat /\ clock <= d /\ d <= MaxClock /\ (d >= s.held.notBefore \/ d = MaxClock)
    <3>1. CASE wait <= 0
      <4>1. clock = MaxClock \/ s.held.notBefore <= clock
        BY <1>0, <1>1, <3>1
      <4> HIDE DEF wait, deferred, woken
      <4>2. d = clock
        BY <1>4, <2>2, <3>1
      <4> QED BY <1>0, <1>1, <4>1, <4>2, Delays
    <3>2. CASE wait > 0 /\ ~deferred
      <4>1. clock < MaxClock /\ wait = s.held.notBefore - clock
        <5>1. clock # MaxClock
          BY <3>2
        <5> QED BY <1>0, <5>1, Delays
      <4>2. wait <= RecoveryMaxDelay
        BY <1>1, <2>1, <3>2, <4>1, Delays
      <4>3. woken = s.held.notBefore
        BY <1>0, <1>1, <4>1, <4>2, Delays
      <4> HIDE DEF woken, deferred
      <4> QED BY <1>0, <1>1, <1>4, <2>2, <3>2, <4>1, <4>3, Delays
    <3> HIDE DEF wait, deferred, woken
    <3>3. wait <= 0 \/ (wait > 0 /\ ~deferred)
      BY <1>1, <1>4
    <3> QED BY <3>1, <3>2, <3>3
  <2>4. Due(d, s.held) /\ Ripe(d, s.held)
    BY <1>0, <2>3, DeadlinesComeNearer DEF Ripe
  <2>5. Punctual(d, t)
    BY <1>2, <2>4 DEF Punctual, Owner
  <2> HIDE DEF t
  <2> QED BY <1>0, <1>4, <2>2, <2>3, <2>5, LookingDue
<1> QED BY <1>3, <1>4 DEF AwaitDeadline

\* The other steps of a recovery that write nothing leave every deadline alone.
LEMMA LookingOnDue ==
  ASSUME Sanity, Kept, Deadlines, NEW p \in Procs,
         \/ RecoverNext(p) \/ RecoverPendingEnds(p) \/ LoadOperation(p)
         \/ ReconcileConflict(p) \/ ExchangePinned(p) \/ ExchangeRefenced(p)
  PROVE  Deadlines' /\ Awaited
<1> DEFINE s == proc[p]
           Off(t) == t.pc \notin Holding
<1> USE DEF At, durable, host, network, history
<1>c. PICK c \in Nat : c = clock /\ c <= c /\ c <= MaxClock
  BY DEF Sanity, RestTyped, Deadlines
<1>0. /\ s \in Process /\ Sound(s) /\ Punctual(c, s)
      /\ Off(Rest(s)) /\ Off(Fail(s)) /\ Off(Refuse(s)) /\ Off(Succeed(s)) /\ Off(Reload(s))
      /\ UNCHANGED <<journal, clock>>
  <2>1. UNCHANGED <<journal, clock>>
    BY DEF RecoverNext, RecoverPendingEnds, LoadOperation, ReconcileConflict, ExchangePinned,
           ExchangeRefenced
  <2>2. s \in Process /\ Sound(s) /\ Punctual(c, s)
    BY <1>c DEF Sanity, ProcsSound, Deadlines
  <2> QED BY <2>1, <2>2, EndingsHoldNothing, ZenonT(30)
<1>1. ASSUME NEW t, Become(p, t), Off(t) \/ Punctual(c, t) PROVE Deadlines' /\ Awaited
  <2>1. Punctual(c, t)
    BY <1>0, <1>1, EndingsArePunctual
  <2> QED BY <1>c, <1>0, <1>1, <2>1, LookingDue
\* The process goes on with the record it holds.
<1>2. ASSUME NEW t, Become(p, t), s.pc \in Owner,
             t.held = s.held, t.pc # "attempt"
      PROVE  Deadlines' /\ Awaited
  <2>1. Punctual(c, t)
    BY <1>0, <1>2 DEF Punctual, Owner, Holding
  <2> QED BY <1>1, <1>2, <2>1
<1>3. CASE RecoverNext(p)
  <2>1. \A o : Off([s EXCEPT !.pc = "load", !.op = o])
    BY <1>0 DEF Process, Holding
  <2> QED BY <1>1, <1>3, <2>1 DEF RecoverNext
<1>4. CASE RecoverPendingEnds(p)
  <2>1. /\ \A b : Off([Rest(s) EXCEPT !.swept = b])
        /\ Off([Rest(s) EXCEPT !.pc = "pendings", !.task = "pendings"])
    BY DEF Rest, Holding
  <2>2. \E u : Off(u) /\ Become(p, u)
    BY <1>0, <1>4, <2>1 DEF RecoverPendingEnds
  <2> QED BY <1>1, <2>2
<1>5. CASE LoadOperation(p)
  <2>1. s.op \in Ops
    BY <1>0, <1>5 DEF LoadOperation, Sound, Resting
  <2>2. ASSUME NEW pc \in {"delete", "cancel", "closing", "gate"},
               Become(p, [s EXCEPT !.pc = pc, !.held = journal[s.op]]), journal[s.op] # Absent
        PROVE  Deadlines' /\ Awaited
    <3> DEFINE t == [s EXCEPT !.pc = pc, !.held = journal[s.op]]
    <3>1. t.pc = pc /\ t.held = journal[s.op] /\ Become(p, t)
      BY <1>0, <2>2 DEF Process
    <3>2. Due(c, journal[s.op])
      BY <1>c, <2>1, <2>2 DEF Deadlines
    <3>3. Punctual(c, t)
      BY <3>1, <3>2 DEF Punctual, Owner
    <3> HIDE DEF t
    <3> QED BY <1>1, <3>1, <3>3
  <2>3. CASE Become(p, Succeed(s)) \/ Become(p, Fail(s))
    BY <1>0, <1>1, <2>3
  <2>4. journal[s.op].status \in Status => journal[s.op] # Absent
    BY DEF Absent, Status
  <2>5. Terminal \union {"PREPARED", "MAPPED", "DISPATCHING", "CLOSING"} \subseteq Status
    BY DEF Terminal, Status
  <2> QED BY <1>5, <2>2, <2>3, <2>4, <2>5 DEF LoadOperation
<1>7. CASE ReconcileConflict(p)
  <2>1. \E u : Off(u) /\ Become(p, u)
    BY <1>0, <1>7, ZenonT(30) DEF ReconcileConflict
  <2> QED BY <1>1, <2>1
<1>8. CASE ExchangePinned(p)
  <2>0. s.pc \in Owner
    BY <1>8 DEF ExchangePinned, Owner
  <2>1. CASE Become(p, Fail(s)) \/ Become(p, Reload(s)) \/ Become(p, Refuse(s))
    BY <1>0, <1>1, <2>1
  <2>2. ASSUME NEW pc \in {"silent", "unexpected", "finish"}, NEW r, NEW m,
               \/ Become(p, [s EXCEPT !.pc = pc, !.reply = r])
               \/ Become(p, [s EXCEPT !.pc = pc, !.reply = r, !.moved = m])
        PROVE  Deadlines' /\ Awaited
    <3>1. PICK t : Become(p, t) /\ t.pc = pc /\ t.held = s.held
      <4> DEFINE u == [s EXCEPT !.pc = pc, !.reply = r]
                 v == [s EXCEPT !.pc = pc, !.reply = r, !.moved = m]
      <4>1. u.pc = pc /\ u.held = s.held /\ v.pc = pc /\ v.held = s.held
        BY <1>0 DEF Process
      <4>2. Become(p, u) \/ Become(p, v)
        BY <2>2, Zenon
      <4> HIDE DEF u, v
      <4> QED BY <4>1, <4>2
    <3> QED BY <1>2, <2>0, <3>1
  <2>3. ASSUME NEW r, Become(p, Answered(s, r)) PROVE Deadlines' /\ Awaited
    BY <2>1, <2>2, <2>3, ZenonT(60) DEF Answered
  <2> QED BY <1>8, <2>1, <2>2, <2>3 DEF ExchangePinned
<1>9. CASE ExchangeRefenced(p)
  <2>0. s.pc \in Owner
    BY <1>9 DEF ExchangeRefenced, Owner
  <2>1. CASE Become(p, Fail(s))
    BY <1>0, <1>1, <2>1
  <2>2. ASSUME NEW pc \in {"count", "pin"}, NEW r, NEW m,
               \/ Become(p, [s EXCEPT !.pc = pc, !.reply = r])
               \/ Become(p, [s EXCEPT !.pc = pc, !.reply = r, !.moved = m])
        PROVE  Deadlines' /\ Awaited
    <3>1. PICK t : Become(p, t) /\ t.pc = pc /\ t.held = s.held
      <4> DEFINE u == [s EXCEPT !.pc = pc, !.reply = r]
                 v == [s EXCEPT !.pc = pc, !.reply = r, !.moved = m]
      <4>1. u.pc = pc /\ u.held = s.held /\ v.pc = pc /\ v.held = s.held
        BY <1>0 DEF Process
      <4>2. Become(p, u) \/ Become(p, v)
        BY <2>2, Zenon
      <4> HIDE DEF u, v
      <4> QED BY <4>1, <4>2
    <3> QED BY <1>2, <2>0, <3>1
  <2> QED BY <1>9, <2>1, <2>2, ZenonT(60) DEF ExchangeRefenced
<1> QED BY <1>3, <1>4, <1>5, <1>7, <1>8, <1>9

\* The writes of a recovery.  Only two of them set a deadline: an attempt sets
\* one no further ahead than RecoveryMaxDelay, a counted silence one no further
\* ahead than NoReplyMaxDelay.
LEMMA WritingOnDue ==
  ASSUME Sanity, Sanity', Kept, Deadlines, NEW p \in Procs,
         \/ CancelPrepared(p) \/ CloseMapped(p) \/ DeleteTerminal(p)
         \/ CountAttempt(p) \/ PinEndpoint(p) \/ MapUnexpected(p)
         \/ CountNoReply(p) \/ FinishOperation(p)
  PROVE  Deadlines' /\ Awaited
<1> DEFINE s == proc[p]
           Off(t) == t.pc \notin Holding
<1> USE DEF At, host
<1>c. PICK c \in Nat : c = clock /\ c <= c /\ c <= MaxClock /\ clock' = c
  <2>1. UNCHANGED clock
    BY DEF CancelPrepared, CloseMapped, MoveTo, DeleteTerminal, CountAttempt, PinEndpoint,
           MapUnexpected, CountNoReply, FinishOperation
  <2> QED BY <2>1 DEF Sanity, RestTyped, Deadlines
<1>0. /\ s \in Process /\ Sound(s) /\ Keeps(s) /\ Punctual(c, s) /\ Due(c, s.held)
      /\ s.pc \in Holding /\ s.held \in Record /\ Sane(s.held)
      /\ Off(Fail(s)) /\ Off(Refuse(s)) /\ Off(Succeed(s)) /\ Off(Reload(s))
      /\ Punctual(c, Fail(s)) /\ Punctual(c, Refuse(s)) /\ Punctual(c, Reconcile(s))
      /\ Punctual(c, Succeed(s)) /\ Punctual(c, Reload(s))
  <2>1. s.pc \in Holding
    BY DEF CancelPrepared, CloseMapped, MoveTo, DeleteTerminal, CountAttempt, PinEndpoint,
           MapUnexpected, CountNoReply, FinishOperation, Holding
  <2>2. s \in Process /\ Punctual(c, s) /\ Due(c, s.held)
    BY <1>c, <2>1 DEF Sanity, ProcsSound, Deadlines, Punctual
  <2> QED BY <2>1, <2>2, WhatIsHeld, EndingsHoldNothing, EndingsArePunctual DEF Sanity, ProcsSound, Kept
\* A write that moves neither a counter nor the deadline.
<1>1. ASSUME NEW next, NEW done, NEW lost, Write(p, next, done, lost, Fail(s)),
             Punctual(c, lost),
             next.attempt = s.held.attempt, next.notBefore = s.held.notBefore,
             next.noReply = s.held.noReply,
             Off(done) \/ (done.held = next /\ done.pc \in {"delete", "gate", "finish", "unexpected"})
      PROVE  Deadlines' /\ Awaited
  <2>1. Due(c, next)
    BY <1>0, <1>1 DEF Due
  <2>2. Punctual(c, done)
    BY <1>0, <1>1, <2>1, EndingsArePunctual DEF Punctual, Owner
  <2> HIDE DEF Punctual, Due
  <2> QED BY <1>c, <1>0, <1>1, <2>1, <2>2, WritingDue
<1>2. ASSUME NEW from, NEW pc \in {"delete", "gate"}, NEW st, MoveTo(p, from, st, pc)
      PROVE  Deadlines' /\ Awaited
  <2> DEFINE next == [s.held EXCEPT !.status = st]
             done == [s EXCEPT !.pc = pc, !.held = next]
  <2>1. /\ next.attempt = s.held.attempt /\ next.notBefore = s.held.notBefore
        /\ next.noReply = s.held.noReply
    BY <1>0 DEF Record
  <2>2. done.pc = pc /\ done.held = next
    <3> HIDE DEF next
    <3> QED BY <1>0 DEF Process
  <2>3. Write(p, next, done, Reconcile(s), Fail(s))
    BY <1>2 DEF MoveTo
  <2> HIDE DEF next, done
  <2> QED BY <1>0, <1>1, <2>1, <2>2, <2>3
<1>3. CASE CancelPrepared(p) \/ CloseMapped(p)
  BY <1>2, <1>3 DEF CancelPrepared, CloseMapped
<1>5. CASE DeleteTerminal(p)
  <2>1. Write(p, Absent, Succeed(s), Reconcile(s), Fail(s))
    BY <1>5 DEF DeleteTerminal
  <2> QED BY <1>c, <1>0, <2>1, WritingDue
<1>6. CASE CountAttempt(p)
  <2> DEFINE n == s.held.attempt + 1
             next == [s.held EXCEPT !.attempt = n, !.notBefore = Later(s.held, RecoveryBackoff[n])]
             done == [s EXCEPT !.pc = "exchange", !.held = next]
  <2>0. s.pc = "attempt" /\ Ripe(c, s.held)
    BY <1>0, <1>6 DEF CountAttempt, Punctual
  <2>1. CASE Become(p, Fail(s)) /\ UNCHANGED journal
    BY <1>c, <1>0, <2>1, LookingDue
  <2>2. CASE s.held.attempt < MaxAttempts /\ Write(p, next, done, Reconcile(s), Fail(s))
    <3>1. /\ next.notBefore = Later(s.held, RecoveryBackoff[n])
          /\ next.noReply = s.held.noReply /\ s.held.notBefore \in Nat
          /\ n \in 1..MaxAttempts
      BY <1>0, <2>2, Delays DEF Record
    <3>2. done.pc = "exchange" /\ done.held = next
      <4> HIDE DEF next
      <4> QED BY <1>0 DEF Process
    <3> HIDE DEF n, next, done
    <3>3. PICK b \in 1..RecoveryMaxDelay : b = RecoveryBackoff[n]
      BY <3>1, Delays
    <3>4. Near(c, next)
      <4> SUFFICES ASSUME c < MaxClock PROVE next.notBefore <= c + RecoveryMaxDelay
        BY DEF Near
      <4>1. c >= s.held.notBefore
        BY <1>c, <2>0, Delays DEF Ripe
      <4>2. next.notBefore = c + b
        BY <1>c, <3>1, <3>3, <4>1, Delays DEF Later
      <4> QED BY <1>c, <3>3, <4>2, Delays
    <3>5. Due(c, next)
      <4>1. c < MaxClock => next.notBefore <= c + RecoveryMaxDelay
        BY <3>4 DEF Near
      <4>2. next.notBefore \in Nat
        BY <1>c, <3>1, <3>3, Delays DEF Later
      <4> QED BY <1>c, <4>1, <4>2, Delays DEF Due
    <3>6. Punctual(c, done)
      BY <3>2, <3>4, <3>5 DEF Punctual
    <3> HIDE DEF Punctual, Due, Ripe
    <3> QED BY <1>c, <1>0, <2>0, <2>2, <3>5, <3>6, WritingDue
  <2> QED BY <1>6, <2>1, <2>2 DEF CountAttempt
<1>7. CASE PinEndpoint(p)
  <2> DEFINE t == [s EXCEPT !.held = s.moved]
             lost == IF s.reply = "admitted" THEN Refuse(s) ELSE Reconcile(s)
  <2>1. s.moved = [s.held EXCEPT !.endpoint = s.moved.endpoint] /\ s.moved \in Record
    BY <1>0, <1>7 DEF PinEndpoint, Keeps, Sound, Sane
  <2>2. /\ s.moved.attempt = s.held.attempt /\ s.moved.notBefore = s.held.notBefore
        /\ s.moved.noReply = s.held.noReply
    BY <1>0, <2>1 DEF Record
  <2>3. t \in Process /\ t.held = s.moved
    BY <1>0, <2>1 DEF Process
  <2>4. Write(p, s.moved, Answered(t, s.reply), lost, Fail(s))
    BY <1>7 DEF PinEndpoint
  <2>5. Punctual(c, lost)
    BY <1>0
  <2> HIDE DEF t, lost
  <2>6. \/ Off(Answered(t, s.reply))
        \/ Answered(t, s.reply).held = s.moved /\ Answered(t, s.reply).pc \in {"finish", "unexpected"}
    <3>1. Off(Reload(t)) /\ Off(Fail(t)) /\ Off(Refuse(t))
      BY <2>3, EndingsHoldNothing
    <3>2. ASSUME NEW pc, NEW r, NEW m
          PROVE  LET u == [t EXCEPT !.pc = pc, !.reply = r, !.moved = m]
                 IN  u.pc = pc /\ u.held = t.held
      BY <2>3 DEF Process
    <3> QED BY <2>3, <3>1, <3>2 DEF Answered
  <2> QED BY <1>1, <2>2, <2>4, <2>5, <2>6
<1>8. CASE MapUnexpected(p)
  <2> DEFINE next == [s.held EXCEPT !.status = "MAPPED", !.admission = TRUE]
  <2>1. CASE Become(p, Refuse(s)) /\ UNCHANGED journal
    BY <1>c, <1>0, <2>1, LookingDue
  <2>2. CASE Write(p, next, Reload(s), Refuse(s), Fail(s))
    <3>1. /\ next.attempt = s.held.attempt /\ next.notBefore = s.held.notBefore
          /\ next.noReply = s.held.noReply
      BY <1>0 DEF Record
    <3> HIDE DEF next
    <3> QED BY <1>0, <1>1, <2>2, <3>1
  <2> QED BY <1>8, <2>1, <2>2 DEF MapUnexpected
<1>9. CASE CountNoReply(p)
  <2> DEFINE n == s.held.noReply + 1
             next == [s.held EXCEPT !.noReply = n, !.notBefore = Later(s.held, NoReplyBackoff[n])]
             giveUp == [s EXCEPT !.pc = "finish", !.held = next, !.reply = "silent"]
             done == IF n < AbandonAttempts THEN Fail(s) ELSE giveUp
  <2>1. CASE Become(p, Fail(s)) /\ UNCHANGED journal
    BY <1>c, <1>0, <2>1, LookingDue
  <2>2. CASE Write(p, next, done, Reconcile(s), Fail(s))
    <3>0. Near(c, s.held)
      BY <1>0, <1>9 DEF CountNoReply, Punctual
    <3>1. /\ next.notBefore = Later(s.held, NoReplyBackoff[n])
          /\ next.noReply = n /\ next.attempt = s.held.attempt /\ s.held.notBefore \in Nat
          /\ n \in Nat /\ n >= 1 /\ s.held.attempt \in Nat /\ s.held.attempt <= MaxAttempts
      BY <1>0 DEF Record, Sane
    <3>2. next # Absent
      <4>1. "endpoint" \in DOMAIN next /\ "endpoint" \notin DOMAIN Absent
        BY <1>0 DEF Record, Absent
      <4> QED BY <4>1
    <3>3. giveUp.pc = "finish" /\ giveUp.held = next
      <4> HIDE DEF next
      <4> QED BY <1>0 DEF Process
    <3> HIDE DEF n, next, giveUp
    <3>4. ASSUME Legal(s.held, next) PROVE Due(c, next)
      <4>1. n \in 1..MaxAttempts
        BY <3>1, <3>2, <3>4, Delays DEF Legal, ValidTransition, ValidRecord
      <4>2. PICK b \in 1..NoReplyMaxDelay : b = NoReplyBackoff[n]
        BY <4>1, Delays
      <4>3. next.notBefore = IF c + b > s.held.notBefore THEN c + b ELSE s.held.notBefore + 1
        BY <1>c, <3>1, <4>2 DEF Later
      <4>4. c < MaxClock => s.held.notBefore <= c + RecoveryMaxDelay
        BY <3>0 DEF Near
      <4> QED BY <1>c, <3>1, <4>2, <4>3, <4>4, Delays DEF Due
    <3>5. Legal(s.held, next) => Punctual(c, done)
      BY <1>0, <3>3, <3>4 DEF Punctual, Owner
    <3> HIDE DEF done, Punctual, Due
    <3> QED BY <1>c, <1>0, <2>2, <3>1, <3>4, <3>5, WritingDue
  <2> QED BY <1>9, <2>1, <2>2 DEF CountNoReply
<1>10. CASE FinishOperation(p)
  <2> DEFINE next == [s.held EXCEPT !.status = IF s.held.admission THEN "CLOSED" ELSE "CANCELED"]
             done == [s EXCEPT !.pc = "delete", !.held = next, !.reply = "none"]
  <2>1. /\ next.attempt = s.held.attempt /\ next.notBefore = s.held.notBefore
        /\ next.noReply = s.held.noReply
    BY <1>0 DEF Record
  <2>2. done.pc = "delete" /\ done.held = next
    <3> HIDE DEF next
    <3> QED BY <1>0 DEF Process
  <2>3. Write(p, next, done, Reconcile(s), Fail(s))
    BY <1>10 DEF FinishOperation
  <2> HIDE DEF next, done
  <2> QED BY <1>0, <1>1, <2>1, <2>2, <2>3
<1> QED BY <1>3, <1>5, <1>6, <1>7, <1>8, <1>9, <1>10

\* While the clock is not corrected, deadlines are inductive and no step counts
\* an attempt before one.
LEMMA StepAwaits ==
  ~ClockSteps /\ Sanity /\ Sanity' /\ Kept /\ Deadlines /\ [Next]_vars => Deadlines' /\ Awaited
<1> SUFFICES ASSUME ~ClockSteps, Sanity, Sanity', Kept, Deadlines, [Next]_vars
             PROVE  Deadlines' /\ Awaited
  OBVIOUS
<1>1. ASSUME UNCHANGED <<journal, proc>>, NEW d \in Nat, clock' = d, clock <= d, d <= MaxClock
      PROVE  Deadlines' /\ Awaited
  <2>1. Deadlines'
    BY <1>1, TimePasses DEF Deadlines
  <2>2. ASSUME NEW o \in Ops, journal[o] # Absent PROVE ~(journal[o].attempt > journal[o].attempt)
    BY <2>2 DEF Sanity, JournalSane, Sane, Record
  <2> QED BY <1>1, <2>1, <2>2 DEF Awaited
<1>2. clock \in Nat /\ clock <= MaxClock /\ clock <= clock
  BY DEF Sanity, RestTyped, Deadlines
<1>3. CASE UNCHANGED vars
  <2>1. UNCHANGED <<journal, proc>> /\ clock' = clock
    BY <1>3 DEF vars, durable, host
  <2> QED BY <1>1, <1>2, <2>1
<1>4. CASE Environment
  <2>1. /\ UNCHANGED <<journal, proc>>
        /\ clock' = clock \/ (clock < MaxClock /\ clock' = clock + 1)
    BY <1>4 DEF Environment, KnockArrives, RollEndpoint, RenewAssignment, DeleteResource, Tick, Settle,
                CorrectClock, durable, host
  <2>2. PICK d : d = clock'
    OBVIOUS
  <2>3. d \in Nat /\ clock <= d /\ d <= MaxClock
    BY <1>2, <2>1, <2>2, Delays
  <2> QED BY <1>1, <2>1, <2>2, <2>3
<1>5. CASE Next
  BY <1>4, <1>5, AdmittingDue, AwaitingDue, LookingOnDue, WritingOnDue DEF Next, Recovering
<1> QED BY <1>3, <1>5

\* As long as the clock is not corrected, no recovery attempt is made before
\* the deadline persisted by the last one, whichever process made it: the wait
\* is bounded (RecoverOperation) but never cut short, and an attempt is counted
\* by compare-and-swap over the very record that was waited for.
THEOREM BackoffIsHonoured == Spec => BackoffHonoured
<1> DEFINE Timely == ~ClockSteps => Deadlines
           Waits == ~ClockSteps => Awaited
<1>1. Init => Timely
  <2>1. \A p \in Procs : Init => proc[p].pc = "idle"
    BY DEF Init, Fresh
  <2>2. \A c, s : s.pc = "idle" => Punctual(c, s)
    BY DEF Punctual, Holding, Owner
  <2> QED BY <2>1, <2>2, Delays DEF Init, Deadlines
<1>2. Sanity /\ Sanity' /\ Kept /\ Timely /\ [Next]_vars => Timely' /\ Waits
  BY StepAwaits
<1>3. Waits => (~ClockSteps =>
       \A o \in Ops : journal[o] # Absent /\ journal'[o] # Absent
                        /\ journal'[o].attempt > journal[o].attempt
                      => clock >= journal[o].notBefore \/ clock = MaxClock)
  BY DEF Awaited, Ripe
<1> QED BY <1>1, <1>2, <1>3, KeptHolds, SanityHolds, PTL DEF Spec, BackoffHonoured

--------------------------------------------------------------------------------
(***************************************************************************)
(* One process alone on its state directory: recovery and replacement      *)
(* leave an admission that serves alone (LiveUndisturbed), and a           *)
(* replacement is opened only once everything before it is resolved or     *)
(* serving (ReplacementWaits).                                             *)
(*                                                                         *)
(* Neither follows from the journal alone: admitOnce goes from recovery to *)
(* the pending retirements to the knock in one call, and what it found on  *)
(* the way is still true at the end only because nobody else writes the    *)
(* journal meanwhile.  Alone says what is true on the way.                 *)
(***************************************************************************)
Sweeping == {"orphans", "admit"}
Knocking == {"prepare", "dispatch", "knock", "knocking", "mapLoad", "mapWrite", "track"}

\* Steps of a recovery or retirement of one operation.
Working ==
  {"retire", "load", "cancel", "closing", "gate", "attempt", "exchange", "silent",
   "pin", "unexpected", "count", "finish", "delete", "reconcile"}

\* Admissions nobody asked to retire.
Serving(s) == s.live \ s.pending

\* Nothing is left in the journal outside S.
Left(j, S) == \A o \in Ops : j[o] # Absent => o \in S

Alone(j, s) ==
  /\ s.pc = "idle" => s.task = "none"
  /\ s.pc = "sweep" => s.task \in Sweeping
  /\ s.pc = "pendings" => s.task \in {"pendings", "queue"}
  /\ s.pc \in Knocking => s.task = "knock"
  /\ s.task \notin Sweeping => s.todo = {}
  /\ s.op \notin Serving(s)
  /\ s.todo \cap s.live = {}
  /\ \A o \in Serving(s) : j[o].status = "MAPPED"
  /\ s.pc = "track" => j[s.op].status = "MAPPED"
  /\ s.task = "admit" /\ s.fault = "none" => Left(j, s.live \union s.todo)
  /\ s.task = "pendings" \/ s.pc = "prepare" => Left(j, s.live)
  /\ s.pc = "prepare" => s.pending = {}

Solitary == \A p \in Procs : Alone(journal, proc[p])

\* A journal k that disturbs nothing process s relies on in j.
Steady(j, k, s) ==
  /\ \A o \in Serving(s) : k[o].status = "MAPPED"
  /\ s.task # "knock" => \A o \in Ops : k[o] # Absent => j[o] # Absent

NothingNew == \A o \in Ops : journal'[o] # Absent => journal[o] # Absent

\* The same call on the same operation, with the same admissions.
Alike(s, t) ==
  /\ t.op = s.op /\ t.task = s.task /\ t.todo = s.todo /\ t.fault = s.fault
  /\ t.live = s.live /\ t.pending = s.pending

--------------------------------------------------------------------------------
(***************************************************************************)
(* The ways a call goes on and the ways it ends.                           *)
(***************************************************************************)
\* A recovery or retirement that goes on relies on what it relied on before.
LEMMA WorkGoesOn ==
  ASSUME NEW j, NEW k, NEW s, NEW t, Alone(j, s), Steady(j, k, s), Alike(s, t),
         t.pc \in Working
  PROVE  Alone(k, t)
<1>1. t.pc \notin {"idle", "sweep", "pendings", "track", "prepare"} \union Knocking
  BY DEF Working, Knocking
<1>2. Serving(t) = Serving(s)
  BY DEF Serving, Alike
<1>3. t.task = "admit" /\ t.fault = "none" => Left(k, t.live \union t.todo)
  BY DEF Alone, Steady, Alike, Left
<1>4. t.task = "pendings" => Left(k, t.live)
  BY DEF Alone, Steady, Alike, Left
<1> QED BY <1>1, <1>2, <1>3, <1>4 DEF Alone, Steady, Alike

\* A call that ends keeps its admissions; one that failed leaves a fault behind,
\* so that only a faultless sweep goes on to the pending retirements.
LEMMA CallsEndAlone ==
  ASSUME NEW j, NEW k, NEW s \in Process, Alone(j, s), Steady(j, k, s)
  PROVE  /\ Alone(k, Rest(s)) /\ Alone(k, Fail(s)) /\ Alone(k, Refuse(s))
         /\ s.task = "knock" => Alone(k, Cleanup(s))
         /\ s.op \in Ops /\ k[s.op] = Absent => Alone(k, Succeed(s))
<1>0. /\ s.live \in SUBSET Ops /\ s.pending \in SUBSET Ops /\ s.todo \in SUBSET Ops
      /\ NoOp \notin Ops /\ s.task \in Tasks /\ s.fault \in Faults
  BY OperationsAssumption DEF Process
<1>1. ASSUME NEW b PROVE Alone(k, Rest(s)) /\ Alone(k, [Rest(s) EXCEPT !.queued = b])
  <2>1. Serving(Rest(s)) = Serving(s) /\ Serving([Rest(s) EXCEPT !.queued = b]) = Serving(s)
    BY DEF Serving, Rest
  <2>2. NoOp \notin Serving(s)
    BY <1>0 DEF Serving
  <2> QED BY <2>1, <2>2 DEF Alone, Steady, Rest, Sweeping, Knocking
<1>2. Alone(k, Rest(s)) /\ \A b \in BOOLEAN : Alone(k, [Rest(s) EXCEPT !.queued = b])
  BY <1>1
<1>3. ASSUME NEW f \in Faults, s.task \in Sweeping,
             f = "none" => s.op \in Ops /\ k[s.op] = Absent
      PROVE  Alone(k, Swept(s, f))
  <2> DEFINE t == Swept(s, f)
  <2>1. /\ t.pc = "sweep" /\ t.task = s.task /\ t.todo = s.todo \ {s.op} /\ t.op = NoOp
        /\ t.live = s.live /\ t.pending = s.pending /\ t.fault = Worse(s.fault, f)
    BY DEF Swept, Rest
  <2> HIDE DEF t
  <2>2. t.fault = "none" => f = "none" /\ s.fault = "none"
    BY <1>0, <2>1 DEF Worse, Faults
  <2>3. t.task = "admit" /\ t.fault = "none" => Left(k, t.live \union t.todo)
    BY <1>3, <2>1, <2>2 DEF Alone, Steady, Left
  <2>4. NoOp \notin Serving(t) /\ Serving(t) = Serving(s)
    BY <1>0, <2>1 DEF Serving
  <2>5. t.task # "pendings" /\ t.todo \cap t.live = {}
    BY <1>3, <2>1 DEF Alone, Sweeping
  <2> QED BY <1>3, <2>1, <2>3, <2>4, <2>5 DEF Alone, Steady, Knocking, t
<1>4. Alone(k, Fail(s)) /\ Alone(k, Refuse(s))
  BY <1>2, <1>3 DEF Fail, Refuse, Ends, Sweeping, Faults
<1>5. s.task = "knock" => Alone(k, Cleanup(s))
  <2> SUFFICES ASSUME s.task = "knock" PROVE Alone(k, Cleanup(s))
    OBVIOUS
  <2>1. /\ Cleanup(s).pc = "load" /\ Cleanup(s).task = "cleanup" /\ Cleanup(s).op = s.op
        /\ Cleanup(s).todo = s.todo /\ Cleanup(s).live = s.live /\ Cleanup(s).pending = s.pending
    BY DEF Cleanup, Process
  <2>2. Serving(Cleanup(s)) = Serving(s)
    BY <2>1 DEF Serving
  <2> HIDE DEF Cleanup
  <2> QED BY <2>1, <2>2 DEF Alone, Steady, Knocking, Sweeping
<1>6. ASSUME s.op \in Ops, k[s.op] = Absent PROVE Alone(k, Succeed(s))
  <2>1. CASE s.task \in Sweeping
    BY <1>3, <1>6, <2>1 DEF Succeed, Sweeping, Faults
  <2>2. CASE s.task \in {"pendings", "queue"}
    <3> DEFINE t == [Rest(Retired(s)) EXCEPT !.pc = "pendings", !.task = s.task]
    <3>1. /\ t.pc = "pendings" /\ t.task = s.task /\ t.op = NoOp /\ t.todo = {}
          /\ t.live = s.live \ {s.op} /\ t.pending = s.pending \ {s.op}
      BY DEF Rest, Retired, Process
    <3>2. t = Succeed(s)
      BY <2>2 DEF Succeed
    <3> HIDE DEF t
    <3>3. Serving(t) \subseteq Serving(s) /\ NoOp \notin Serving(t)
      BY <1>0, <3>1 DEF Serving
    <3>4. t.task = "pendings" => Left(k, t.live)
      BY <1>6, <3>1 DEF Alone, Steady, Left
    <3>5. Alone(k, t)
      BY <2>2, <3>1, <3>3, <3>4 DEF Alone, Steady, Knocking, Sweeping
    <3> QED BY <3>2, <3>5
  <2>3. CASE s.task = "retire"
    <3> DEFINE t == Rest(Retired(s))
    <3>1. /\ t.pc = "idle" /\ t.task = "none" /\ t.op = NoOp /\ t.todo = {}
          /\ t.live = s.live \ {s.op} /\ t.pending = s.pending \ {s.op}
      BY DEF Rest, Retired, Process
    <3>2. t = Succeed(s)
      BY <2>3 DEF Succeed
    <3> HIDE DEF t
    <3>3. Serving(t) \subseteq Serving(s) /\ NoOp \notin Serving(t)
      BY <1>0, <3>1 DEF Serving
    <3>5. Alone(k, t)
      BY <3>1, <3>3 DEF Alone, Steady, Knocking, Sweeping
    <3> QED BY <3>2, <3>5
  <2>4. CASE s.task \notin Sweeping \union {"pendings", "queue", "retire"}
    BY <1>2, <2>4 DEF Succeed, Sweeping
  <2> QED BY <2>1, <2>2, <2>3, <2>4
<1> QED BY <1>2, <1>4, <1>5, <1>6

\* A held record the journal accepted a successor of was there before.
LEMMA WritesDisturbNothing ==
  ASSUME JournalSane, NEW p \in Procs, NEW next, NEW done, NEW lost, NEW err,
         Alone(journal, proc[p]), proc[p].op \in Ops,
         Write(p, next, done, lost, err)
  PROVE  /\ Steady(journal, journal', proc[p]) /\ NothingNew
         /\ \/ Become(p, done) /\ journal'[proc[p].op] = next
            \/ Become(p, lost)
            \/ Become(p, err)
<1> DEFINE s == proc[p]
<1>1. Steady(journal, journal, s)
  BY DEF Alone, Steady
<1>2. CASE UNCHANGED journal /\ (Become(p, lost) \/ Become(p, err))
  BY <1>1, <1>2 DEF Steady, NothingNew
<1>3. CASE /\ Legal(s.held, next) /\ journal[s.op] = s.held
           /\ journal' = [journal EXCEPT ![s.op] = next]
           /\ Become(p, done) \/ Become(p, err)
  <2>1. next = Absent \/ journal[s.op] # Absent
    BY <1>3 DEF Legal, ValidTransition, Transitions, Absent
  <2>2. journal'[s.op] = next /\ \A o \in Ops : o # s.op => journal'[o] = journal[o]
    BY <1>3 DEF JournalSane
  <2>3. NothingNew
    BY <2>1, <2>2 DEF NothingNew
  <2>4. \A o \in Serving(s) : o # s.op /\ (o \in Ops => journal'[o].status = "MAPPED")
    BY <2>2 DEF Alone
  <2>5. \A o \in Serving(s) : journal'[o].status = "MAPPED"
    BY <1>3, <2>4 DEF Alone, JournalSane
  <2> QED BY <1>3, <2>2, <2>3, <2>5 DEF Steady, NothingNew
<1> QED BY <1>2, <1>3 DEF Write

\* A step that leaves the journal alone disturbs nothing.
LEMMA LookingDisturbsNothing ==
  ASSUME NEW p \in Procs, Alone(journal, proc[p]), UNCHANGED journal
  PROVE  Steady(journal, journal', proc[p]) /\ NothingNew
BY DEF Alone, Steady, NothingNew

\* With a single process, its own step is all there is to look at.
LEMMA OnlyOneMoves ==
  ASSUME Sole, ProcsSound, NEW p \in Procs, NEW t, Become(p, t), Alone(journal', t)
  PROVE  Solitary'
BY DEF Sole, ProcsSound, Become, Solitary

--------------------------------------------------------------------------------
(***************************************************************************)
(* Starting a pass, and going from one operation to the next.              *)
(***************************************************************************)
LEMMA PassesAlone ==
  ASSUME Sanity, Sole, Solitary, NEW p \in Procs,
         \/ RecoverPending(p, "admit") \/ RecoverPending(p, "orphans")
         \/ RecoverNext(p) \/ RecoverPendingEnds(p)
         \/ Retiring(p) \/ Crash(p)
  PROVE  Solitary' /\ NothingNew
<1> DEFINE s == proc[p]
<1>0. ProcsSound /\ JournalSane
  BY DEF Sanity
<1>1. /\ s \in Process /\ s.live \subseteq Ops /\ s.pending \subseteq Ops /\ s.todo \subseteq Ops
      /\ NoOp \notin Ops
  BY <1>0, OperationsAssumption DEF ProcsSound, Sound, Process
<1>2. Alone(journal, s) /\ UNCHANGED journal /\ NothingNew /\ Steady(journal, journal', s)
  BY LookingDisturbsNothing DEF Solitary, RecoverPending, RecoverNext, RecoverPendingEnds,
     Retiring, RetireAdmission, RecoverQueued, RetirePendingForResource, Retire, Crash, durable
<1>3. SUFFICES \E t : Become(p, t) /\ Alone(journal, t)
  BY <1>0, <1>2, OnlyOneMoves
<1>4. /\ Alone(journal, Rest(s)) /\ Alone(journal, Fail(s)) /\ Alone(journal, Refuse(s))
      /\ s.op \in Ops /\ journal[s.op] = Absent => Alone(journal, Succeed(s))
  BY <1>1, <1>2, CallsEndAlone
<1>5. ASSUME NEW task \in Sweeping, RecoverPending(p, task) PROVE \E t : Become(p, t) /\ Alone(journal, t)
  <2> DEFINE t == [s EXCEPT !.pc = "sweep", !.task = task,
                            !.todo = {o \in Ops : journal[o] # Absent} \ s.live]
  <2>1. Become(p, t) /\ s.pc = "idle"
    BY <1>5 DEF RecoverPending, At
  <2>2. /\ t.pc = "sweep" /\ t.task = task /\ t.todo = {o \in Ops : journal[o] # Absent} \ s.live
        /\ t.op = s.op /\ t.live = s.live /\ t.pending = s.pending
    BY <1>1 DEF Process
  <2> HIDE DEF t
  <2>3. Serving(t) = Serving(s) /\ Left(journal, t.live \union t.todo) /\ t.todo \cap t.live = {}
    BY <2>2 DEF Serving, Left
  <2>4. Alone(journal, t)
    BY <1>2, <2>2, <2>3 DEF Alone, Sweeping, Knocking
  <2> QED BY <2>1, <2>4
<1>6. CASE RecoverNext(p)
  <2>1. PICK o \in s.todo : Become(p, [s EXCEPT !.pc = "load", !.op = o])
    BY <1>6 DEF RecoverNext
  <2> DEFINE t == [s EXCEPT !.pc = "load", !.op = o]
  <2>2. /\ t.pc = "load" /\ t.task = s.task /\ t.todo = s.todo /\ t.fault = s.fault
        /\ t.op = o /\ t.live = s.live /\ t.pending = s.pending
    BY <1>1 DEF Process
  <2> HIDE DEF t
  <2>3. Serving(t) = Serving(s) /\ o \notin Serving(s)
    BY <1>2, <2>2 DEF Serving, Alone
  <2>4. Alone(journal, t)
    BY <1>2, <2>2, <2>3 DEF Alone, Knocking
  <2> QED BY <2>1, <2>4 DEF t
<1>7. CASE RecoverPendingEnds(p)
  <2>1. s.pc = "sweep" /\ s.todo = {}
    BY <1>7 DEF RecoverPendingEnds, At
  <2>2. ASSUME NEW b PROVE Alone(journal, [Rest(s) EXCEPT !.swept = b])
    <3> DEFINE t == [Rest(s) EXCEPT !.swept = b]
    <3>1. /\ t.pc = "idle" /\ t.task = "none" /\ t.todo = {} /\ t.op = NoOp
          /\ t.live = s.live /\ t.pending = s.pending
      BY DEF Rest
    <3> HIDE DEF t
    <3>2. Serving(t) = Serving(s) /\ NoOp \notin Serving(s)
      BY <1>1, <3>1 DEF Serving
    <3>3. Alone(journal, t)
      BY <1>2, <3>1, <3>2 DEF Alone, Knocking, Sweeping
    <3> QED BY <3>3 DEF t
  <2>3. ASSUME s.task # "orphans", s.fault = "none"
        PROVE  Alone(journal, [Rest(s) EXCEPT !.pc = "pendings", !.task = "pendings"])
    <3> DEFINE t == [Rest(s) EXCEPT !.pc = "pendings", !.task = "pendings"]
    <3>1. /\ t.pc = "pendings" /\ t.task = "pendings" /\ t.todo = {} /\ t.op = NoOp
          /\ t.live = s.live /\ t.pending = s.pending
      BY DEF Rest
    <3> HIDE DEF t
    <3>2. Serving(t) = Serving(s) /\ NoOp \notin Serving(s)
      BY <1>1, <3>1 DEF Serving
    <3>3. Left(journal, t.live)
      BY <1>2, <2>1, <2>3, <3>1 DEF Alone, Sweeping, Left
    <3>4. Alone(journal, t)
      BY <1>2, <3>1, <3>2, <3>3 DEF Alone, Knocking, Sweeping
    <3> QED BY <3>4 DEF t
  <2>4. Become(p, IF s.task = "orphans" THEN [Rest(s) EXCEPT !.swept = s.fault # "retryable"]
                  ELSE IF s.fault = "none" THEN [Rest(s) EXCEPT !.pc = "pendings", !.task = "pendings"]
                  ELSE Rest(s))
    BY <1>7 DEF RecoverPendingEnds
  <2> QED BY <1>4, <2>2, <2>3, <2>4
<1>8. CASE RetireAdmission(p)
  <2>1. PICK o \in s.live :
          Become(p, [s EXCEPT !.pc = "retire", !.task = "retire", !.op = o, !.pending = @ \union {o}])
    BY <1>8 DEF RetireAdmission
  <2>2. s.pc = "idle"
    BY <1>8 DEF RetireAdmission, At
  <2> DEFINE t == [s EXCEPT !.pc = "retire", !.task = "retire", !.op = o, !.pending = @ \union {o}]
  <2>3. /\ t.pc = "retire" /\ t.task = "retire" /\ t.todo = s.todo /\ t.op = o
        /\ t.live = s.live /\ t.pending = s.pending \union {o}
    BY <1>1 DEF Process
  <2> HIDE DEF t
  <2>4. Serving(t) \subseteq Serving(s) /\ o \notin Serving(t) /\ t.todo = {}
    BY <1>2, <2>2, <2>3 DEF Serving, Alone, Sweeping
  <2>5. Alone(journal, t)
    BY <1>2, <2>3, <2>4 DEF Alone, Knocking, Sweeping
  <2> QED BY <2>1, <2>5 DEF t
<1>9. CASE RecoverQueued(p)
  <2> DEFINE t == [s EXCEPT !.pc = "pendings", !.task = "queue"]
  <2>1. Become(p, t) /\ s.pc = "idle"
    BY <1>9 DEF RecoverQueued, At
  <2>2. /\ t.pc = "pendings" /\ t.task = "queue" /\ t.todo = s.todo /\ t.op = s.op
        /\ t.live = s.live /\ t.pending = s.pending
    BY <1>1 DEF Process
  <2> HIDE DEF t
  <2>3. Serving(t) = Serving(s)
    BY <2>2 DEF Serving
  <2>4. Alone(journal, t)
    BY <1>2, <2>1, <2>2, <2>3 DEF Alone, Knocking, Sweeping
  <2> QED BY <2>1, <2>4
<1>10. CASE RetirePendingForResource(p)
  <2>0. s.pc = "pendings"
    BY <1>10 DEF RetirePendingForResource, At
  <2>1. ASSUME NEW o \in s.pending PROVE Alone(journal, [s EXCEPT !.pc = "retire", !.op = o])
    <3> DEFINE t == [s EXCEPT !.pc = "retire", !.op = o]
    <3>1. /\ t.pc = "retire" /\ t.task = s.task /\ t.todo = s.todo /\ t.op = o
          /\ t.live = s.live /\ t.pending = s.pending /\ t.fault = s.fault
      BY <1>1 DEF Process
    <3> HIDE DEF t
    <3>2. Serving(t) = Serving(s) /\ o \notin Serving(s)
      BY <3>1 DEF Serving
    <3>3. Alone(journal, t)
      BY <1>2, <3>1, <3>2 DEF Alone, Knocking
    <3> QED BY <3>3 DEF t
  <2>2. Alone(journal, [Rest(s) EXCEPT !.queued = FALSE])
    <3> DEFINE t == [Rest(s) EXCEPT !.queued = FALSE]
    <3>1. /\ t.pc = "idle" /\ t.task = "none" /\ t.todo = {} /\ t.op = NoOp
          /\ t.live = s.live /\ t.pending = s.pending
      BY DEF Rest
    <3> HIDE DEF t
    <3>2. Serving(t) = Serving(s) /\ NoOp \notin Serving(s)
      BY <1>1, <3>1 DEF Serving
    <3>3. Alone(journal, t)
      BY <1>2, <3>1, <3>2 DEF Alone, Knocking, Sweeping
    <3> QED BY <3>3 DEF t
  <2>3. ASSUME s.pending = {}, s.task # "queue"
        PROVE  Alone(journal, [s EXCEPT !.pc = "prepare", !.task = "knock"])
    <3> DEFINE t == [s EXCEPT !.pc = "prepare", !.task = "knock"]
    <3>1. /\ t.pc = "prepare" /\ t.task = "knock" /\ t.todo = s.todo /\ t.op = s.op
          /\ t.live = s.live /\ t.pending = {}
      BY <1>1, <2>3 DEF Process
    <3> HIDE DEF t
    <3>2. Serving(t) = Serving(s) /\ t.todo = {} /\ Left(journal, t.live)
      BY <1>2, <2>0, <2>3, <3>1 DEF Serving, Alone, Sweeping
    <3>3. Alone(journal, t)
      BY <1>2, <3>1, <3>2 DEF Alone, Knocking, Sweeping
    <3> QED BY <3>3 DEF t
  <2>4. \/ \E o \in s.pending : Become(p, [s EXCEPT !.pc = "retire", !.op = o])
        \/ /\ s.pending = {}
           /\ Become(p, IF s.task = "queue" THEN [Rest(s) EXCEPT !.queued = FALSE]
                        ELSE [s EXCEPT !.pc = "prepare", !.task = "knock"])
    BY <1>10 DEF RetirePendingForResource
  <2> QED BY <2>1, <2>2, <2>3, <2>4
<1>11. CASE Retire(p)
  <2>0. s.pc = "retire" /\ s.op \in Ops
    BY <1>0, <1>11 DEF Retire, At, ProcsSound, Sound, Resting
  <2> DEFINE t == [s EXCEPT !.pc = "load"]
  <2>1. Alike(s, t) /\ t.pc \in Working
    BY <1>1 DEF Alike, Process, Working
  <2> HIDE DEF t
  <2>2. Alone(journal, t)
    <3>1. Steady(journal, journal, s)
      BY <1>2 DEF Steady, Alone
    <3> QED BY <1>2, <2>1, <3>1, WorkGoesOn
  <2>3. \/ journal[s.op] = Absent /\ Become(p, Succeed(s))
        \/ Become(p, t) \/ Become(p, Refuse(s)) \/ Become(p, Fail(s))
    BY <1>11 DEF Retire, t
  <2> QED BY <1>4, <2>0, <2>2, <2>3
<1>12. CASE Crash(p)
  <2>1. Become(p, Fresh)
    BY <1>12 DEF Crash
  <2>2. /\ Fresh.pc = "idle" /\ Fresh.task = "none" /\ Fresh.todo = {} /\ Fresh.op = NoOp
        /\ Fresh.live = {} /\ Fresh.pending = {}
    BY DEF Fresh
  <2>3. Serving(Fresh) = {}
    BY <2>2 DEF Serving
  <2>4. Alone(journal, Fresh)
    BY <2>2, <2>3 DEF Alone, Knocking, Sweeping
  <2> QED BY <2>1, <2>4
<1> QED BY <1>5, <1>6, <1>7, <1>8, <1>9, <1>10, <1>11, <1>12 DEF Retiring, Sweeping

--------------------------------------------------------------------------------
(***************************************************************************)
(* The admission itself: PrepareDispatch, the knock, RecordMapped and the  *)
(* tracking of the admission (admitOnce).                                  *)
(***************************************************************************)
\* A call that admits goes on with the same operation.
LEMMA KnockGoesOn ==
  ASSUME NEW j, NEW k, NEW s, NEW t, Alone(j, s), Steady(j, k, s), Alike(s, t),
         s.pc \in Knocking, t.pc \in Knocking \ {"prepare"},
         t.pc = "track" => k[s.op].status = "MAPPED"
  PROVE  Alone(k, t)
<1>1. t.pc \notin {"idle", "sweep", "pendings", "prepare"} /\ t.task = "knock"
  BY DEF Knocking, Alike, Alone
<1>2. Serving(t) = Serving(s)
  BY DEF Serving, Alike
<1> QED BY <1>1, <1>2 DEF Alone, Steady, Alike, Knocking

\* Only a new operation enters the journal, and only once everything that was
\* there before serves (PrepareDispatch).
LEMMA CreatingAlone ==
  ASSUME Sanity, Kept, Sole, Solitary, NEW p \in Procs, CreateOperation(p)
  PROVE  Solitary' /\ Left(journal, Serving(proc[p]))
<1> DEFINE s == proc[p]
           record == NewRecord(assigned, clock + Lifetime)
<1>0. ProcsSound /\ JournalSane
  BY DEF Sanity
<1>1. s \in Process /\ Alone(journal, s) /\ s.pc = "prepare"
  BY <1>0 DEF ProcsSound, Sound, Solitary, CreateOperation, At
<1>2. s.task = "knock" /\ Left(journal, s.live) /\ s.pending = {}
  BY <1>1 DEF Alone, Knocking
<1>3. Left(journal, Serving(s))
  BY <1>2 DEF Left, Serving
<1>4. CASE UNCHANGED journal /\ Become(p, Fail(s))
  <2>1. Steady(journal, journal', s)
    BY <1>1, <1>4 DEF Steady, Alone
  <2> QED BY <1>0, <1>1, <1>3, <1>4, <2>1, CallsEndAlone, OnlyOneMoves
<1>5. ASSUME NEW o \in Ops \ issued, journal' = [journal EXCEPT ![o] = record],
             \/ Become(p, [s EXCEPT !.pc = "dispatch", !.op = o, !.held = record])
             \/ Become(p, Fail(s))
      PROVE  Solitary'
  <2>1. o \notin Serving(s)
    <3>1. journal[o] = Absent
      BY DEF Kept, World, Answerable
    <3> QED BY <1>1, <3>1 DEF Alone, Absent
  <2>2. \A q \in Serving(s) : journal'[q].status = "MAPPED"
    <3>1. Serving(s) \subseteq Ops
      BY <1>1 DEF Serving, Process
    <3> QED BY <1>0, <1>1, <1>5, <2>1, <3>1 DEF Alone, JournalSane
  <2>3. Steady(journal, journal', s)
    BY <1>2, <2>2 DEF Steady
  <2> DEFINE t == [s EXCEPT !.pc = "dispatch", !.op = o, !.held = record]
  <2>4. /\ t.pc = "dispatch" /\ t.task = s.task /\ t.todo = s.todo /\ t.op = o
        /\ t.live = s.live /\ t.pending = s.pending
    BY <1>1 DEF Process
  <2> HIDE DEF t, record
  <2>5. Serving(t) = Serving(s)
    BY <2>4 DEF Serving
  <2>6. Alone(journal', t)
    BY <1>1, <1>2, <2>1, <2>2, <2>4, <2>5 DEF Alone, Knocking, Sweeping
  <2>7. Become(p, t) \/ Become(p, Fail(s))
    BY <1>5 DEF t
  <2> QED BY <1>0, <1>1, <2>3, <2>6, <2>7, CallsEndAlone, OnlyOneMoves
<1> QED BY <1>3, <1>4, <1>5 DEF CreateOperation, durable

\* The knock of the one admission goes from place to place with its operation.
LEMMA KnockingAlone ==
  ASSUME Sanity, Sole, Solitary, NEW p \in Procs,
         \/ PersistDispatching(p) \/ SendKnock(p) \/ KnockReturns(p)
         \/ RecordMapped(p) \/ TrackAdmission(p)
  PROVE  Solitary' /\ NothingNew
<1> DEFINE s == proc[p]
<1>0. ProcsSound /\ JournalSane
  BY DEF Sanity
<1>1. s \in Process /\ Alone(journal, s) /\ NoOp \notin Ops
  BY <1>0, OperationsAssumption DEF ProcsSound, Sound, Solitary
<1>2. /\ s.op \in Ops /\ s.pc \in Knocking /\ s.task = "knock"
  <2>1. s.pc \in Knocking \ {"prepare"}
    BY DEF PersistDispatching, SendKnock, KnockReturns, RecordMapped, TrackAdmission, At, Knocking
  <2> QED BY <1>0, <1>1, <2>1 DEF Alone, ProcsSound, Sound, Resting, Knocking
<1>3. ASSUME Steady(journal, journal', s), NEW t, Alike(s, t), t.pc \in Knocking \ {"prepare"},
             t.pc = "track" => journal'[s.op].status = "MAPPED", Become(p, t)
      PROVE  Solitary'
  BY <1>0, <1>1, <1>2, <1>3, KnockGoesOn, OnlyOneMoves
<1>4. ASSUME Steady(journal, journal', s), Become(p, Fail(s)) \/ Become(p, Cleanup(s))
      PROVE  Solitary'
  BY <1>0, <1>1, <1>2, <1>4, CallsEndAlone, OnlyOneMoves
<1>5. CASE PersistDispatching(p)
  <2> DEFINE next == [s.held EXCEPT !.status = "DISPATCHING"]
             t == [s EXCEPT !.pc = "knock", !.held = Absent]
  <2>1. Alike(s, t) /\ t.pc = "knock"
    BY <1>1 DEF Alike, Process
  <2>2. Write(p, next, t, Fail(s), Fail(s))
    BY <1>5 DEF PersistDispatching
  <2> HIDE DEF next, t
  <2>3. /\ Steady(journal, journal', s) /\ NothingNew
        /\ Become(p, t) \/ Become(p, Fail(s))
    BY <1>0, <1>1, <1>2, <2>2, WritesDisturbNothing
  <2> QED BY <1>3, <1>4, <2>1, <2>3 DEF Knocking
<1>6. ASSUME UNCHANGED journal PROVE Steady(journal, journal', s) /\ NothingNew
  BY <1>1, <1>6, LookingDisturbsNothing
<1>7. CASE SendKnock(p)
  <2> DEFINE t == [s EXCEPT !.pc = "knocking"]
  <2>1. Alike(s, t) /\ t.pc = "knocking" /\ Become(p, t) /\ UNCHANGED journal
    BY <1>1, <1>7 DEF Alike, Process, SendKnock, durable
  <2> HIDE DEF t
  <2> QED BY <1>3, <1>6, <2>1 DEF Knocking
<1>8. CASE KnockReturns(p)
  <2> DEFINE t == [s EXCEPT !.pc = "mapLoad"]
  <2>1. Alike(s, t) /\ t.pc = "mapLoad"
    BY <1>1 DEF Alike, Process
  <2>2. (Become(p, t) \/ Become(p, Cleanup(s))) /\ UNCHANGED journal
    BY <1>8 DEF KnockReturns, durable
  <2> HIDE DEF t
  <2> QED BY <1>3, <1>4, <1>6, <2>1, <2>2 DEF Knocking
<1>9. CASE RecordMapped(p)
  <2>1. CASE At(p, "mapLoad")
    <3> DEFINE t == [s EXCEPT !.pc = "mapWrite", !.held = journal[s.op]]
    <3>1. Alike(s, t) /\ t.pc = "mapWrite"
      BY <1>1 DEF Alike, Process
    <3>2. (Become(p, t) \/ Become(p, Cleanup(s))) /\ UNCHANGED journal
      BY <1>9, <2>1 DEF RecordMapped, durable, At
    <3> HIDE DEF t
    <3> QED BY <1>3, <1>4, <1>6, <3>1, <3>2 DEF Knocking
  <2>2. CASE At(p, "mapWrite")
    <3> DEFINE next == [s.held EXCEPT !.status = "MAPPED", !.admission = TRUE]
               t == [s EXCEPT !.pc = "track", !.held = Absent]
    <3>1. Alike(s, t) /\ t.pc = "track"
      BY <1>1 DEF Alike, Process
    <3>2. Write(p, next, t, Cleanup(s), Cleanup(s))
      BY <1>9, <2>2 DEF RecordMapped, At
    <3>3. next.status = "MAPPED"
      <4>1. s.held \in Record
        BY <1>0, <2>2 DEF ProcsSound, Sound, Sane, At, Holding
      <4> QED BY <4>1 DEF Record
    <3> HIDE DEF next, t
    <3>4. /\ Steady(journal, journal', s) /\ NothingNew
          /\ (Become(p, t) /\ journal'[s.op] = next) \/ Become(p, Cleanup(s))
      BY <1>0, <1>1, <1>2, <3>2, WritesDisturbNothing
    <3> QED BY <1>3, <1>4, <3>1, <3>3, <3>4 DEF Knocking
  <2> QED BY <1>9, <2>1, <2>2 DEF RecordMapped
<1>10. CASE TrackAdmission(p)
  <2>1. s.pc = "track" /\ UNCHANGED journal
    BY <1>10 DEF TrackAdmission, At, durable
  <2> DEFINE u == [s EXCEPT !.live = @ \union {s.op}]
             t == [u EXCEPT !.pc = "retire", !.task = "retire", !.pending = @ \union {u.op}]
  <2>2. Become(p, Rest(u)) \/ Become(p, t) \/ Become(p, Cleanup(s))
    BY <1>10 DEF TrackAdmission
  <2>3. /\ Rest(u).pc = "idle" /\ Rest(u).task = "none" /\ Rest(u).todo = {} /\ Rest(u).op = NoOp
        /\ Rest(u).live = s.live \union {s.op} /\ Rest(u).pending = s.pending
    BY <1>1 DEF Rest, Process
  <2>4. /\ t.pc = "retire" /\ t.task = "retire" /\ t.todo = s.todo /\ t.op = s.op
        /\ t.live = s.live \union {s.op} /\ t.pending = s.pending \union {s.op}
    BY <1>1 DEF Process
  <2>5. s.live \subseteq Ops /\ s.todo = {} /\ journal[s.op].status = "MAPPED"
    BY <1>1, <1>2, <2>1 DEF Alone, Process, Sweeping
  <2> HIDE DEF t, u
  <2>6. Serving(Rest(u)) \subseteq Serving(s) \union {s.op} /\ Serving(t) \subseteq Serving(s)
    BY <2>3, <2>4 DEF Serving
  <2>7. NoOp \notin Serving(Rest(u))
    BY <1>1, <1>2, <2>3, <2>5 DEF Serving
  <2>8. Alone(journal', Rest(u))
    BY <1>1, <2>1, <2>3, <2>5, <2>6, <2>7 DEF Alone, Knocking, Sweeping
  <2>9. Alone(journal', t)
    BY <1>1, <2>1, <2>4, <2>5, <2>6 DEF Alone, Knocking, Sweeping
  <2> QED BY <1>0, <1>4, <1>6, <2>1, <2>2, <2>8, <2>9, OnlyOneMoves
<1> QED BY <1>5, <1>7, <1>8, <1>9, <1>10

--------------------------------------------------------------------------------
(***************************************************************************)
(* RecoverOperation, and the environment.                                  *)
(***************************************************************************)
\* Whatever an authenticated answer makes of a recovery.
LEMMA AnsweredAlone ==
  ASSUME NEW j, NEW k, NEW s \in Process, Alone(j, s), Steady(j, k, s), NEW reply \in Replies
  PROVE  Alone(k, Answered(s, reply))
<1>1. Alone(k, Fail(s)) /\ Alone(k, Refuse(s))
  BY CallsEndAlone
<1>2. ASSUME NEW t, Alike(s, t), t.pc \in Working PROVE Alone(k, t)
  BY <1>2, WorkGoesOn
<1>3. ASSUME NEW pc \in Working, NEW r
      PROVE  Alone(k, [s EXCEPT !.pc = pc, !.reply = r, !.moved = Absent])
  <2> DEFINE t == [s EXCEPT !.pc = pc, !.reply = r, !.moved = Absent]
  <2>1. Alike(s, t) /\ t.pc \in Working
    BY DEF Alike, Process
  <2> HIDE DEF t
  <2>2. Alone(k, t)
    BY <1>2, <2>1
  <2> QED BY <2>2 DEF t
<1>4. Alone(k, Reload(s))
  <2>1. Alike(s, Reload(s)) /\ Reload(s).pc \in Working
    BY DEF Alike, Process, Reload, Working
  <2> QED BY <1>2, <2>1
<1> QED BY <1>1, <1>3, <1>4 DEF Answered, Working

\* What recovery works on stays a single admission and its operations.
LEMMA RecoveringAlone ==
  ASSUME Sanity, Sole, Solitary, NEW p \in Procs, Recovering(p),
         ~RecoverNext(p), ~RecoverPendingEnds(p)
  PROVE  Solitary' /\ NothingNew
<1> DEFINE s == proc[p]
<1>0. ProcsSound /\ JournalSane
  BY DEF Sanity
<1>1. /\ s \in Process /\ Alone(journal, s)
      /\ s.pc \in Holding => s.held \in Record
      /\ s.pc \in {"load"} \union Holding => s.op \in Ops
  BY <1>0 DEF ProcsSound, Sound, Sane, Solitary, Resting, Holding
<1>2. ASSUME UNCHANGED journal PROVE Steady(journal, journal', s) /\ NothingNew
  BY <1>1, <1>2, LookingDisturbsNothing
<1>3. ASSUME Steady(journal, journal', s), NEW t, Alike(s, t), t.pc \in Working, Become(p, t)
      PROVE  Solitary'
  BY <1>0, <1>1, <1>3, WorkGoesOn, OnlyOneMoves
<1>4. ASSUME Steady(journal, journal', s), Become(p, Fail(s)) \/ Become(p, Refuse(s))
      PROVE  Solitary'
  BY <1>0, <1>1, <1>4, CallsEndAlone, OnlyOneMoves
<1>5. ASSUME Steady(journal, journal', s), s.op \in Ops, journal'[s.op] = Absent, Become(p, Succeed(s))
      PROVE  Solitary'
  BY <1>0, <1>1, <1>5, CallsEndAlone, OnlyOneMoves
<1>6. Alike(s, Reconcile(s)) /\ Reconcile(s).pc \in Working
  BY <1>1 DEF Alike, Process, Reconcile, Working
<1>7. Alike(s, Reload(s)) /\ Reload(s).pc \in Working
  BY <1>1 DEF Alike, Process, Reload, Working
<1>8. ASSUME NEW next, NEW t, s.op \in Ops, Alike(s, t), t.pc \in Working,
             NEW lost, lost = Reconcile(s) \/ lost = Refuse(s),
             Write(p, next, t, lost, Fail(s))
      PROVE  Solitary' /\ NothingNew
  <2>1. /\ Steady(journal, journal', s) /\ NothingNew
        /\ Become(p, t) \/ Become(p, lost) \/ Become(p, Fail(s))
    BY <1>0, <1>1, <1>8, WritesDisturbNothing
  <2> QED BY <1>3, <1>4, <1>6, <1>8, <2>1
<1>9. CASE LoadOperation(p)
  <2>1. s.op \in Ops /\ UNCHANGED journal
    BY <1>1, <1>9 DEF LoadOperation, At, durable
  <2>2. ASSUME NEW pc \in Working, Become(p, [s EXCEPT !.pc = pc, !.held = journal[s.op]])
        PROVE  Solitary'
    <3> DEFINE t == [s EXCEPT !.pc = pc, !.held = journal[s.op]]
    <3>1. Alike(s, t) /\ t.pc \in Working
      BY <1>1 DEF Alike, Process
    <3>2. Become(p, t)
      BY <2>2
    <3> HIDE DEF t
    <3> QED BY <1>2, <1>3, <2>1, <3>1, <3>2
  <2>3. \/ journal[s.op] = Absent /\ Become(p, Succeed(s))
        \/ \E pc \in {"delete", "cancel", "closing", "gate"} :
              Become(p, [s EXCEPT !.pc = pc, !.held = journal[s.op]])
        \/ Become(p, Fail(s))
    BY <1>9 DEF LoadOperation
  <2>4. {"delete", "cancel", "closing", "gate"} \subseteq Working
    BY DEF Working
  <2> QED BY <1>2, <1>4, <1>5, <2>1, <2>2, <2>3, <2>4
<1>10. ASSUME NEW from, NEW status, NEW pc \in Working, from \in Holding, MoveTo(p, from, status, pc)
       PROVE  Solitary' /\ NothingNew
  <2> DEFINE next == [s.held EXCEPT !.status = status]
             t == [s EXCEPT !.pc = pc, !.held = next]
  <2>1. Alike(s, t) /\ t.pc \in Working
    BY <1>1 DEF Alike, Process
  <2>2. Write(p, next, t, Reconcile(s), Fail(s)) /\ s.op \in Ops
    BY <1>1, <1>10 DEF MoveTo, At
  <2> HIDE DEF next, t
  <2> QED BY <1>8, <2>1, <2>2
<1>11. CASE CancelPrepared(p) \/ CloseMapped(p)
  BY <1>10, <1>11 DEF CancelPrepared, CloseMapped, Holding, Working
<1>12. CASE DeleteTerminal(p)
  <2>1. s.op \in Ops /\ Write(p, Absent, Succeed(s), Reconcile(s), Fail(s))
    BY <1>1, <1>12 DEF DeleteTerminal, At, Holding
  <2>2. /\ Steady(journal, journal', s) /\ NothingNew
        /\ \/ Become(p, Succeed(s)) /\ journal'[s.op] = Absent
           \/ Become(p, Reconcile(s))
           \/ Become(p, Fail(s))
    BY <1>0, <1>1, <2>1, WritesDisturbNothing
  <2> QED BY <1>3, <1>4, <1>5, <1>6, <2>1, <2>2
<1>13. CASE AwaitDeadline(p)
  <2> DEFINE t == [s EXCEPT !.pc = "attempt"]
  <2>1. Alike(s, t) /\ t.pc \in Working
    BY <1>1 DEF Alike, Process, Working
  <2>2. (Become(p, t) \/ Become(p, Fail(s))) /\ UNCHANGED journal
    BY <1>13 DEF AwaitDeadline, durable
  <2> HIDE DEF t
  <2> QED BY <1>2, <1>3, <1>4, <2>1, <2>2
<1>14. CASE CountAttempt(p)
  <2> DEFINE n == s.held.attempt + 1
             next == [s.held EXCEPT !.attempt = n, !.notBefore = Later(s.held, RecoveryBackoff[n])]
             t == [s EXCEPT !.pc = "exchange", !.held = next]
  <2>1. Alike(s, t) /\ t.pc \in Working
    BY <1>1 DEF Alike, Process, Working
  <2>2. \/ Write(p, next, t, Reconcile(s), Fail(s))
        \/ Become(p, Fail(s)) /\ UNCHANGED journal
    BY <1>14 DEF CountAttempt
  <2>3. s.op \in Ops
    BY <1>1, <1>14 DEF CountAttempt, At, Holding
  <2> HIDE DEF next, t
  <2> QED BY <1>2, <1>4, <1>8, <2>1, <2>2, <2>3
<1>15. CASE ExchangePinned(p)
  <2>1. UNCHANGED journal
    BY <1>15 DEF ExchangePinned, durable
  <2>2. ASSUME NEW reply, Become(p, [s EXCEPT !.pc = "silent", !.reply = reply]) PROVE Solitary'
    <3> DEFINE t == [s EXCEPT !.pc = "silent", !.reply = reply]
    <3>1. Alike(s, t) /\ t.pc \in Working /\ Become(p, t)
      BY <1>1, <2>2 DEF Alike, Process, Working
    <3> HIDE DEF t
    <3> QED BY <1>2, <1>3, <2>1, <3>1
  <2>3. ASSUME NEW reply \in Replies, Become(p, Answered(s, reply)) PROVE Solitary'
    BY <1>0, <1>1, <1>2, <2>1, <2>3, AnsweredAlone, OnlyOneMoves
  <2>4. \/ \E reply \in Replies : Become(p, Answered(s, reply))
        \/ \E reply \in {"silent", "unsent"} : Become(p, [s EXCEPT !.pc = "silent", !.reply = reply])
        \/ Become(p, Fail(s))
    BY <1>15 DEF ExchangePinned
  <2> QED BY <1>2, <1>4, <2>1, <2>2, <2>3, <2>4
<1>16. CASE ExchangeRefenced(p)
  <2>1. UNCHANGED journal
    BY <1>16 DEF ExchangeRefenced, durable
  <2> DEFINE quiet == [s EXCEPT !.pc = "count", !.reply = "none"]
             Repinned(reply) == [s EXCEPT !.pc = "pin", !.reply = reply,
                                          !.moved = [s.held EXCEPT !.endpoint = assigned]]
  <2>2. Alike(s, quiet) /\ quiet.pc \in Working
    BY <1>1 DEF Alike, Process, Working
  <2>3. \A reply \in Replies : Alike(s, Repinned(reply)) /\ Repinned(reply).pc \in Working
    BY <1>1 DEF Alike, Process, Working
  <2>4. \/ \E reply \in Replies : Become(p, Repinned(reply))
        \/ Become(p, quiet) \/ Become(p, Fail(s))
    BY <1>16 DEF ExchangeRefenced
  <2> HIDE DEF quiet, Repinned
  <2> QED BY <1>2, <1>3, <1>4, <2>1, <2>2, <2>3, <2>4
<1>17. CASE PinEndpoint(p)
  <2> DEFINE u == [s EXCEPT !.held = s.moved]
             lost == IF s.reply = "admitted" THEN Refuse(s) ELSE Reconcile(s)
  <2>1. s.op \in Ops /\ s.moved \in Record /\ s.reply \in Replies /\ s.pc = "pin"
    BY <1>0, <1>1, <1>17 DEF PinEndpoint, At, Holding, ProcsSound, Sound, Sane, Process
  <2>2. u \in Process /\ Alike(s, u) /\ u.pc \in Working
    BY <1>1, <2>1 DEF Process, Alike, Working
  <2>3. Write(p, s.moved, Answered(u, s.reply), lost, Fail(s))
    BY <1>17 DEF PinEndpoint
  <2> HIDE DEF u, lost
  <2>4. /\ Steady(journal, journal', s) /\ NothingNew
        /\ Become(p, Answered(u, s.reply)) \/ Become(p, lost) \/ Become(p, Fail(s))
    BY <1>0, <1>1, <2>1, <2>3, WritesDisturbNothing
  <2>5. Alone(journal', u) /\ Steady(journal', journal', u)
    <3>1. Alone(journal', u)
      BY <1>1, <2>2, <2>4, WorkGoesOn
    <3> QED BY <3>1 DEF Steady, Alone
  <2>6. Alone(journal', Answered(u, s.reply))
    BY <2>1, <2>2, <2>5, AnsweredAlone
  <2>7. CASE Become(p, lost)
    BY <1>3, <1>4, <1>6, <2>4, <2>7 DEF lost
  <2> QED BY <1>0, <1>4, <2>4, <2>6, <2>7, OnlyOneMoves
<1>18. CASE MapUnexpected(p)
  <2> DEFINE next == [s.held EXCEPT !.status = "MAPPED", !.admission = TRUE]
  <2>1. \/ Write(p, next, Reload(s), Refuse(s), Fail(s))
        \/ Become(p, Refuse(s)) /\ UNCHANGED journal
    BY <1>18 DEF MapUnexpected
  <2>2. s.op \in Ops
    BY <1>1, <1>18 DEF MapUnexpected, At, Holding
  <2> HIDE DEF next
  <2> QED BY <1>2, <1>4, <1>7, <1>8, <2>1, <2>2
<1>19. CASE CountNoReply(p)
  <2> DEFINE n == s.held.noReply + 1
             next == [s.held EXCEPT !.noReply = n, !.notBefore = Later(s.held, NoReplyBackoff[n])]
             giveUp == [s EXCEPT !.pc = "finish", !.held = next, !.reply = "silent"]
             done == IF n < AbandonAttempts THEN Fail(s) ELSE giveUp
  <2>1. s.op \in Ops
    BY <1>1, <1>19 DEF CountNoReply, At, Holding
  <2>2. Alike(s, giveUp) /\ giveUp.pc \in Working
    BY <1>1 DEF Alike, Process, Working
  <2>3. \/ Write(p, next, done, Reconcile(s), Fail(s))
        \/ Become(p, Fail(s)) /\ UNCHANGED journal
    BY <1>19 DEF CountNoReply
  <2>4. done = Fail(s) \/ done = giveUp
    OBVIOUS
  <2> HIDE DEF next, giveUp, done
  <2>5. ASSUME Write(p, next, done, Reconcile(s), Fail(s)) PROVE Solitary' /\ NothingNew
    <3>1. /\ Steady(journal, journal', s) /\ NothingNew
          /\ Become(p, done) \/ Become(p, Reconcile(s)) \/ Become(p, Fail(s))
      BY <1>0, <1>1, <2>1, <2>5, WritesDisturbNothing
    <3> QED BY <1>3, <1>4, <1>6, <2>2, <2>4, <3>1
  <2> QED BY <1>2, <1>4, <2>3, <2>5
<1>20. CASE FinishOperation(p)
  <2> DEFINE next == [s.held EXCEPT !.status = IF s.held.admission THEN "CLOSED" ELSE "CANCELED"]
             t == [s EXCEPT !.pc = "delete", !.held = next, !.reply = "none"]
  <2>1. Alike(s, t) /\ t.pc \in Working
    BY <1>1 DEF Alike, Process, Working
  <2>2. Write(p, next, t, Reconcile(s), Fail(s)) /\ s.op \in Ops
    BY <1>1, <1>20 DEF FinishOperation, At, Holding
  <2> HIDE DEF next, t
  <2> QED BY <1>8, <2>1, <2>2
<1>21. CASE ReconcileConflict(p)
  <2>1. s.op \in Ops /\ UNCHANGED journal
    BY <1>1, <1>21 DEF ReconcileConflict, At, Holding, durable
  <2>2. \/ journal[s.op] = Absent /\ Become(p, Succeed(s))
        \/ Become(p, Reload(s)) \/ Become(p, Refuse(s)) \/ Become(p, Fail(s))
    BY <1>21 DEF ReconcileConflict
  <2> QED BY <1>2, <1>3, <1>4, <1>5, <1>7, <2>1, <2>2
<1> QED BY <1>9, <1>11, <1>12, <1>13, <1>14, <1>15, <1>16, <1>17, <1>18, <1>19, <1>20, <1>21 DEF Recovering

\* The network, the server and the clock do not write the journal.
LEMMA EnvironmentAlone ==
  ASSUME Solitary, Environment \/ UNCHANGED vars
  PROVE  Solitary' /\ NothingNew
<1>1. UNCHANGED <<journal, proc>>
  BY DEF Environment, KnockArrives, RollEndpoint, RenewAssignment, DeleteResource, Tick, Settle,
         CorrectClock, durable, vars
<1> QED BY <1>1 DEF Solitary, Alone, Left, NothingNew

--------------------------------------------------------------------------------
\* What ReplacementWaits says of a step.
Waited ==
  (\E o \in Ops : journal[o] = Absent /\ journal'[o] # Absent) =>
    \A p \in Procs, o \in Ops : journal[o] # Absent => o \in proc[p].live \ proc[p].pending

\* Every step keeps the one process alone with the journal, and creates an
\* operation only where every other one serves.
LEMMA StepAlone ==
  ASSUME Sole, Sanity, Kept, Solitary, [Next]_vars
  PROVE  Solitary' /\ Waited
<1>1. ASSUME NEW p \in Procs, CreateOperation(p) PROVE Solitary' /\ Waited
  <2>1. Solitary' /\ Left(journal, Serving(proc[p]))
    BY <1>1, CreatingAlone
  <2>2. \A q \in Procs : q = p
    BY DEF Sole
  <2> QED BY <2>1, <2>2 DEF Waited, Left, Serving
<1>2. ASSUME Solitary' /\ NothingNew PROVE Solitary' /\ Waited
  BY <1>2 DEF Waited, NothingNew
<1>3. ASSUME NEW p \in Procs, Admitting(p) PROVE Solitary' /\ Waited
  BY <1>1, <1>2, <1>3, PassesAlone, KnockingAlone DEF Admitting
<1>4. ASSUME NEW p \in Procs, Recovering(p) PROVE Solitary' /\ Waited
  BY <1>2, <1>4, PassesAlone, RecoveringAlone
<1>5. ASSUME NEW p \in Procs, Retiring(p) \/ RecoverPending(p, "orphans") \/ Crash(p)
      PROVE  Solitary' /\ Waited
  BY <1>2, <1>5, PassesAlone
<1>6. CASE Environment \/ UNCHANGED vars
  BY <1>2, <1>6, EnvironmentAlone
<1> QED BY <1>3, <1>4, <1>5, <1>6 DEF Next

\* A process that has just started has nothing.
LEMMA InitAlone == Init => Solitary
<1> SUFFICES ASSUME Init, NEW p \in Procs PROVE Alone(journal, Fresh)
  BY DEF Init, Solitary
<1>1. /\ Fresh.pc = "idle" /\ Fresh.task = "none" /\ Fresh.todo = {} /\ Fresh.op = NoOp
      /\ Fresh.live = {} /\ Fresh.pending = {}
  BY DEF Fresh
<1>2. Serving(Fresh) = {}
  BY <1>1 DEF Serving
<1> QED BY <1>1, <1>2 DEF Alone, Knocking, Sweeping

\* A connector that is the only one on its journal stays alone with it.
LEMMA SolitaryHolds == Spec => [](Sole => Solitary)
<1>1. Init => (Sole => Solitary)
  BY InitAlone
<1>2. Sanity /\ Kept /\ (Sole => Solitary) /\ [Next]_vars => (Sole => Solitary)'
  BY StepAlone DEF Sole
<1> QED BY <1>1, <1>2, SanityHolds, KeptHolds, PTL DEF Spec

\* The sweep of RecoverPending skips live admissions, retirements touch only
\* what was asked for, and everything in between works on a new operation: an
\* admission that serves stays MAPPED whatever fails, crashes or is retried.
THEOREM LiveStaysUndisturbed == Spec => []LiveUndisturbed
<1>1. (Sole => Solitary) => LiveUndisturbed
  BY DEF Solitary, Alone, Serving, LiveUndisturbed
<1> QED BY <1>1, SolitaryHolds, PTL

\* admitOnce reaches PrepareDispatch only through a recovery that left nothing
\* behind but live admissions and through the retirement of every pending one.
THEOREM ReplacementsWait == Spec => ReplacementWaits
<1>1. Sanity /\ Kept /\ (Sole => Solitary) /\ [Next]_vars => [Sole => Waited]_vars
  BY StepAlone
<1>2. Spec => [][Sole => Waited]_vars
  BY <1>1, SanityHolds, KeptHolds, SolitaryHolds, PTL DEF Spec
<1>3. [Sole => Waited]_vars
       => [Sole =>
            ((\E o \in Ops : journal[o] = Absent /\ journal'[o] # Absent) =>
              \A p \in Procs, o \in Ops :
                journal[o] # Absent => o \in proc[p].live \ proc[p].pending)]_vars
  BY DEF Waited
<1> QED BY <1>2, <1>3, PTL DEF ReplacementWaits

================================================================================
