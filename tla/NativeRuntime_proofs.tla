------------------------- MODULE NativeRuntime_proofs -------------------------
(***************************************************************************)
(* Theorems about NativeRuntime, for every finite set of resources, every  *)
(* set of configurations and faults, every threshold and every bound.      *)
(***************************************************************************)
EXTENDS NativeRuntime, TLAPS

--------------------------------------------------------------------------------
(***************************************************************************)
(* Shapes.                                                                 *)
(***************************************************************************)
Pcs ==
  {"down", "load", "warm", "handed", "refresh", "hub", "handoff", "recover", "register",
   "opened", "serving"}
Openings == [pc: Pcs, kind: {"none", "warm", "refresh", "recovery", "registration"}, tried: BOOLEAN]
Admitters == [fresh: BOOLEAN, gen: {0, 1}, closed: BOOLEAN, cancelled: BOOLEAN]

ReplacePcs == {"request", "attempt", "hub", "handoff", "lock", "queued"}
CallSet ==
  [pc: ReplacePcs \union {"idle", "in", "refresh", "mu", "done"},
   job: {"none", "admit", "retire", "again", "check", "clear"},
   current: BOOLEAN, immediate: BOOLEAN]
Credits == [n: Nat, used: BOOLEAN]

LockShape == lock = [readers |-> lock.readers, waiting |-> lock.waiting, writers |-> lock.writers]

Shapes ==
  /\ open \in Openings /\ admitter \in Admitters /\ calls \in [Callers -> CallSet]
  /\ LockShape
  /\ fails \in [Resources -> Credits] /\ hasty \in [Resources -> {0, 1}]

--------------------------------------------------------------------------------
(***************************************************************************)
(* Who holds what while the admitter serves.                               *)
(***************************************************************************)
\* Before it serves and after it is gone nobody is in it.
Quiescent ==
  ~At("serving") =>
    /\ calls = [a \in Callers |-> NoCall] /\ lock = Unlocked /\ mu = Nobody
    /\ hasty = [r \in Resources |-> 0]

\* The readers of runtimeMu, inside or kept out, are calls that say so.
Inside ==
  /\ \A a \in lock.readers \union lock.waiting : a \in Callers /\ calls[a].pc = "in"
  /\ lock.readers \intersect lock.waiting = {}

\* A call from its check of the generation to the swap.
Refreshes(c) == c.pc \in ReplacePcs \/ (c.pc = "in" /\ c.job = "check")

\* What a call of a has if it is c: refreshMu, and the generation it replaces.
Owns(a, c) ==
  /\ a \in Resources => (Refreshes(c) => mu = a) /\ (c.pc \in ReplacePcs => c.current)
  /\ a = Health => (c.pc = "in" => mu = Health)
  /\ a = Closer => (c.pc = "queued" => mu = Closer)

OneRefresh == \A a \in Callers : Owns(a, calls[a])

\* The immediate refresh of a resource: claimed by a call that has not had it, or
\* used up.  Once the admitter is closed nobody claims another.
Credited(r, c) ==
  /\ c.immediate => hasty[r] = 0
  /\ ~admitter.closed => (c.immediate => fails[r].used) /\ (~fails[r].used => hasty[r] = 0)

OneCredit == \A r \in Resources : Credited(r, calls[r])

Ruled == Shapes /\ Quiescent /\ Inside /\ OneRefresh /\ OneCredit

--------------------------------------------------------------------------------
\* The callers are told apart.
LEMMA CallersDiffer ==
  /\ Health \notin Resources /\ Closer \notin Resources /\ Nobody \notin Callers
  /\ Health # Closer /\ Callers = Resources \union {Health, Closer}
BY RuntimeAssumption DEF Callers

\* How a step of a's call may change runtimeMu's readers.
LockMoves(a, c) ==
  /\ LockShape'
  /\ \A x \in lock'.readers \union lock'.waiting :
       \/ x \in lock.readers \union lock.waiting /\ x # a
       \/ x = a /\ c.pc = "in"
  /\ lock'.readers \intersect lock'.waiting = {}

\* ... and refreshMu.
MuMoves(a) == mu' = mu \/ (mu = Nobody /\ mu' = a) \/ (mu = a /\ mu' = Nobody)

\* A step of one call.
LEMMA CallMoves ==
  ASSUME Ruled, NEW a \in Callers, NEW c \in CallSet, open' = open, At("serving"),
         admitter' \in Admitters, admitter'.closed = admitter.closed,
         calls' = [calls EXCEPT ![a] = c],
         LockMoves(a, c), MuMoves(a), Owns(a, c)',
         fails' \in [Resources -> Credits], hasty' \in [Resources -> {0, 1}],
         \A r \in Resources : r # a => fails'[r].used = fails[r].used /\ hasty'[r] = hasty[r],
         a \in Resources => Credited(a, c)'
  PROVE  Ruled'
<1>1. calls \in [Callers -> CallSet]
  BY DEF Ruled, Shapes
<1>2. calls' \in [Callers -> CallSet] /\ calls'[a] = c /\ \A x \in Callers : x # a => calls'[x] = calls[x]
  BY <1>1
<1>3. Shapes'
  BY <1>2 DEF Ruled, Shapes, LockMoves
<1>4. Quiescent'
  BY DEF Quiescent, At
<1>5. Inside'
  BY <1>2 DEF Ruled, Inside, LockMoves
<1>6. OneRefresh'
  <2>1. ASSUME NEW x \in Callers, x # a
        PROVE  Owns(x, calls[x])'
    <3>1. Owns(x, calls[x]) /\ calls'[x] = calls[x]
      BY <1>2, <2>1 DEF Ruled, OneRefresh
    <3>2. x # Nobody
      BY CallersDiffer
    <3> QED BY <2>1, <3>1, <3>2 DEF Owns, MuMoves
  <2>2. Owns(a, calls[a])'
    BY <1>2 DEF Owns
  <2> QED BY <2>1, <2>2 DEF OneRefresh
<1>7. OneCredit'
  <2>1. ASSUME NEW x \in Resources
        PROVE  Credited(x, calls[x])'
    <3>1. CASE x = a
      BY <1>2, <3>1 DEF Credited
    <3>2. CASE x # a
      BY <1>2, <3>2 DEF Ruled, OneCredit, Credited, Callers
    <3> QED BY <3>1, <3>2
  <2> QED BY <2>1 DEF OneCredit
<1> QED BY <1>3, <1>4, <1>5, <1>6, <1>7 DEF Ruled

\* Taking and leaving runtimeMu, one call at a time.
LEMMA LockSteps ==
  ASSUME Ruled, NEW a, NEW c
  PROVE  /\ lock' = lock /\ calls[a].pc # "in" => LockMoves(a, c)
         /\ lock' = ReadLocked(lock, a) /\ calls[a].pc # "in" /\ c.pc = "in" => LockMoves(a, c)
         /\ lock' = ReadUnlocked(lock, a) /\ a \in lock.readers => LockMoves(a, c)
         /\ lock' = ReadLocked(ReadUnlocked(lock, a), a) /\ a \in lock.readers /\ c.pc = "in"
              => LockMoves(a, c)
         /\ lock' = WriteUnlocked(lock) /\ calls[a].pc # "in" => LockMoves(a, c)
         /\ lock' = ReadLocked(WriteUnlocked(lock), a) /\ calls[a].pc # "in" /\ c.pc = "in"
              => LockMoves(a, c)
         /\ calls[a].pc # "in" /\ (\E w : lock' = [lock EXCEPT !.writers = w]) => LockMoves(a, c)
<1> DEFINE R == lock.readers  W == lock.waiting  Q == lock.writers
<1>1. lock = [readers |-> R, waiting |-> W, writers |-> Q] /\ R \intersect W = {}
      /\ (calls[a].pc # "in" => a \notin R /\ a \notin W)
  BY DEF Ruled, Shapes, LockShape, Inside
<1>2. ASSUME lock' = lock, calls[a].pc # "in"
      PROVE  LockMoves(a, c)
  BY <1>1, <1>2 DEF LockMoves, LockShape
<1>3. ASSUME NEW l, l = [readers |-> l.readers, waiting |-> l.waiting, writers |-> l.writers],
             lock' = ReadLocked(l, a), c.pc = "in",
             \/ l.readers \subseteq R \ {a} /\ l.waiting \subseteq W \ {a}
             \/ l.readers \subseteq W \ {a} /\ l.waiting = {}
      PROVE  LockMoves(a, c)
  <2>1. CASE l.writers = <<>>
    <3>1. lock' = [readers |-> l.readers \union {a}, waiting |-> l.waiting, writers |-> l.writers]
      BY <1>3, <2>1 DEF ReadLocked
    <3> QED BY <1>1, <1>3, <3>1 DEF LockMoves, LockShape
  <2>2. CASE l.writers # <<>>
    <3>1. lock' = [readers |-> l.readers, waiting |-> l.waiting \union {a}, writers |-> l.writers]
      BY <1>3, <2>2 DEF ReadLocked
    <3> QED BY <1>1, <1>3, <3>1 DEF LockMoves, LockShape
  <2> QED BY <2>1, <2>2
<1>4. ReadUnlocked(lock, a) = [readers |-> R \ {a}, waiting |-> W, writers |-> Q]
      /\ WriteUnlocked(lock) = [readers |-> W, waiting |-> {}, writers |-> Tail(Q)]
  BY <1>1 DEF ReadUnlocked, WriteUnlocked
<1>5. ASSUME lock' = ReadUnlocked(lock, a), a \in R
      PROVE  LockMoves(a, c)
  BY <1>1, <1>4, <1>5 DEF LockMoves, LockShape
<1>6. ASSUME lock' = WriteUnlocked(lock), calls[a].pc # "in"
      PROVE  LockMoves(a, c)
  BY <1>1, <1>4, <1>6 DEF LockMoves, LockShape
<1>7. ASSUME NEW w, lock' = [lock EXCEPT !.writers = w], calls[a].pc # "in"
      PROVE  LockMoves(a, c)
  <2>1. lock' = [readers |-> R, waiting |-> W, writers |-> w]
    BY <1>1, <1>7
  <2> QED BY <1>1, <1>7, <2>1 DEF LockMoves, LockShape
<1>8. ASSUME lock' = ReadLocked(lock, a), calls[a].pc # "in", c.pc = "in"
      PROVE  LockMoves(a, c)
  <2>1. lock = [readers |-> lock.readers, waiting |-> lock.waiting, writers |-> lock.writers]
        /\ lock.readers \subseteq R \ {a} /\ lock.waiting \subseteq W \ {a}
    BY <1>1, <1>8
  <2> HIDE DEF R, W, Q
  <2> QED BY <1>3, <1>8, <2>1
<1>9. ASSUME lock' = ReadLocked(ReadUnlocked(lock, a), a), a \in R, c.pc = "in"
      PROVE  LockMoves(a, c)
  <2> DEFINE l == ReadUnlocked(lock, a)
  <2>1. l = [readers |-> l.readers, waiting |-> l.waiting, writers |-> l.writers]
        /\ l.readers \subseteq R \ {a} /\ l.waiting \subseteq W \ {a}
    BY <1>1, <1>4, <1>9
  <2> HIDE DEF l, R, W, Q
  <2> QED BY <1>3, <1>9, <2>1 DEF l
<1>10. ASSUME lock' = ReadLocked(WriteUnlocked(lock), a), calls[a].pc # "in", c.pc = "in"
       PROVE  LockMoves(a, c)
  <2> DEFINE l == WriteUnlocked(lock)
  <2>1. l = [readers |-> l.readers, waiting |-> l.waiting, writers |-> l.writers]
        /\ l.readers \subseteq W \ {a} /\ l.waiting = {}
    BY <1>1, <1>4, <1>10
  <2> HIDE DEF l, R, W, Q
  <2> QED BY <1>3, <1>10, <2>1 DEF l
<1> QED BY <1>2, <1>5, <1>6, <1>7, <1>8, <1>9, <1>10

--------------------------------------------------------------------------------
(***************************************************************************)
(* The calls of a resource.                                                *)
(***************************************************************************)
\* What Ruled says of one caller.
LEMMA CallFacts ==
  ASSUME Ruled, NEW r \in Callers
  PROVE  /\ calls[r] \in CallSet
         /\ r \in Resources => fails[r] \in Credits /\ hasty[r] \in {0, 1} /\ Credited(r, calls[r])
         /\ admitter \in Admitters
         /\ calls[r].pc # "idle" => At("serving")
         /\ r \in lock.readers => calls[r].pc = "in"
         /\ Owns(r, calls[r])
<1>1. calls[r].pc # "idle" => At("serving")
  BY DEF Ruled, Quiescent, NoCall
<1> QED BY <1>1 DEF Ruled, Shapes, Inside, OneRefresh, OneCredit

\* A step that claims no refresh and uses none up.
LEMMA PlainMoves ==
  ASSUME Ruled, NEW a \in Callers, NEW c \in CallSet, c.immediate => calls[a].immediate,
         UNCHANGED <<open, admitter, fails, hasty>>, At("serving"),
         calls' = [calls EXCEPT ![a] = c], LockMoves(a, c), MuMoves(a), Owns(a, c)'
  PROVE  Ruled'
<1>1. a \in Resources => Credited(a, c)'
  BY CallFacts DEF Credited
<1>2. admitter' \in Admitters /\ fails' \in [Resources -> Credits] /\ hasty' \in [Resources -> {0, 1}]
  BY DEF Ruled, Shapes
<1> QED BY <1>1, <1>2, CallMoves

\* A call that ends.
LEMMA NoCallIs ==
  /\ NoCall \in CallSet /\ ~NoCall.immediate /\ NoCall.pc = "idle" /\ \A a \in Callers : Owns(a, NoCall)'
BY CallersDiffer DEF NoCall, CallSet, Owns, Refreshes, ReplacePcs

\* A call inside the lock.
LEMMA InLockIs ==
  ASSUME NEW job \in {"admit", "retire", "again", "clear"}
  PROVE  LET c == [NoCall EXCEPT !.pc = "in", !.job = job]
         IN  c \in CallSet /\ ~c.immediate /\ c.pc = "in" /\ c.job = job
BY DEF CallSet, NoCall

\* ... that is not a check of the generation.
LEMMA JobIs ==
  ASSUME NEW job \in {"admit", "retire", "again"}, NEW r \in Resources
  PROVE  LET c == [NoCall EXCEPT !.pc = "in", !.job = job]
         IN  c \in CallSet /\ ~c.immediate /\ c.pc = "in" /\ Owns(r, c)'
<1> DEFINE c == [NoCall EXCEPT !.pc = "in", !.job = job]
<1>1. c \in CallSet /\ ~c.immediate /\ c.pc = "in" /\ c.job = job
  BY InLockIs
<1> HIDE DEF c
<1>2. Owns(r, c)'
  BY <1>1, CallersDiffer DEF Owns, Refreshes, ReplacePcs
<1> QED BY <1>1, <1>2 DEF c

\* A call enters runtimeMu (Admit, Retire).
LEMMA BeginRules ==
  ASSUME Ruled, NEW r \in Resources, NEW job \in {"admit", "retire"}, Begin(r, job)
  PROVE  Ruled'
<1> DEFINE c == [NoCall EXCEPT !.pc = "in", !.job = job]
<1>1. At("serving") /\ calls[r].pc = "idle" /\ UNCHANGED <<open, admitter, mu, fails, hasty>>
      /\ calls' = [calls EXCEPT ![r] = c] /\ lock' = ReadLocked(lock, r)
  BY DEF Begin, Call, opening, admissions
<1>2. c \in CallSet /\ ~c.immediate /\ c.pc = "in" /\ Owns(r, c)'
  BY JobIs
<1> HIDE DEF c
<1>3. LockMoves(r, c) /\ MuMoves(r) /\ r \in Callers
  BY <1>1, <1>2, LockSteps DEF MuMoves, Callers
<1> QED BY <1>1, <1>2, <1>3, PlainMoves

\* An admission and its outcomes.
LEMMA AdmitRules ==
  ASSUME Ruled, NEW r \in Resources, AdmitEnds(r)
  PROVE  Ruled'
<1>1. r \in lock.readers /\ UNCHANGED <<open, admitter, mu>> /\ r \in Callers
  BY DEF AdmitEnds, In, opening, Callers
<1>2. At("serving") /\ calls[r] \in CallSet /\ fails[r] \in Credits /\ hasty[r] \in {0, 1}
      /\ Credited(r, calls[r]) /\ admitter \in Admitters
  BY <1>1, CallFacts
<1>3. fails \in [Resources -> Credits] /\ hasty \in [Resources -> {0, 1}]
  BY DEF Ruled, Shapes
<1>4. NoFailures \in Credits /\ ~NoFailures.used
  BY DEF NoFailures, Credits
<1>5. MuMoves(r)
  BY <1>1 DEF MuMoves
<1>6. ASSUME Leave(r), fails' \in [Resources -> Credits], hasty' \in [Resources -> {0, 1}],
             \A x \in Resources : x # r => fails'[x].used = fails[x].used /\ hasty'[x] = hasty[x],
             ~fails'[r].used => hasty'[r] = 0
      PROVE  Ruled'
  <2>1. calls' = [calls EXCEPT ![r] = NoCall] /\ LockMoves(r, NoCall)
    BY <1>1, <1>6, LockSteps DEF Leave, Call
  <2>2. Credited(r, NoCall)'
    BY <1>6, NoCallIs DEF Credited
  <2> QED BY <1>1, <1>2, <1>5, <1>6, <2>1, <2>2, NoCallIs, CallMoves
<1>7. CASE Admitted(r) /\ Leave(r)
  <2>1. fails' = [fails EXCEPT ![r] = NoFailures] /\ hasty' = [hasty EXCEPT ![r] = 0]
    BY <1>7 DEF Admitted
  <2> HIDE DEF NoFailures
  <2>2. fails' \in [Resources -> Credits] /\ hasty' \in [Resources -> {0, 1}] /\ hasty'[r] = 0
        /\ \A x \in Resources : x # r => fails'[x].used = fails[x].used /\ hasty'[x] = hasty[x]
    BY <1>3, <1>4, <2>1
  <2> QED BY <1>6, <1>7, <2>2
<1>8. CASE Leave(r) /\ UNCHANGED admissions
  <2>1. UNCHANGED <<fails, hasty>> /\ calls' = [calls EXCEPT ![r] = NoCall] /\ LockMoves(r, NoCall)
    BY <1>1, <1>8, LockSteps DEF Leave, Call, admissions
  <2> QED BY <1>1, <1>2, <1>5, <2>1, NoCallIs, PlainMoves
<1>9. CASE ~admitter.closed /\ ClearFailures(r) /\ Leave(r) /\ UNCHANGED <<live, hasty>>
  <2> DEFINE f == IF fails[r].used THEN [fails[r] EXCEPT !.n = 0] ELSE NoFailures
  <2>1. f \in Credits /\ f.used = fails[r].used
    BY <1>2, <1>4 DEF Credits, NoFailures
  <2>2. fails' = [fails EXCEPT ![r] = f] /\ hasty' = hasty
    BY <1>3, <1>9 DEF ClearFailures
  <2> HIDE DEF f
  <2>3. fails' \in [Resources -> Credits] /\ hasty' \in [Resources -> {0, 1}] /\ fails'[r] = f
        /\ \A x \in Resources : x # r => fails'[x].used = fails[x].used /\ hasty'[x] = hasty[x]
    BY <1>3, <2>1, <2>2
  <2>4. ~fails'[r].used => hasty'[r] = 0
    BY <1>2, <1>9, <2>1, <2>2, <2>3 DEF Credited
  <2> QED BY <1>6, <1>9, <2>3, <2>4
<1>10. ASSUME NEW placement \in BOOLEAN, ~admitter.closed, AskRefresh(r, placement)
       PROVE  Ruled'
  <2> DEFINE f == Failure(r)
             sustained == f.n >= Threshold
             immediate == ~sustained /\ placement /\ ~f.used
             g == [f EXCEPT !.used = @ \/ immediate]
  <2>1. f \in Credits /\ f.used = fails[r].used
    BY <1>2, RuntimeAssumption DEF Failure, Credits
  <2>2. sustained \in BOOLEAN /\ immediate \in BOOLEAN /\ (immediate => ~f.used)
    BY <2>1 DEF Credits
  <2>3. PICK c : c = IF sustained \/ immediate
                     THEN [pc |-> "refresh", job |-> "none", current |-> TRUE, immediate |-> immediate]
                     ELSE NoCall
    OBVIOUS
  <2>4. fails' = [fails EXCEPT ![r] = g] /\ calls' = [calls EXCEPT ![r] = c]
        /\ lock' = ReadUnlocked(lock, r) /\ hasty' = hasty
    BY <1>10, <2>3 DEF AskRefresh, Call
  <2> HIDE DEF f, sustained
  <2>5. g \in Credits /\ g.used = (f.used \/ immediate)
    BY <2>1, <2>2 DEF Credits
  <2>6. c \in CallSet /\ c.pc \in {"refresh", "idle"} /\ (c.immediate => immediate)
    BY <2>2, <2>3, NoCallIs DEF CallSet
  <2> HIDE DEF immediate, g
  <2>7. fails' \in [Resources -> Credits] /\ hasty' \in [Resources -> {0, 1}] /\ fails'[r] = g
        /\ \A x \in Resources : x # r => fails'[x].used = fails[x].used /\ hasty'[x] = hasty[x]
    BY <1>3, <2>4, <2>5
  <2>8. Credited(r, c)'
    BY <1>1, <1>2, <1>10, <2>1, <2>2, <2>4, <2>5, <2>6, <2>7 DEF Credited
  <2>9. Owns(r, c)'
    BY <2>6, CallersDiffer DEF Owns, Refreshes, ReplacePcs
  <2>10. LockMoves(r, c)
    BY <1>1, <2>4, LockSteps
  <2> QED BY <1>1, <1>2, <1>5, <2>4, <2>6, <2>7, <2>8, <2>9, <2>10, CallMoves
<1>11. \/ Admitted(r) /\ Leave(r)
       \/ Leave(r) /\ UNCHANGED admissions
       \/ ~admitter.closed /\ ClearFailures(r) /\ Leave(r) /\ UNCHANGED <<live, hasty>>
       \/ \E placement \in BOOLEAN : ~admitter.closed /\ AskRefresh(r, placement)
  BY DEF AdmitEnds
<1> QED BY <1>7, <1>8, <1>9, <1>10, <1>11

\* The admission after a refresh, and a retirement.
LEMMA EndsRule ==
  ASSUME Ruled, NEW r \in Resources, AgainEnds(r) \/ RetireEnds(r)
  PROVE  Ruled'
<1>1. r \in lock.readers /\ UNCHANGED <<open, admitter, mu>> /\ Leave(r) /\ r \in Callers
  BY DEF AgainEnds, RetireEnds, In, opening, Callers
<1>2. At("serving") /\ MuMoves(r) /\ calls' = [calls EXCEPT ![r] = NoCall] /\ LockMoves(r, NoCall)
  BY <1>1, CallFacts, LockSteps DEF Leave, Call, MuMoves
<1>3. CASE UNCHANGED <<fails, hasty>>
  BY <1>1, <1>2, <1>3, NoCallIs, PlainMoves
<1>4. CASE Admitted(r)
  <2>1. fails' = [fails EXCEPT ![r] = NoFailures] /\ hasty' = [hasty EXCEPT ![r] = 0]
    BY <1>4 DEF Admitted
  <2>2. fails \in [Resources -> Credits] /\ hasty \in [Resources -> {0, 1}] /\ NoFailures \in Credits
    BY DEF Ruled, Shapes, NoFailures, Credits
  <2>3. fails' \in [Resources -> Credits] /\ hasty' \in [Resources -> {0, 1}] /\ hasty'[r] = 0
        /\ \A x \in Resources : x # r => fails'[x].used = fails[x].used /\ hasty'[x] = hasty[x]
    BY <2>1, <2>2
  <2>4. Credited(r, NoCall)'
    BY <2>3, NoCallIs DEF Credited
  <2>5. admitter' \in Admitters /\ admitter'.closed = admitter.closed
    BY <1>1, CallFacts
  <2> QED BY <1>1, <1>2, <2>3, <2>4, <2>5, NoCallIs, CallMoves
<1> QED BY <1>3, <1>4 DEF AgainEnds, RetireEnds, admissions

--------------------------------------------------------------------------------
(***************************************************************************)
(* A refresh.                                                              *)
(***************************************************************************)
\* A call that goes to another place.
LEMMA GoIs ==
  ASSUME Ruled, NEW a \in Callers, NEW pc \in ReplacePcs \union {"mu", "done"}, Go(a, pc)
  PROVE  \E c \in CallSet :
           /\ calls' = [calls EXCEPT ![a] = c] /\ c.pc = pc /\ c.job = calls[a].job
           /\ c.current = calls[a].current /\ c.immediate = calls[a].immediate
<1> DEFINE k == [calls[a] EXCEPT !.pc = pc]
<1>1. calls[a] \in CallSet
  BY CallFacts
<1>2. k \in CallSet /\ k.pc = pc /\ k.job = calls[a].job
      /\ k.current = calls[a].current /\ k.immediate = calls[a].immediate
  BY <1>1 DEF CallSet
<1>3. calls' = [calls EXCEPT ![a] = k]
  BY DEF Go, Call
<1> HIDE DEF k
<1> QED BY <1>2, <1>3

\* A refresh that goes on.
LEMMA RefreshGoes ==
  ASSUME Ruled, NEW r \in Resources, NEW pc \in ReplacePcs, Go(r, pc),
         Refreshes(calls[r]), calls[r].current,
         UNCHANGED <<open, admitter, mu, fails, hasty>>, \A c \in CallSet : LockMoves(r, c)
  PROVE  Ruled'
<1>1. r \in Callers /\ Owns(r, calls[r]) /\ calls[r].pc # "idle"
  BY CallFacts DEF Callers, Refreshes, ReplacePcs
<1>2. PICK c \in CallSet :
        /\ calls' = [calls EXCEPT ![r] = c] /\ c.pc = pc /\ c.job = calls[r].job
        /\ c.current = calls[r].current /\ c.immediate = calls[r].immediate
  <2>1. pc \in ReplacePcs \union {"mu", "done"}
    OBVIOUS
  <2> QED BY <1>1, <2>1, GoIs
<1>3. Owns(r, c)'
  BY <1>1, <1>2, CallersDiffer DEF Owns
<1> QED BY <1>1, <1>2, <1>3, CallFacts, PlainMoves DEF MuMoves

\* A refresh that brought nothing.
LEMMA RefreshStops ==
  ASSUME Ruled, NEW r \in Resources, RefreshFails(r), Refreshes(calls[r]),
         UNCHANGED <<open, admitter>>, LockMoves(r, NoCall)
  PROVE  Ruled'
<1>1. r \in Callers /\ mu = r /\ At("serving") /\ fails[r] \in Credits /\ Credited(r, calls[r])
      /\ admitter \in Admitters /\ calls[r].immediate \in BOOLEAN
  BY CallFacts DEF Callers, Owns, Refreshes, ReplacePcs, CallSet
<1>2. MuMoves(r) /\ calls' = [calls EXCEPT ![r] = NoCall] /\ hasty' = hasty
  BY <1>1 DEF RefreshFails, Call, MuMoves
<1>3. fails \in [Resources -> Credits] /\ hasty \in [Resources -> {0, 1}]
  BY DEF Ruled, Shapes
<1> DEFINE f == IF calls[r].immediate THEN [fails[r] EXCEPT !.used = FALSE] ELSE fails[r]
<1>4. f \in Credits /\ (~calls[r].immediate => f = fails[r])
  BY <1>1 DEF Credits
<1>5. fails' = [fails EXCEPT ![r] = f]
  BY <1>3 DEF RefreshFails
<1> HIDE DEF f
<1>6. fails' \in [Resources -> Credits] /\ fails'[r] = f
      /\ \A x \in Resources : x # r => fails'[x].used = fails[x].used /\ hasty'[x] = hasty[x]
  BY <1>2, <1>3, <1>4, <1>5
<1>7. Credited(r, NoCall)'
  BY <1>1, <1>2, <1>4, <1>6, NoCallIs DEF Credited
<1> QED BY <1>1, <1>2, <1>3, <1>6, <1>7, NoCallIs, CallMoves

\* What an immediate refresh uses up.
LEMMA Hastened ==
  ASSUME Ruled, NEW r \in Resources, Hasten(r)
  PROVE  /\ hasty' \in [Resources -> {0, 1}]
         /\ \A x \in Resources : x # r => hasty'[x] = hasty[x]
         /\ ~admitter.closed /\ ~fails[r].used => hasty'[r] = 0
<1>1. hasty \in [Resources -> {0, 1}] /\ calls[r] \in CallSet /\ Credited(r, calls[r]) /\ hasty[r] \in {0, 1}
  BY CallFacts DEF Ruled, Shapes, Callers
<1> DEFINE h == IF calls[r].immediate THEN hasty[r] + 1 ELSE hasty[r]
<1>2. h \in {0, 1} /\ (~admitter.closed /\ ~fails[r].used => h = 0)
  BY <1>1 DEF Credited, CallSet
<1>3. hasty' = [hasty EXCEPT ![r] = h]
  BY <1>1 DEF Hasten
<1> HIDE DEF h
<1> QED BY <1>1, <1>2, <1>3

\* The admission after a refresh.
LEMMA AgainIs ==
  ASSUME NEW r \in Resources
  PROVE  Again \in CallSet /\ ~Again.immediate /\ Again.pc = "in" /\ Owns(r, Again)'
BY JobIs DEF Again

\* A refresh takes refreshMu and enters runtimeMu.
LEMMA TakeMuRules ==
  ASSUME Ruled, NEW r \in Resources, TakeMu(r)
  PROVE  Ruled'
<1>1. calls[r].pc = "refresh" /\ mu = Nobody /\ mu' = r /\ lock' = ReadLocked(lock, r)
      /\ UNCHANGED <<open, admitter, fails, hasty>> /\ r \in Callers
  BY DEF TakeMu, opening, admissions, Callers
<1>2. calls[r] \in CallSet /\ At("serving")
  BY <1>1, CallFacts
<1> DEFINE k == [calls[r] EXCEPT !.pc = "in", !.job = "check"]
<1>3. k \in CallSet /\ k.pc = "in" /\ k.immediate = calls[r].immediate
  BY <1>2 DEF CallSet
<1>4. calls' = [calls EXCEPT ![r] = k]
  BY DEF TakeMu, Call
<1> HIDE DEF k
<1>5. PICK c \in CallSet : c = k
  BY <1>3
<1>6. LockMoves(r, c) /\ MuMoves(r)
  BY <1>1, <1>3, <1>5, LockSteps DEF MuMoves
<1>7. Owns(r, c)'
  BY <1>1, <1>3, <1>5, CallersDiffer DEF Owns, ReplacePcs
<1> QED BY <1>1, <1>2, <1>3, <1>4, <1>5, <1>6, <1>7, PlainMoves

\* Under both locks it compares the generation.
LEMMA CheckRules ==
  ASSUME Ruled, NEW r \in Resources, CheckGeneration(r)
  PROVE  Ruled'
<1>1. r \in lock.readers /\ calls[r].job = "check" /\ UNCHANGED <<open, admitter>> /\ r \in Callers
  BY DEF CheckGeneration, In, opening, Callers
<1>2. Refreshes(calls[r]) /\ mu = r /\ At("serving") /\ admitter \in Admitters
      /\ fails \in [Resources -> Credits]
  BY <1>1, CallFacts DEF Refreshes, Owns, Ruled, Shapes
<1>3. CASE RefreshFails(r) /\ lock' = ReadUnlocked(lock, r)
  <2>1. LockMoves(r, NoCall)
    BY <1>1, <1>3, LockSteps
  <2> QED BY <1>1, <1>2, <1>3, <2>1, RefreshStops
<1>4. CASE ~admitter.closed /\ AdmitAgain(r)
  <2>1. calls' = [calls EXCEPT ![r] = Again] /\ mu' = Nobody /\ Hasten(r) /\ fails' = fails
        /\ lock' = ReadLocked(ReadUnlocked(lock, r), r)
    BY <1>4 DEF AdmitAgain, Call
  <2>2. LockMoves(r, Again) /\ MuMoves(r)
    BY <1>1, <1>2, <2>1, AgainIs, LockSteps DEF MuMoves
  <2>3. Credited(r, Again)'
    BY <1>4, <2>1, AgainIs, Hastened DEF Credited
  <2>4. hasty' \in [Resources -> {0, 1}] /\ fails' \in [Resources -> Credits]
        /\ \A x \in Resources : x # r => fails'[x].used = fails[x].used /\ hasty'[x] = hasty[x]
    BY <1>2, <2>1, Hastened
  <2> QED BY <1>1, <1>2, <2>1, <2>2, <2>3, <2>4, AgainIs, CallMoves
<1>5. CASE calls[r].current /\ lock' = ReadUnlocked(lock, r) /\ Go(r, "request") /\ UNCHANGED <<mu, admissions>>
  <2>1. \A c \in CallSet : LockMoves(r, c)
    BY <1>1, <1>5, LockSteps
  <2>2. UNCHANGED <<open, admitter, mu, fails, hasty>> /\ "request" \in ReplacePcs
    BY <1>1, <1>5 DEF admissions, ReplacePcs
  <2> QED BY <1>2, <1>5, <2>1, <2>2, RefreshGoes
<1> QED BY <1>3, <1>4, <1>5 DEF CheckGeneration

\* From the request to the lock: each step goes on or ends the refresh.
LEMMA AttemptRules ==
  ASSUME Ruled, NEW r \in Resources,
         \/ RequestMarker(r) \/ AttemptNow(r) \/ HubAnswersCall(r) \/ Handoff(r)
         \/ LockRuntime(r) \/ AbandonLock(r)
  PROVE  Ruled'
<1>1. calls[r].pc \in ReplacePcs /\ calls[r].pc # "in" /\ UNCHANGED <<open, admitter>> /\ r \in Callers
  BY DEF RequestMarker, AttemptNow, HubAnswersCall, Handoff, LockRuntime, AbandonLock, opening,
         Callers, ReplacePcs
<1>2. Refreshes(calls[r]) /\ calls[r].current
  BY <1>1, CallFacts DEF Refreshes, Owns
<1>3. lock' = lock \/ (\E w : lock' = [lock EXCEPT !.writers = w])
  BY DEF RequestMarker, AttemptNow, HubAnswersCall, Handoff, LockRuntime, AbandonLock, WriteRequested
<1>4. \A c \in CallSet \union {NoCall} : LockMoves(r, c)
  BY <1>1, <1>3, LockSteps
<1>5. \/ \E pc \in ReplacePcs : Go(r, pc) /\ UNCHANGED <<mu, admissions>>
      \/ RefreshFails(r)
  BY DEF RequestMarker, AttemptNow, HubAnswersCall, Handoff, LockRuntime, AbandonLock, ReplacePcs
<1>6. CASE RefreshFails(r)
  BY <1>1, <1>2, <1>4, <1>6, RefreshStops
<1>7. ASSUME NEW pc \in ReplacePcs, Go(r, pc), UNCHANGED <<mu, admissions>>
      PROVE  Ruled'
  <2>1. UNCHANGED <<open, admitter, mu, fails, hasty>>
    BY <1>1, <1>7 DEF admissions
  <2> QED BY <1>2, <1>4, <1>7, <2>1, RefreshGoes
<1> QED BY <1>5, <1>6, <1>7

\* The swap ends the claim of every other call to the generation it replaces; none
\* of them refreshes meanwhile.
LEMMA SwapRules ==
  ASSUME Ruled, NEW r \in Resources, Swap(r)
  PROVE  Ruled'
<1>1. calls[r].pc = "queued" /\ SwapIn(r) /\ open' = open /\ r \in Callers
      /\ lock' = ReadLocked(WriteUnlocked(lock), r)
  BY DEF Swap, opening, Callers
<1>2. mu = r /\ At("serving") /\ admitter \in Admitters /\ Credited(r, calls[r])
  BY <1>1, CallFacts DEF Owns, Refreshes, ReplacePcs
<1>3. calls \in [Callers -> CallSet] /\ fails \in [Resources -> Credits]
  BY DEF Ruled, Shapes
<1>4. LockMoves(r, Again)
  BY <1>1, AgainIs, LockSteps
<1>5. calls' \in [Callers -> CallSet] /\ calls'[r] = Again
      /\ \A x \in Callers : x # r => /\ calls'[x].pc = calls[x].pc /\ calls'[x].job = calls[x].job
                                     /\ calls'[x].immediate = calls[x].immediate
  <2>1. ASSUME NEW x \in Callers
        PROVE  LET k == [calls[x] EXCEPT !.current = FALSE]
               IN  k \in CallSet /\ k.pc = calls[x].pc /\ k.job = calls[x].job
                   /\ k.immediate = calls[x].immediate
    BY <1>3 DEF CallSet
  <2>2. calls' = [a \in Callers |-> IF a = r THEN Again ELSE [calls[a] EXCEPT !.current = FALSE]]
    BY <1>1 DEF SwapIn
  <2>3. calls'[r] = Again /\ \A x \in Callers : x # r => calls'[x] = [calls[x] EXCEPT !.current = FALSE]
    BY <1>1, <2>2
  <2>4. \A x \in Callers : calls'[x] \in CallSet
    BY <2>1, <2>3, AgainIs
  <2>5. calls' \in [Callers -> CallSet]
    <3> HIDE DEF Again
    <3> QED BY <2>2, <2>4
  <2>6. ASSUME NEW x \in Callers, x # r
        PROVE  /\ calls'[x].pc = calls[x].pc /\ calls'[x].job = calls[x].job
               /\ calls'[x].immediate = calls[x].immediate
    BY <2>1, <2>3, <2>6
  <2>7. calls'[r] = Again
    BY <2>3
  <2> QED BY <2>5, <2>6, <2>7
<1>6. fails' \in [Resources -> Credits] /\ \A x \in Resources : fails'[x].used = fails[x].used
  <2>1. fails' = [x \in Resources |-> [fails[x] EXCEPT !.n = 0]]
    BY <1>1 DEF SwapIn
  <2>2. \A x \in Resources : [fails[x] EXCEPT !.n = 0] \in Credits /\ [fails[x] EXCEPT !.n = 0].used = fails[x].used
    BY <1>3 DEF Credits
  <2> QED BY <2>1, <2>2
<1>7. admitter' \in Admitters /\ admitter'.closed = admitter.closed
  <2> DEFINE b == ~lapsed
  <2>1. b \in BOOLEAN
    OBVIOUS
  <2>2. admitter' = [admitter EXCEPT !.gen = 1 - @, !.fresh = b]
    BY <1>1 DEF SwapIn
  <2> HIDE DEF b
  <2>3. admitter' = [fresh |-> b, gen |-> 1 - admitter.gen, closed |-> admitter.closed,
                     cancelled |-> admitter.cancelled]
    BY <1>2, <2>2 DEF Admitters
  <2> QED BY <1>2, <2>1, <2>3 DEF Admitters
<1>8. hasty' \in [Resources -> {0, 1}] /\ (\A x \in Resources : x # r => hasty'[x] = hasty[x])
      /\ (~admitter.closed /\ ~fails[r].used => hasty'[r] = 0)
  BY <1>1, Hastened DEF SwapIn
<1>9. Shapes'
  BY <1>1, <1>4, <1>5, <1>6, <1>7, <1>8 DEF Ruled, Shapes, LockMoves
<1>10. Quiescent'
  BY <1>1, <1>2 DEF Quiescent, At
<1>11. Inside'
  BY <1>1, <1>4, <1>5, AgainIs DEF Ruled, Inside, LockMoves
<1>12. OneRefresh'
  <2>1. ASSUME NEW x \in Callers, x # r
        PROVE  Owns(x, calls[x])'
    <3>1. Owns(x, calls[x])
      BY DEF Ruled, OneRefresh
    <3>2. x \in Resources => ~Refreshes(calls[x])
      BY <1>2, <2>1, <3>1 DEF Owns
    <3> QED BY <1>2, <1>5, <2>1, <3>1, <3>2, CallersDiffer DEF Owns, Refreshes
  <2>2. Owns(r, calls[r])'
    BY <1>5, AgainIs DEF Owns
  <2> QED BY <2>1, <2>2 DEF OneRefresh
<1>13. OneCredit'
  <2>1. ASSUME NEW x \in Resources, x # r
        PROVE  Credited(x, calls[x])'
    BY <1>5, <1>6, <1>7, <1>8, <2>1 DEF Ruled, OneCredit, Credited, Callers
  <2>2. Credited(r, calls[r])'
    BY <1>5, <1>6, <1>7, <1>8, AgainIs DEF Credited
  <2> QED BY <2>1, <2>2 DEF OneCredit
<1> QED BY <1>9, <1>10, <1>11, <1>12, <1>13 DEF Ruled

--------------------------------------------------------------------------------
(***************************************************************************)
(* The other callers, and what happens around the admitter.                *)
(***************************************************************************)
\* MarkServingHealthy removes the marker under refreshMu.
LEMMA HealthyRules ==
  ASSUME Ruled, BeginHealthy \/ TakeMuHealthy \/ ClearMarker
  PROVE  Ruled'
<1>1. Health \in Callers /\ Health \notin Resources
  BY CallersDiffer
<1>2. At("serving") /\ UNCHANGED <<open, admitter, fails, hasty>>
  BY <1>1, CallFacts DEF BeginHealthy, TakeMuHealthy, ClearMarker, opening, admissions, In
<1>3. CASE BeginHealthy
  <2>1. Go(Health, "mu") /\ lock' = lock /\ mu' = mu /\ calls[Health].pc # "in"
    BY <1>3 DEF BeginHealthy
  <2>2. "mu" \in ReplacePcs \union {"mu", "done"}
    OBVIOUS
  <2>3. PICK c \in CallSet : calls' = [calls EXCEPT ![Health] = c] /\ c.pc = "mu"
                             /\ c.immediate = calls[Health].immediate
    BY <1>1, <2>1, <2>2, GoIs
  <2>4. LockMoves(Health, c) /\ MuMoves(Health) /\ Owns(Health, c)'
    BY <1>1, <2>1, <2>3, LockSteps, CallersDiffer DEF MuMoves, Owns
  <2> QED BY <1>1, <1>2, <2>3, <2>4, PlainMoves
<1>4. CASE TakeMuHealthy
  <2> DEFINE k == [NoCall EXCEPT !.pc = "in", !.job = "clear"]
  <2>1. calls' = [calls EXCEPT ![Health] = k] /\ calls[Health].pc = "mu" /\ mu = Nobody /\ mu' = Health
        /\ lock' = ReadLocked(lock, Health)
    BY <1>4 DEF TakeMuHealthy, Call
  <2>2. k \in CallSet /\ k.pc = "in" /\ ~k.immediate
    BY InLockIs
  <2> HIDE DEF k
  <2>3. PICK c \in CallSet : c = k
    BY <2>2
  <2>4. LockMoves(Health, c) /\ MuMoves(Health) /\ Owns(Health, c)'
    BY <1>1, <2>1, <2>2, <2>3, LockSteps, CallersDiffer DEF MuMoves, Owns
  <2> QED BY <1>1, <1>2, <2>1, <2>2, <2>3, <2>4, PlainMoves
<1>5. CASE ClearMarker
  <2>1. Health \in lock.readers /\ calls' = [calls EXCEPT ![Health] = NoCall]
        /\ lock' = ReadUnlocked(lock, Health) /\ mu' = Nobody
    BY <1>5 DEF ClearMarker, In, Leave, Call
  <2>2. mu = Health
    BY <1>1, <2>1, CallFacts DEF Owns
  <2>3. LockMoves(Health, NoCall) /\ MuMoves(Health)
    BY <2>1, <2>2, LockSteps DEF MuMoves
  <2> QED BY <1>1, <1>2, <2>1, <2>3, NoCallIs, PlainMoves
<1> QED BY <1>3, <1>4, <1>5

\* Close cancels, then queues for the locks.
LEMMA BeginCloseRules ==
  ASSUME Ruled, BeginClose \/ TakeMuClose
  PROVE  Ruled'
<1>1. Closer \in Callers /\ Closer \notin Resources /\ Closer # Health
  BY CallersDiffer
<1>2. At("serving") /\ UNCHANGED <<open, fails, hasty>> /\ calls[Closer].pc # "in"
      /\ admitter \in Admitters /\ fails \in [Resources -> Credits] /\ hasty \in [Resources -> {0, 1}]
  BY <1>1, CallFacts DEF BeginClose, TakeMuClose, opening, admissions, Ruled, Shapes
<1>3. admitter' \in Admitters /\ admitter'.closed = admitter.closed
  <2>1. CASE admitter' = admitter
    BY <1>2, <2>1
  <2>2. CASE admitter' = [admitter EXCEPT !.cancelled = TRUE]
    BY <1>2, <2>2 DEF Admitters
  <2> QED BY <2>1, <2>2 DEF BeginClose, TakeMuClose
<1>4. PICK pc \in {"mu", "queued"} : Go(Closer, pc) /\ (pc = "queued" => mu' = Closer)
  BY DEF BeginClose, TakeMuClose
<1>5. pc \in ReplacePcs \union {"mu", "done"}
  BY DEF ReplacePcs
<1>6. PICK c \in CallSet : calls' = [calls EXCEPT ![Closer] = c] /\ c.pc = pc
  BY <1>1, <1>4, <1>5, GoIs
<1>7. lock' = lock \/ \E w : lock' = [lock EXCEPT !.writers = w]
  BY DEF BeginClose, TakeMuClose, WriteRequested
<1>8. LockMoves(Closer, c) /\ MuMoves(Closer) /\ Owns(Closer, c)'
  <2>1. LockMoves(Closer, c)
    BY <1>2, <1>7, LockSteps
  <2>2. MuMoves(Closer)
    BY DEF BeginClose, TakeMuClose, MuMoves
  <2>3. Owns(Closer, c)'
    BY <1>1, <1>4, <1>6 DEF Owns
  <2> QED BY <2>1, <2>2, <2>3
<1> QED BY <1>1, <1>2, <1>3, <1>6, <1>8, CallMoves

\* Close has refreshMu: nobody refreshes when it ends the admitter.
LEMMA CloseRules ==
  ASSUME Ruled, CloseHolds
  PROVE  Ruled'
<1>1. Closer \in Callers /\ Closer \notin Resources /\ Closer # Health
  BY CallersDiffer
<1>2. calls[Closer].pc = "queued" /\ open' = open /\ hasty' = hasty /\ lock' = WriteUnlocked(lock)
      /\ fails' = [r \in Resources |-> NoFailures] /\ Go(Closer, "done")
      /\ admitter' = [admitter EXCEPT !.closed = TRUE, !.fresh = FALSE]
  BY DEF CloseHolds, opening
<1>3. At("serving") /\ mu = Closer /\ calls \in [Callers -> CallSet] /\ admitter \in Admitters
      /\ hasty \in [Resources -> {0, 1}]
  BY <1>1, <1>2, CallFacts DEF Owns, Ruled, Shapes
<1>4. admitter' \in Admitters /\ admitter'.closed
  BY <1>2, <1>3 DEF Admitters
<1>5. PICK c \in CallSet : calls' = [calls EXCEPT ![Closer] = c] /\ c.pc = "done"
  <2>1. "done" \in ReplacePcs \union {"mu", "done"}
    OBVIOUS
  <2> QED BY <1>1, <1>2, <2>1, GoIs
<1>6. calls' \in [Callers -> CallSet] /\ calls'[Closer] = c
      /\ \A x \in Callers : x # Closer => calls'[x] = calls[x]
  BY <1>1, <1>3, <1>5
<1>7. LockMoves(Closer, c)
  BY <1>2, LockSteps
<1>8. Shapes'
  <2>1. fails' \in [Resources -> Credits]
    BY <1>2 DEF NoFailures, Credits
  <2> QED BY <1>2, <1>3, <1>4, <1>6, <1>7, <2>1 DEF Ruled, Shapes, LockMoves
<1>9. Quiescent'
  BY <1>2, <1>3 DEF Quiescent, At
<1>10. Inside'
  BY <1>5, <1>6, <1>7 DEF Ruled, Inside, LockMoves
<1>11. OneRefresh'
  <2>1. ASSUME NEW x \in Callers, x # Closer
        PROVE  Owns(x, calls[x])'
    <3>1. Owns(x, calls[x]) /\ x # Nobody
      BY CallersDiffer DEF Ruled, OneRefresh
    <3> QED BY <1>1, <1>3, <1>6, <2>1, <3>1 DEF Owns, Refreshes
  <2>2. Owns(Closer, calls[Closer])'
    BY <1>1, <1>5, <1>6 DEF Owns
  <2> QED BY <2>1, <2>2 DEF OneRefresh
<1>12. OneCredit'
  BY <1>1, <1>2, <1>4, <1>6 DEF Ruled, OneCredit, Credited, Callers
<1> QED BY <1>8, <1>9, <1>10, <1>11, <1>12 DEF Ruled

\* What leaves the calls, the locks and the failures alone.
LEMMA ElsewhereRules ==
  ASSUME Ruled, open' \in Openings, admitter' \in Admitters, UNCHANGED <<calls, lock, mu, fails, hasty>>,
         IF At("serving") THEN At("serving")' /\ admitter'.closed = admitter.closed ELSE TRUE
  PROVE  Ruled'
<1>1. Shapes' /\ Quiescent' /\ Inside' /\ OneRefresh'
  <2>1. ~At("serving")' => ~At("serving")
    OBVIOUS
  <2>2. Shapes' /\ Inside' /\ OneRefresh'
    BY DEF Ruled, Shapes, LockShape, Inside, OneRefresh, Owns
  <2> QED BY <2>1, <2>2 DEF Ruled, Quiescent
<1>2. OneCredit'
  <2>1. CASE At("serving")
    BY <2>1 DEF Ruled, OneCredit, Credited
  <2>2. CASE ~At("serving")
    <3>1. \A r \in Resources : ~calls[r].immediate /\ hasty[r] = 0
      BY <2>2 DEF Ruled, Quiescent, NoCall, Callers
    <3> QED BY <3>1 DEF OneCredit, Credited
  <2> QED BY <2>1, <2>2
<1> QED BY <1>1, <1>2 DEF Ruled

\* Nobody is in an admitter that is gone.
LEMMA IdleRules ==
  ASSUME open' \in Openings, Idle
  PROVE  Ruled'
<1>1. calls' = [a \in Callers |-> NoCall] /\ hasty' = [r \in Resources |-> 0] /\ lock' = Unlocked
      /\ mu' = Nobody /\ fails' = [r \in Resources |-> NoFailures] /\ admitter' = NoAdmitter
  BY DEF Idle
<1>2. LockShape' /\ lock'.readers = {} /\ lock'.waiting = {}
  BY <1>1 DEF Unlocked, LockShape
<1>3. Shapes'
  BY <1>1, <1>2, NoCallIs DEF Shapes, NoAdmitter, Admitters, NoFailures, Credits
<1>4. Quiescent' /\ Inside' /\ OneRefresh' /\ OneCredit'
  BY <1>1, <1>2, NoCallIs DEF Quiescent, Inside, OneRefresh, OneCredit, Credited, Callers
<1> QED BY <1>3, <1>4 DEF Ruled

\* A step of the open keeps its shape.
LEMMA StepIs ==
  ASSUME open \in Openings, NEW pc \in Pcs, Step(pc)
  PROVE  open' \in Openings /\ open'.pc = pc
BY DEF Step, Openings

\* The steps of an open: nobody is in the admitter yet.
LEMMA OpeningShape ==
  ASSUME Shapes, Opening \/ RecoverOpened
  PROVE  /\ ~At("serving") /\ open' \in Openings /\ admitter' \in Admitters
         /\ UNCHANGED <<calls, lock, mu, fails, hasty>>
<1>1. open \in Openings /\ admitter \in Admitters
  BY DEF Shapes
<1>2. ASSUME NEW pc \in Pcs, Step(pc)
      PROVE  open' \in Openings
  BY <1>1, <1>2, StepIs
<1>3. ASSUME NEW kind \in {"warm", "refresh", "recovery", "registration"}, NEW fresh \in BOOLEAN,
             Opened(kind, fresh)
      PROVE  open' \in Openings /\ admitter' \in Admitters /\ UNCHANGED <<calls, lock, mu, fails, hasty>>
  <2>1. open' \in Openings
    BY <1>1, <1>3 DEF Opened, Openings, Pcs
  <2>2. admitter' \in Admitters
    BY <1>3 DEF Opened, NoAdmitter, Admitters
  <2> QED BY <1>3, <2>1, <2>2 DEF Opened, admissions
<1>4. (~lapsed) \in BOOLEAN /\ TRUE \in BOOLEAN
  OBVIOUS
<1>5. ASSUME UNCHANGED serving
      PROVE  admitter' \in Admitters /\ UNCHANGED <<calls, lock, mu, fails, hasty>>
  BY <1>1, <1>5 DEF serving, admissions
<1>6. CASE Start
  <2>1. ~At("serving") /\ open' \in Openings /\ UNCHANGED serving
    BY <1>6 DEF Start, At, Openings, Pcs
  <2> QED BY <1>5, <2>1
<1>7. CASE LoadMarker
  <2>1. ~At("serving") /\ UNCHANGED serving /\ \E pc \in Pcs : Step(pc)
    BY <1>7 DEF LoadMarker, At, Fails, Pcs
  <2> QED BY <1>2, <1>5, <2>1
<1>8. ASSUME NEW o, Failed(o)
      PROVE  open' \in Openings
  BY <1>2, <1>8 DEF Failed, Pcs
<1>9. CASE WarmOpen
  <2>1. ~At("serving")
    BY <1>9 DEF WarmOpen, At
  <2>2. \/ Opened("warm", ~lapsed)
        \/ UNCHANGED serving /\ ((\E pc \in Pcs : Step(pc)) \/ \E o : Failed(o))
    BY <1>9 DEF WarmOpen, Fails, Pcs
  <2> QED BY <1>2, <1>3, <1>4, <1>5, <1>8, <2>1, <2>2
<1>10. CASE ExpiredOpen
  <2>1. ~At("serving") /\ UNCHANGED serving /\ \E pc \in Pcs : Step(pc)
    BY <1>10 DEF ExpiredOpen, At, Fails, Pcs
  <2> QED BY <1>2, <1>5, <2>1
<1>11. CASE HandedOpen
  <2>1. ~At("serving")
    BY <1>11 DEF HandedOpen, At
  <2>2. \/ Opened("warm", ~lapsed)
        \/ UNCHANGED serving /\ ((\E pc \in Pcs : Step(pc)) \/ \E o : Failed(o))
    BY <1>11 DEF HandedOpen, Fails, Pcs
  <2> QED BY <1>2, <1>3, <1>4, <1>5, <1>8, <2>1, <2>2
<1>12. CASE RefreshDisabled \/ AttemptOnOpen \/ Transfer
  <2>1. ~At("serving") /\ UNCHANGED serving /\ \E pc \in Pcs : Step(pc)
    BY <1>12 DEF RefreshDisabled, AttemptOnOpen, Transfer, At, Fails, Pcs
  <2> QED BY <1>2, <1>5, <2>1
<1>13. CASE HubOnOpen
  <2>1. ~At("serving") /\ UNCHANGED serving /\ ((\E pc \in Pcs : Step(pc)) \/ \E o : Failed(o))
    BY <1>13 DEF HubOnOpen, At, Pcs
  <2> QED BY <1>2, <1>5, <1>8, <2>1
<1>14. CASE HandoffOnOpen
  <2>1. ~At("serving")
    BY <1>14 DEF HandoffOnOpen, At
  <2> DEFINE kind == IF open.kind = "none" THEN "refresh" ELSE open.kind
  <2>2. kind \in {"warm", "refresh", "recovery", "registration"}
    BY <1>1 DEF Openings
  <2>3. Opened(kind, ~lapsed) \/ (UNCHANGED serving /\ \E pc \in Pcs : Step(pc))
    BY <1>14 DEF HandoffOnOpen, Fails, Pcs
  <2> HIDE DEF kind
  <2> QED BY <1>2, <1>3, <1>4, <1>5, <2>1, <2>2, <2>3
<1>15. CASE RecoverOnOpen
  <2>1. ~At("serving") /\ UNCHANGED serving
    BY <1>15 DEF RecoverOnOpen, At
  <2>2. open' \in Openings
    BY <1>1, <1>15 DEF RecoverOnOpen, Openings, Pcs
  <2> QED BY <1>5, <2>1, <2>2
<1>16. CASE Register
  <2>1. ~At("serving")
    BY <1>16 DEF Register, At
  <2>2. Opened("registration", TRUE) \/ (UNCHANGED serving /\ \E pc \in Pcs : Step(pc))
    BY <1>16 DEF Register, Fails, Pcs
  <2> QED BY <1>2, <1>3, <1>4, <1>5, <2>1, <2>2
<1>17. CASE RecoverOpened
  <2>1. ~At("serving") /\ UNCHANGED <<calls, lock, mu, fails, hasty>>
    BY <1>17 DEF RecoverOpened, At, admissions
  <2>2. open' \in Openings
    BY <1>1, <1>17 DEF RecoverOpened, Openings, Pcs
  <2>3. admitter' \in Admitters
    BY <1>1, <1>17 DEF RecoverOpened, Admitters
  <2> QED BY <2>1, <2>2, <2>3
<1> QED BY <1>6, <1>7, <1>9, <1>10, <1>11, <1>12, <1>13, <1>14, <1>15, <1>16, <1>17 DEF Opening

\* The Hub, the cells, the disk and time.
Around == Lapse \/ Revoke \/ LoseState \/ Tick \/ ClockBack \/ Settle \/ UNCHANGED vars

\* They leave the calls and the generation alone.
LEMMA AroundShape ==
  ASSUME Shapes, Around
  PROVE  /\ UNCHANGED <<open, calls, lock, mu, fails, hasty>>
         /\ admitter' \in Admitters /\ admitter'.closed = admitter.closed /\ admitter'.gen = admitter.gen
<1>1. UNCHANGED <<open, calls, lock, mu, fails, hasty>>
  BY DEF Around, Lapse, Revoke, LoseState, Tick, ClockBack, Settle, vars, opening, serving, admissions
<1>2. admitter' = admitter \/ admitter' = [admitter EXCEPT !.fresh = FALSE]
  BY DEF Around, Lapse, Revoke, LoseState, Tick, ClockBack, Settle, vars, serving
<1>3. admitter \in Admitters
  BY DEF Shapes
<1> QED BY <1>1, <1>2, <1>3 DEF Admitters

\* The goroutine a writer left behind lets the readers in.
LEMMA OrphanRules ==
  ASSUME Ruled, OrphanReleases
  PROVE  Ruled'
<1>1. lock' = WriteUnlocked(lock) /\ UNCHANGED <<open, admitter, calls, mu, fails, hasty>>
  BY DEF OrphanReleases, opening, admissions
<1>2. lock' = [readers |-> lock.waiting, waiting |-> {}, writers |-> Tail(lock.writers)]
  BY <1>1 DEF WriteUnlocked
<1>3. Shapes' /\ Inside'
  BY <1>1, <1>2 DEF Ruled, Shapes, LockShape, Inside
<1>4. Quiescent'
  <2>1. CASE At("serving")
    BY <1>1, <2>1 DEF Quiescent, At
  <2>2. CASE ~At("serving")
    BY <2>2 DEF Ruled, Quiescent, OrphanReleases, Holds, Announced, Unlocked
  <2> QED BY <2>1, <2>2
<1>5. OneRefresh' /\ OneCredit'
  BY <1>1 DEF Ruled, OneRefresh, Owns, OneCredit, Credited
<1> QED BY <1>3, <1>4, <1>5 DEF Ruled

\* The process ends.
LEMMA DownRules ==
  ASSUME Ruled, Down
  PROVE  Ruled'
<1>1. "down" \in Pcs /\ open \in Openings
  BY DEF Pcs, Ruled, Shapes
<1>2. open' \in Openings /\ Idle
  BY <1>1, StepIs DEF Down
<1> QED BY <1>2, IdleRules

\* Ruled holds in the initial states.
LEMMA InitRules ==
  ASSUME Init
  PROVE  Ruled
<1>1. open = [pc |-> "down", kind |-> "none", tried |-> FALSE] /\ admitter = NoAdmitter
      /\ calls = [a \in Callers |-> NoCall] /\ lock = Unlocked /\ mu = Nobody
      /\ fails = [r \in Resources |-> NoFailures] /\ hasty = [r \in Resources |-> 0]
  BY DEF Init
<1>2. LockShape /\ lock.readers = {} /\ lock.waiting = {}
  BY <1>1 DEF Unlocked, LockShape
<1>3. Shapes
  BY <1>1, <1>2, NoCallIs DEF Shapes, Openings, Pcs, NoAdmitter, Admitters, NoFailures, Credits
<1>4. Quiescent /\ Inside /\ OneCredit
  BY <1>1, <1>2, NoCallIs DEF Quiescent, Inside, OneCredit, Credited, Callers
<1>5. \A a \in Callers : Owns(a, NoCall)
  BY DEF Owns, NoCall, Refreshes, ReplacePcs
<1>6. OneRefresh
  BY <1>1, <1>5 DEF OneRefresh
<1> QED BY <1>3, <1>4, <1>6 DEF Ruled

--------------------------------------------------------------------------------
\* Ruled is inductive.
LEMMA StepRules ==
  ASSUME Ruled, [Next]_vars
  PROVE  Ruled'
<1>1. CASE Opening \/ RecoverOpened
  BY <1>1, OpeningShape, ElsewhereRules DEF Ruled
<1>2. CASE Around
  <2>1. At("serving")' = At("serving")
    BY <1>2, AroundShape DEF Ruled, At
  <2>2. open' \in Openings
    BY <1>2, AroundShape DEF Ruled, Shapes
  <2> QED BY <1>2, <2>1, <2>2, AroundShape, ElsewhereRules DEF Ruled
<1>3. CASE OrphanReleases
  BY <1>3, OrphanRules
<1>4. ASSUME NEW r \in Resources, Begin(r, "admit") \/ Begin(r, "retire") \/ TakeMu(r) \/ Serving(r)
      PROVE  Ruled'
  BY <1>4, BeginRules, TakeMuRules, AdmitRules, EndsRule, CheckRules, AttemptRules, SwapRules DEF Serving
<1>5. CASE BeginHealthy \/ TakeMuHealthy \/ Healthy
  BY <1>5, HealthyRules DEF Healthy
<1>6. CASE BeginClose \/ TakeMuClose \/ Closing \/ Crash
  BY <1>6, BeginCloseRules, CloseRules, DownRules DEF Closing, Exit, Crash
<1> QED BY <1>1, <1>2, <1>3, <1>4, <1>5, <1>6 DEF Next, Around

\* Whoever is inside or kept out of runtimeMu has a call that says so, and one call
\* at a time is between the check of the generation and the swap, of the generation
\* that is current (NativeAdmitter.refresh, lockRuntimeForRefresh, Close).
THEOREM CallsAreRuled == Spec => []Ruled
<1>1. Init => Ruled
  BY InitRules
<1>2. Ruled /\ [Next]_vars => Ruled'
  BY StepRules
<1> QED BY <1>1, <1>2, PTL DEF Spec

\* A refresh replaces the generation whose admission failed and no later one: from
\* the check to the swap its call holds refreshMu and nobody swaps another in
\* (NativeAdmitter.refresh).  A resource gets one immediate refresh until it admits
\* (claimImmediatePlacementRefresh, releaseImmediatePlacementRefresh).
THEOREM OnlyTheFailedIsRefreshed == Spec => []RefreshOfTheFailed
<1>1. Ruled => RefreshOfTheFailed
  <2> SUFFICES ASSUME Ruled, NEW r \in Resources
               PROVE  (Replaces(r) => mu = r /\ calls[r].current) /\ hasty[r] <= 1
    BY DEF RefreshOfTheFailed
  <2>1. Owns(r, calls[r]) /\ hasty[r] \in {0, 1}
    BY CallFacts DEF Callers
  <2>2. hasty[r] <= 1
    BY <2>1
  <2> QED BY <2>1, <2>2 DEF Replaces, Owns, Refreshes, ReplacePcs
<1> QED BY <1>1, CallsAreRuled, PTL

--------------------------------------------------------------------------------
(***************************************************************************)
(* The binding.                                                            *)
(***************************************************************************)
\* While a call is inside the runtime lock, its binding and key stay: the swap and
\* Close wait until the last reader has left (refresh, Close), and what goes down
\* has no readers afterwards.
THEOREM BindingStays == Spec => BindingHeld
<1> DEFINE Held == lock.readers \intersect lock'.readers # {} =>
                     (admitter'.gen = admitter.gen /\ admitter'.closed = admitter.closed)
<1>1. Ruled /\ [Next]_vars => [Held]_vars
  <2> SUFFICES ASSUME Ruled, [Next]_vars
               PROVE  Held
    OBVIOUS
  <2>1. ASSUME UNCHANGED <<admitter>>
        PROVE  Held
    BY <2>1
  <2>2. ASSUME lock.readers = {} \/ lock'.readers = {}
        PROVE  Held
    BY <2>2
  <2> HIDE DEF Held
  <2>3. CASE Opening \/ RecoverOpened
    <3>1. ~At("serving")
      BY <2>3, OpeningShape DEF Ruled
    <3>2. lock.readers = {}
      BY <3>1 DEF Ruled, Quiescent, Unlocked
    <3> QED BY <2>2, <3>2
  <2>4. CASE Around
    BY <2>4, AroundShape DEF Ruled, Held
  <2>5. CASE OrphanReleases
    BY <2>1, <2>5 DEF OrphanReleases
  <2>6. ASSUME NEW r \in Resources, Begin(r, "admit") \/ Begin(r, "retire") \/ TakeMu(r) \/ Serving(r)
        PROVE  Held
    <3>1. CASE Swap(r)
      <4>1. lock.readers = {}
        BY <3>1 DEF Swap, Holds
      <4> QED BY <2>2, <4>1
    <3>2. CASE ~Swap(r)
      <4>1. admitter' = admitter
        BY <2>6, <3>2 DEF Begin, TakeMu, Serving, AdmitEnds, AgainEnds, RetireEnds, CheckGeneration,
          RequestMarker, AttemptNow, HubAnswersCall, Handoff, LockRuntime, AbandonLock
      <4> QED BY <2>1, <4>1
    <3> QED BY <3>1, <3>2
  <2>7. CASE BeginHealthy \/ TakeMuHealthy \/ Healthy \/ TakeMuClose
    BY <2>1, <2>7 DEF BeginHealthy, TakeMuHealthy, Healthy, ClearMarker, TakeMuClose
  <2>8. CASE BeginClose
    <3>1. admitter' = [admitter EXCEPT !.cancelled = TRUE] /\ admitter \in Admitters
      BY <2>8 DEF BeginClose, Ruled, Shapes
    <3> QED BY <3>1 DEF Admitters, Held
  <2>9. CASE CloseHolds
    <3>1. lock.readers = {}
      BY <2>9 DEF CloseHolds, Holds
    <3> QED BY <2>2, <3>1
  <2>10. CASE Exit \/ Crash
    <3>1. lock'.readers = {}
      BY <2>10 DEF Exit, Crash, Down, Idle, Unlocked
    <3> QED BY <2>2, <3>1
  <2> QED BY <2>3, <2>4, <2>5, <2>6, <2>7, <2>8, <2>9, <2>10 DEF Next, Around, Closing
<1> HIDE DEF Held
<1>2. Spec => [][Held]_vars
  BY <1>1, CallsAreRuled, PTL DEF Spec
<1> QED BY <1>2 DEF Held, BindingHeld

--------------------------------------------------------------------------------
(***************************************************************************)
(* The refresh marker.                                                     *)
(***************************************************************************)
Markers == OpenMarkers \union {NoMarker, BadMarker}

\* What the operators of RefreshMarker make of a marker.
LEMMA MarkerIs ==
  ASSUME NEW m \in Markers
  PROVE  /\ ~Present(m) => m \in {NoMarker, BadMarker} /\ m.due
         /\ Present(m) => m \in OpenMarkers /\ m.count \in 0..MaxCount /\ m.due \in BOOLEAN
                          /\ (m.count = 0 => m.due)
         /\ m.kind \in {"absent", "open", "corrupt"}
BY DEF Markers, OpenMarkers, NoMarker, BadMarker, Unattempted, Present

\* A request leaves an open marker, or opens one whose time has come.
LEMMA RequestedIs ==
  ASSUME NEW m \in Markers
  PROVE  \/ Requested(m) = m
         \/ ~Present(m) /\ Requested(m) \in OpenMarkers /\ Requested(m).due
<1>1. Unattempted("open") \in OpenMarkers /\ Unattempted("open").due
  BY CountAssumption DEF OpenMarkers, Unattempted
<1> QED BY <1>1 DEF Requested, Present

\* An attempt counts on, or writes what the reader refuses if the clock was set back.
LEMMA AttemptedIs ==
  ASSUME NEW m \in Markers, Attempted(m) # m
  PROVE  /\ Present(m)
         /\ \/ m.ahead /\ Attempted(m) = BadMarker
            \/ ~m.ahead /\ Attempted(m) \in OpenMarkers /\ Attempted(m).count >= m.count
<1>1. Present(m)
  BY DEF Attempted, Present
<1>2. CASE m.ahead
  BY <1>1, <1>2 DEF Attempted, Present
<1>3. CASE ~m.ahead
  <2> DEFINE n == IF m.count < MaxCount THEN m.count + 1 ELSE m.count
             a == [m EXCEPT !.count = n, !.due = FALSE, !.handed = FALSE]
  <2>1. m \in OpenMarkers
    BY <1>1, MarkerIs
  <2>2. n \in 0..MaxCount /\ n >= m.count /\ n # 0
    BY <2>1, CountAssumption DEF OpenMarkers
  <2> HIDE DEF n
  <2>3. a \in OpenMarkers /\ a.count = n
    BY <2>1, <2>2 DEF OpenMarkers
  <2>4. Attempted(m) = a
    BY <1>1, <1>3 DEF Attempted, Present, n
  <2> QED BY <1>1, <1>3, <2>2, <2>3, <2>4
<1> QED BY <1>2, <1>3

\* A success keeps the deadline.
LEMMA SucceededIs ==
  ASSUME NEW m \in Markers, CanSucceed(m)
  PROVE  \/ Succeeded(m) = m
         \/ Present(m) /\ Succeeded(m) \in OpenMarkers /\ Succeeded(m).due = m.due
<1>1. CASE Present(m)
  <2>1. m \in OpenMarkers
    BY <1>1, MarkerIs
  <2>2. m.count > 0
    BY <1>1 DEF CanSucceed, Present
  <2> DEFINE s == [m EXCEPT !.handed = TRUE]
  <2>3. s \in [kind: {"open"}, count: 0..MaxCount, due: BOOLEAN, handed: BOOLEAN, ahead: BOOLEAN]
        /\ s.count = m.count /\ s.due = m.due
    BY <2>1 DEF OpenMarkers
  <2> HIDE DEF s
  <2>4. s \in OpenMarkers /\ s.due = m.due
    BY <2>2, <2>3 DEF OpenMarkers
  <2> QED BY <1>1, <2>4 DEF Succeeded, s
<1> QED BY <1>1 DEF Succeeded

\* Time brings the deadline.
LEMMA LaterIs ==
  ASSUME NEW m \in Markers
  PROVE  \/ Later(m) = m /\ ~Present(m)
         \/ Present(m) /\ Later(m) \in OpenMarkers /\ Later(m).due
<1>1. CASE Present(m)
  <2>1. m \in OpenMarkers
    BY <1>1, MarkerIs
  <2>2. [m EXCEPT !.due = TRUE, !.ahead = FALSE] \in OpenMarkers
        /\ [m EXCEPT !.due = TRUE, !.ahead = FALSE].due
    BY <2>1 DEF OpenMarkers
  <2> QED BY <1>1, <2>2 DEF Later
<1> QED BY <1>1 DEF Later

\* A clock set back does not bring a deadline nearer.
LEMMA EarlierIs ==
  ASSUME NEW m \in Markers, Present(m)
  PROVE  /\ Earlier(m) \in OpenMarkers /\ Earlier(m).count = m.count
         /\ ~m.due => ~Earlier(m).due
<1> DEFINE b == (m.count = 0)
           e == [m EXCEPT !.due = b, !.ahead = TRUE]
<1>1. m \in OpenMarkers /\ b \in BOOLEAN
  BY MarkerIs
<1>2. Earlier(m) = e
  BY DEF Earlier
<1>3. (b => m.due /\ ~m.handed) /\ (~b => m.count # 0)
  BY <1>1 DEF OpenMarkers
<1>4. m.count \in 0..MaxCount /\ m.handed \in BOOLEAN /\ m.kind = "open"
      /\ m = [kind |-> m.kind, count |-> m.count, due |-> m.due, handed |-> m.handed, ahead |-> m.ahead]
  BY <1>1 DEF OpenMarkers
<1> HIDE DEF b
<1>5. e \in [kind: {"open"}, count: 0..MaxCount, due: BOOLEAN, handed: BOOLEAN, ahead: BOOLEAN]
      /\ e.count = m.count /\ e.due = b /\ e.handed = m.handed
  BY <1>1, <1>4
<1>6. m.count = 0 => b
  BY DEF b
<1>7. e \in OpenMarkers
  BY <1>3, <1>5, <1>6 DEF OpenMarkers
<1> QED BY <1>2, <1>3, <1>5, <1>7

\* The episode of one attempt: its deadline is ahead of an open marker only.
Episode == marker \in Markers /\ quiet \in BOOLEAN /\ (quiet => Present(marker) /\ ~marker.due)

\* How a step may change the marker, and what it does to the deadline.
MarkerMoves ==
  \/ UNCHANGED <<marker, quiet>>
  \/ ~Readable(marker) /\ marker' \in {marker, NoMarker} /\ quiet' \in {quiet, FALSE}
  \/ marker' \in {marker, Requested(marker)} /\ quiet' = quiet
  \/ (marker' = marker \/ (marker.due /\ marker' = Attempted(marker))) /\ quiet' = (quiet \/ ~marker'.due)
  \/ CanSucceed(marker) /\ marker' \in {marker, Succeeded(marker)} /\ quiet' = quiet
  \/ marker' \in {marker, NoMarker} /\ quiet' = (quiet /\ marker'.kind # "absent")
  \/ marker' = Later(marker) /\ quiet' = FALSE
  \/ Present(marker) /\ marker' = Earlier(marker) /\ quiet' = quiet

Scheduled ==
  /\ Present(marker) /\ marker.due /\ Present(marker') /\ ~marker'.due
       => ~quiet /\ marker'.count >= marker.count
  /\ ~(Present(marker) /\ marker.ahead) => marker' \in OpenMarkers \union {NoMarker, marker}

\* Such moves keep the schedule.
LEMMA MarkerKeepsSchedule ==
  ASSUME Episode, MarkerMoves
  PROVE  Episode' /\ Scheduled
<1>1. marker \in Markers /\ quiet \in BOOLEAN /\ (quiet => Present(marker) /\ ~marker.due)
  BY DEF Episode
<1>2. /\ ~Present(marker) => marker \in {NoMarker, BadMarker} /\ marker.due
      /\ Present(marker) => marker.count \in 0..MaxCount /\ marker.due \in BOOLEAN
  BY <1>1, MarkerIs
<1>3. NoMarker \in Markers /\ ~Present(NoMarker) /\ NoMarker.kind = "absent"
      /\ BadMarker \in Markers /\ ~Present(BadMarker) /\ BadMarker.due
  BY DEF Markers, Present, NoMarker, BadMarker, Unattempted
<1>4. \A m \in OpenMarkers : m \in Markers /\ Present(m) /\ m.due \in BOOLEAN
  BY DEF Markers, OpenMarkers, Present
<1>5. CASE marker' = marker /\ quiet' \in BOOLEAN /\ (quiet' => quiet \/ ~marker.due)
  BY <1>1, <1>2, <1>5 DEF Episode, Scheduled
<1>6. CASE marker' = NoMarker /\ quiet' = FALSE
  BY <1>3, <1>6 DEF Episode, Scheduled
<1>7. CASE UNCHANGED <<marker, quiet>>
  BY <1>1, <1>5, <1>7
<1>8. CASE ~Readable(marker) /\ marker' \in {marker, NoMarker} /\ quiet' \in {quiet, FALSE}
  <2>1. ~Present(marker)
    BY <1>8 DEF Readable, Present
  <2>2. quiet' = FALSE
    BY <1>1, <1>8, <2>1
  <2> QED BY <1>5, <1>6, <1>8, <2>2
<1>9. CASE marker' \in {marker, Requested(marker)} /\ quiet' = quiet
  <2>1. CASE marker' = marker
    BY <1>1, <1>5, <1>9, <2>1
  <2>2. CASE ~Present(marker) /\ marker' = Requested(marker) /\ marker' \in OpenMarkers /\ marker'.due
    <3>1. Present(marker') /\ quiet' = FALSE
      BY <1>1, <1>4, <1>9, <2>2
    <3> QED BY <1>4, <2>2, <3>1 DEF Episode, Scheduled
  <2> QED BY <1>1, <1>9, <2>1, <2>2, RequestedIs
<1>10. CASE (marker' = marker \/ (marker.due /\ marker' = Attempted(marker))) /\ quiet' = (quiet \/ ~marker'.due)
  <2>1. quiet' \in BOOLEAN /\ (quiet' => quiet \/ ~marker'.due)
    BY <1>10
  <2>2. CASE marker' = marker
    BY <1>5, <2>1, <2>2
  <2>3. CASE marker' # marker
    <3>1. marker.due /\ Present(marker) /\ ~quiet
      BY <1>1, <1>10, <2>3, AttemptedIs
    <3>2. \/ marker.ahead /\ marker' = BadMarker
          \/ ~marker.ahead /\ marker' \in OpenMarkers /\ marker'.count >= marker.count
      BY <1>1, <1>10, <2>3, AttemptedIs
    <3>3. CASE marker.ahead /\ marker' = BadMarker
      BY <1>3, <2>1, <3>1, <3>3 DEF Episode, Scheduled
    <3>4. CASE ~marker.ahead /\ marker' \in OpenMarkers /\ marker'.count >= marker.count
      BY <1>4, <2>1, <3>1, <3>4 DEF Episode, Scheduled
    <3> QED BY <3>2, <3>3, <3>4
  <2> QED BY <2>2, <2>3
<1>11. CASE CanSucceed(marker) /\ marker' \in {marker, Succeeded(marker)} /\ quiet' = quiet
  <2>1. CASE marker' = marker
    BY <1>1, <1>5, <1>11, <2>1
  <2>2. CASE Present(marker) /\ marker' \in OpenMarkers /\ marker'.due = marker.due
    BY <1>1, <1>4, <1>11, <2>2 DEF Episode, Scheduled
  <2> QED BY <1>1, <1>11, <2>1, <2>2, SucceededIs
<1>12. CASE marker' \in {marker, NoMarker} /\ quiet' = (quiet /\ marker'.kind # "absent")
  <2>1. CASE marker' = marker
    BY <1>1, <1>5, <1>12, <2>1
  <2>2. CASE marker' = NoMarker
    BY <1>3, <1>6, <1>12, <2>2
  <2> QED BY <1>12, <2>1, <2>2
<1>13. CASE marker' = Later(marker) /\ quiet' = FALSE
  <2>1. CASE marker' = marker
    BY <1>5, <1>13, <2>1
  <2>2. CASE marker' \in OpenMarkers /\ marker'.due
    BY <1>4, <1>13, <2>2 DEF Episode, Scheduled
  <2> QED BY <1>1, <1>13, <2>1, <2>2, LaterIs
<1>14. CASE Present(marker) /\ marker' = Earlier(marker) /\ quiet' = quiet
  <2>1. marker' \in OpenMarkers /\ marker'.count = marker.count /\ (~marker.due => ~marker'.due)
    BY <1>1, <1>14, EarlierIs
  <2> QED BY <1>1, <1>2, <1>4, <1>14, <2>1 DEF Episode, Scheduled
<1> QED BY <1>7, <1>8, <1>9, <1>10, <1>11, <1>12, <1>13, <1>14 DEF MarkerMoves

\* Every step moves the marker as a schedule allows.
LEMMA StepMoves ==
  ASSUME Episode, [Next]_vars
  PROVE  MarkerMoves
<1>1. ASSUME UNCHANGED <<marker, quiet>>
      PROVE  MarkerMoves
  BY <1>1 DEF MarkerMoves
<1>2. ASSUME NEW ok, Persist(NoMarker, ok) \/ Persist(Requested(marker), ok) \/ Persist(Attempted(marker), ok)
      PROVE  /\ Persist(NoMarker, ok) => marker' \in {marker, NoMarker}
             /\ Persist(Requested(marker), ok) => marker' \in {marker, Requested(marker)}
             /\ Persist(Attempted(marker), ok) => marker' \in {marker, Attempted(marker)}
  BY DEF Persist
<1>3. ASSUME RecordSuccess, quiet' = quiet
      PROVE  MarkerMoves
  BY <1>3 DEF RecordSuccess, Persist, MarkerMoves
<1>4. CASE LoadMarker
  <2>1. CASE ~Readable(marker) /\ marker' \in {marker, NoMarker} /\ quiet' \in {quiet, FALSE}
    BY <2>1 DEF MarkerMoves
  <2>2. CASE ~(~Readable(marker) /\ marker' \in {marker, NoMarker} /\ quiet' \in {quiet, FALSE})
    BY <1>1, <1>4, <2>2 DEF LoadMarker, Persist
  <2> QED BY <2>1, <2>2
<1>5. CASE ExpiredOpen
  <2>1. marker' \in {marker, Requested(marker)} /\ quiet' = quiet
    BY <1>5 DEF ExpiredOpen, Persist
  <2> QED BY <2>1 DEF MarkerMoves
<1>6. CASE AttemptOnOpen
  <2>1. marker.due /\ marker' \in {marker, Attempted(marker)} /\ quiet' = (quiet \/ ~marker'.due)
    BY <1>6 DEF AttemptOnOpen, Persist
  <2> QED BY <2>1 DEF MarkerMoves
<1>7. CASE HandoffOnOpen \/ RecoverOpened
  <2>1. quiet' = quiet /\ (RecordSuccess \/ marker' = marker)
    BY <1>7 DEF HandoffOnOpen, RecoverOpened
  <2> QED BY <1>1, <1>3, <2>1
<1>8. CASE Start \/ WarmOpen \/ HandedOpen \/ RefreshDisabled \/ HubOnOpen \/ RecoverOnOpen \/ Register \/ Transfer
  BY <1>1, <1>8 DEF Start, WarmOpen, HandedOpen, RefreshDisabled, HubOnOpen, RecoverOnOpen, Register,
     Transfer, files
<1>9. ASSUME NEW r \in Resources, Serving(r)
      PROVE  MarkerMoves
  <2>1. CASE RequestMarker(r)
    <3>1. marker' \in {marker, Requested(marker)} /\ quiet' = quiet
      BY <2>1 DEF RequestMarker, Persist
    <3> QED BY <3>1 DEF MarkerMoves
  <2>2. CASE AttemptNow(r)
    <3>1. (marker' = marker \/ (marker.due /\ marker' = Attempted(marker))) /\ quiet' = (quiet \/ ~marker'.due)
      BY <2>2 DEF AttemptNow, MayAttempt, Persist
    <3> QED BY <3>1 DEF MarkerMoves
  <2>3. CASE Handoff(r)
    <3>1. quiet' = quiet /\ (RecordSuccess \/ marker' = marker)
      BY <2>3 DEF Handoff
    <3> QED BY <1>1, <1>3, <3>1
  <2>4. CASE ~(RequestMarker(r) \/ AttemptNow(r) \/ Handoff(r))
    BY <1>1, <1>9, <2>4 DEF Serving, AdmitEnds, AgainEnds, RetireEnds, CheckGeneration, HubAnswersCall,
      LockRuntime, AbandonLock, Swap, files
  <2> QED BY <2>1, <2>2, <2>3, <2>4
<1>10. ASSUME NEW r \in Resources, Begin(r, "admit") \/ Begin(r, "retire") \/ TakeMu(r)
       PROVE  MarkerMoves
  BY <1>1, <1>10 DEF Begin, TakeMu, files
<1>11. CASE Healthy
  <2>1. marker' \in {marker, NoMarker} /\ quiet' = (quiet /\ marker'.kind # "absent")
    BY <1>11 DEF Healthy, ClearMarker, Persist
  <2> QED BY <2>1 DEF MarkerMoves
<1>12. CASE OrphanReleases \/ BeginHealthy \/ TakeMuHealthy \/ BeginClose \/ TakeMuClose \/ CloseHolds
            \/ Exit \/ Crash \/ Lapse \/ Revoke \/ LoseState \/ Settle \/ UNCHANGED vars
  BY <1>1, <1>12 DEF OrphanReleases, BeginHealthy, TakeMuHealthy, BeginClose, TakeMuClose, CloseHolds,
    Exit, Crash, Down, Lapse, Revoke, LoseState, Settle, files, vars
<1>13. CASE Tick
  BY <1>13 DEF Tick, MarkerMoves
<1>14. CASE ClockBack
  BY <1>14 DEF ClockBack, MarkerMoves
<1> QED BY <1>4, <1>5, <1>6, <1>7, <1>8, <1>9, <1>10, <1>11, <1>12, <1>13, <1>14
        DEF Next, Opening, Closing

\* Episode is an invariant.
LEMMA AlwaysEpisode == Spec => []Episode
<1>1. Init => Episode
  BY DEF Init, Episode, Markers
<1>2. Episode /\ [Next]_vars => Episode'
  BY StepMoves, MarkerKeepsSchedule
<1> QED BY <1>1, <1>2, PTL DEF Spec

\* Between two attempts of an episode lies the deadline the first of them
\* persisted, over failures, restarts and both refresh paths, and no step writes a
\* marker the next start refuses unless the clock was set back
\* (markRegistrationRefreshAttempted, requestRegistrationRefresh).
THEOREM DeadlinesAreKept == Spec => ScheduleKept
<1>1. Episode /\ [Next]_vars => [Scheduled]_vars
  BY StepMoves, MarkerKeepsSchedule
<1>2. Spec => [][Scheduled]_vars
  BY <1>1, AlwaysEpisode, PTL DEF Spec
<1> QED BY <1>2 DEF ScheduleKept, Scheduled

--------------------------------------------------------------------------------
(***************************************************************************)
(* The account credential and the enrolment.                               *)
(***************************************************************************)
States == [cred: {"none", "partial", "complete"}, pending: BOOLEAN]

\* Where an open has not yet come to the credential.
EarlyPcs == {"load", "warm", "handed", "refresh", "hub", "recover", "register"}

\* Where an open may stand, given the state, the marker and the Hub.
Earned ==
  /\ state \in States /\ spent \in Nat
  /\ state.pending => revoked
  /\ open.pc \in {"warm", "register"} => marker.kind = "absent"
  /\ At("register") => state.cred # "complete"
  /\ At("recover") => revoked
  /\ open.pc \in EarlyPcs => spent = 0
  /\ open.kind = "warm" => open.pc \in {"opened", "serving", "down"}
  /\ At("opened") /\ open.kind = "warm" /\ ~open.tried => spent = 0

Approved ==
  /\ spent' > spent => spent' = 1 /\ (revoked \/ state.pending)
  /\ At("register") => state.cred # "complete" /\ marker.kind = "absent"

Authority == Ruled /\ Episode /\ Earned

\* A step of the open, and what it must leave true.
LEMMA StepEarns ==
  ASSUME Earned, open \in Openings, NEW pc \in Pcs, Step(pc), UNCHANGED state, revoked' = revoked,
         open.kind # "warm" \/ pc \in {"opened", "serving", "down"},
         pc = "opened" => At("opened"),
         pc \in {"warm", "register"} => marker'.kind = "absent",
         pc = "register" => state.cred # "complete",
         pc = "recover" => revoked,
         pc \in EarlyPcs => open.pc \in EarlyPcs \/ spent = 0
  PROVE  Earned' /\ Approved
<1>1. open'.pc = pc /\ open'.kind = open.kind /\ open'.tried = open.tried /\ spent' = spent
  BY DEF Step, Openings
<1>2. spent \in Nat
  BY DEF Earned
<1> QED BY <1>1, <1>2 DEF Earned, Approved, At, EarlyPcs

\* An open that succeeds without the account credential.
LEMMA OpenedEarns ==
  ASSUME Earned, open \in Openings, NEW kind, NEW fresh, Opened(kind, fresh), state' \in States,
         state'.pending => state.pending, revoked' = revoked,
         kind = "warm" => spent = 0
  PROVE  Earned' /\ Approved
<1>1. open'.pc = "opened" /\ open'.kind = kind /\ spent' = spent
  BY DEF Opened, Openings
<1>2. spent \in Nat
  BY DEF Earned
<1> QED BY <1>1, <1>2 DEF Earned, Approved, At, EarlyPcs

\* What leaves the open alone.
LEMMA ElsewhereEarns ==
  ASSUME Earned, UNCHANGED <<open, spent>>, state' \in States, revoked' \in {revoked, TRUE},
         state'.pending => state.pending, state'.cred \in {state.cred, "none"},
         marker'.kind = marker.kind \/ At("serving")
  PROVE  Earned' /\ Approved
<1>1. spent \in Nat /\ ~(spent' > spent)
  BY DEF Earned
<1>2. Approved
  BY <1>1 DEF Earned, Approved, At
<1>3. state'.pending => revoked'
  BY DEF Earned
<1>4. open.pc \in {"warm", "register"} => marker'.kind = "absent"
  BY DEF Earned, At
<1>5. At("register") => state'.cred # "complete"
  BY DEF Earned
<1>6. At("recover") => revoked'
  BY DEF Earned
<1> QED BY <1>1, <1>2, <1>3, <1>4, <1>5, <1>6 DEF Earned, At

\* The account credential is taken by an open that has not taken it, of a device the
\* Hub rejects.
LEMMA RecoverEarns ==
  ASSUME Earned, open \in Openings, RecoverOnOpen \/ RecoverOpened
  PROVE  Earned' /\ Approved
<1>1. state \in States /\ spent = 0 /\ revoked
  <2>1. CASE RecoverOnOpen
    BY <2>1 DEF RecoverOnOpen, Earned, At, EarlyPcs
  <2>2. CASE RecoverOpened
    BY <2>2 DEF RecoverOpened, MayRecoverOpened, Earned
  <2> QED BY <2>1, <2>2
<1>2. spent' = 1
  BY <1>1 DEF RecoverOnOpen, RecoverOpened
<1>3. state' \in States /\ (state'.pending => revoked')
  <2>1. CASE Recovered
    BY <1>1, <2>1 DEF Recovered, States
  <2>2. CASE Unrecovered
    BY <1>1, <2>2 DEF Unrecovered, States
  <2> QED BY <2>1, <2>2 DEF RecoverOnOpen, RecoverOpened
<1>4. /\ open'.pc \in {"handoff", "down", "opened"}
      /\ open'.kind = "warm" => open'.pc \in {"opened", "serving", "down"}
      /\ open'.pc = "opened" => open'.tried
  <2>1. CASE RecoverOnOpen
    BY <2>1 DEF RecoverOnOpen, Openings
  <2>2. CASE RecoverOpened
    BY <2>2 DEF RecoverOpened, At, Openings
  <2> QED BY <2>1, <2>2
<1>5. Approved
  BY <1>1, <1>2 DEF Approved, RecoverOnOpen, RecoverOpened, At
<1> QED BY <1>2, <1>3, <1>4, <1>5 DEF Earned, At, EarlyPcs

\* What an open makes of the persisted state and of the Hub's answer.
LEMMA Answers ==
  ASSUME Earned, NEW o, Failed(o), (o = "pending" /\ OfflineOpens(o)) \/ HubAnswers(o),
         o \in {"rejected", "pending", "refused"}
  PROVE  (Step("recover") /\ revoked) \/ Step("down")
<1>1. o = "pending" /\ OfflineOpens(o) => state.pending
  BY DEF OfflineOpens
<1>2. HubAnswers(o) /\ o \in {"rejected", "pending"} => revoked \/ state.pending
  BY DEF HubAnswers
<1>3. Step("down") \/ (Step("recover") /\ o \in {"rejected", "pending"})
  BY DEF Failed, MayRecover
<1> QED BY <1>1, <1>2, <1>3 DEF Earned

\* The open comes to the credential and to the enrolment only as it may.
LEMMA OpeningEarns ==
  ASSUME Authority, Opening
  PROVE  Earned' /\ Approved
<1>1. open \in Openings /\ Earned /\ marker \in Markers /\ state \in States
  BY DEF Authority, Ruled, Shapes, Episode, Earned
<1>2. open.pc \in EarlyPcs => open.kind # "warm" /\ spent = 0
  BY <1>1 DEF Earned, EarlyPcs
<1>3. Step("down") /\ UNCHANGED <<state, revoked>> => Earned' /\ Approved
  BY <1>1, StepEarns DEF Pcs, EarlyPcs
<1>4. CASE Start
  BY <1>1, <1>4 DEF Start, files, hub, Earned, Approved, At, EarlyPcs
<1>5. CASE LoadMarker
  <2>1. At("load") /\ open.pc \in EarlyPcs /\ UNCHANGED <<state, revoked>>
    BY <1>5 DEF LoadMarker, At, EarlyPcs, hub
  <2>2. Readable(marker) /\ ~Present(marker) => marker.kind = "absent"
    BY <1>1, MarkerIs DEF Readable, Present
  <2>3. \/ Step("warm") /\ marker'.kind = "absent"
        \/ Step("handed") \/ Step("refresh") \/ Step("down")
    BY <1>5, <2>2 DEF LoadMarker, Fails, Persist, NoMarker, Unattempted
  <2> QED BY <1>1, <1>2, <1>3, <2>1, <2>3, StepEarns DEF Pcs, EarlyPcs
<1>6. CASE WarmOpen
  <2>1. open.pc \in EarlyPcs /\ UNCHANGED <<state, revoked, marker>> /\ marker.kind = "absent"
    BY <1>1, <1>6 DEF WarmOpen, At, EarlyPcs, files, hub, Earned
  <2>2. PICK o \in OpenOutcomes \ {"expired"} :
          /\ OfflineOpens(o)
          /\ \/ o = "ok" /\ Opened("warm", ~lapsed)
             \/ o = "pending" /\ Failed(o)
             \/ o \in {"missing", "incomplete"} /\ Step(IF config.enrol THEN "register" ELSE "down")
             \/ o = "transient" /\ Fails
    BY <1>6 DEF WarmOpen
  <2>3. CASE Opened("warm", ~lapsed)
    BY <1>1, <1>2, <2>1, <2>3, OpenedEarns
  <2>4. CASE o = "pending" /\ Failed(o)
    <3>1. (Step("recover") /\ revoked) \/ Step("down")
      BY <1>1, <2>2, <2>4, Answers
    <3> QED BY <1>1, <1>2, <1>3, <2>1, <3>1, StepEarns DEF Pcs, EarlyPcs
  <2>5. CASE o \in {"missing", "incomplete"} /\ Step(IF config.enrol THEN "register" ELSE "down")
    <3>1. state.cred # "complete"
      BY <2>2, <2>5 DEF OfflineOpens
    <3>2. Step("register") \/ Step("down")
      BY <2>5
    <3> QED BY <1>1, <1>2, <1>3, <2>1, <3>1, <3>2, StepEarns DEF Pcs, EarlyPcs
  <2> QED BY <1>3, <2>1, <2>2, <2>3, <2>4, <2>5 DEF Fails
<1>7. CASE ExpiredOpen
  <2>1. open.pc \in EarlyPcs /\ UNCHANGED <<state, revoked>> /\ (Step("refresh") \/ Step("down"))
    BY <1>7 DEF ExpiredOpen, At, EarlyPcs, hub, Fails
  <2> QED BY <1>1, <1>2, <1>3, <2>1, StepEarns DEF Pcs, EarlyPcs
<1>8. CASE HandedOpen
  <2>1. open.pc \in EarlyPcs /\ UNCHANGED <<state, revoked, marker>>
    BY <1>8 DEF HandedOpen, At, EarlyPcs, files, hub
  <2>2. PICK o \in OpenOutcomes :
          /\ OfflineOpens(o)
          /\ \/ o = "ok" /\ Opened("warm", ~lapsed)
             \/ o = "pending" /\ Failed(o)
             \/ Step("refresh") \/ Fails
    BY <1>8 DEF HandedOpen
  <2>3. CASE Opened("warm", ~lapsed)
    BY <1>1, <1>2, <2>1, <2>3, OpenedEarns
  <2>4. CASE o = "pending" /\ Failed(o)
    <3>1. (Step("recover") /\ revoked) \/ Step("down")
      BY <1>1, <2>2, <2>4, Answers
    <3> QED BY <1>1, <1>2, <1>3, <2>1, <3>1, StepEarns DEF Pcs, EarlyPcs
  <2>5. CASE Step("refresh")
    BY <1>1, <1>2, <2>1, <2>5, StepEarns DEF Pcs, EarlyPcs
  <2> QED BY <1>3, <2>1, <2>2, <2>3, <2>4, <2>5 DEF Fails
<1>9. CASE RefreshDisabled \/ AttemptOnOpen
  <2>1. open.pc \in EarlyPcs /\ UNCHANGED <<state, revoked>> /\ (Step("hub") \/ Step("down"))
    BY <1>9 DEF RefreshDisabled, AttemptOnOpen, At, EarlyPcs, files, hub, Fails
  <2> QED BY <1>1, <1>2, <1>3, <2>1, StepEarns DEF Pcs, EarlyPcs
<1>10. CASE HubOnOpen
  <2>1. open.pc \in EarlyPcs /\ UNCHANGED <<state, revoked, marker>>
    BY <1>10 DEF HubOnOpen, At, EarlyPcs, files
  <2>2. PICK o \in HubOutcomes :
          /\ HubAnswers(o)
          /\ \/ Step("handoff") \/ Step("refresh") \/ Step("down")
             \/ o \in {"rejected", "pending", "refused"} /\ Failed(o)
    BY <1>10 DEF HubOnOpen
  <2>3. Step("handoff") \/ Step("refresh") \/ Step("down") \/ (Step("recover") /\ revoked)
    BY <1>1, <2>2, Answers
  <2> QED BY <1>1, <1>2, <1>3, <2>1, <2>3, StepEarns DEF Pcs, EarlyPcs
<1>11. CASE HandoffOnOpen
  <2>1. At("handoff") /\ UNCHANGED <<state, revoked>>
    BY <1>11 DEF HandoffOnOpen, hub
  <2> DEFINE kind == IF open.kind = "none" THEN "refresh" ELSE open.kind
  <2>2. Opened(kind, ~lapsed) \/ Step("down")
    BY <1>11 DEF HandoffOnOpen, Fails
  <2>3. kind # "warm"
    BY <1>1, <2>1 DEF Earned, At
  <2> HIDE DEF kind
  <2>4. ASSUME Opened(kind, ~lapsed)
        PROVE  Earned' /\ Approved
    <3>1. open'.pc = "opened" /\ open'.kind # "warm" /\ spent' = spent
      BY <1>1, <2>3, <2>4 DEF Opened, Openings
    <3> QED BY <1>1, <2>1, <3>1 DEF Earned, Approved, At, EarlyPcs
  <2> QED BY <1>3, <2>1, <2>2, <2>4
<1>12. CASE RecoverOnOpen
  BY <1>1, <1>12, RecoverEarns
<1>13. CASE Register
  <2>1. open.pc \in EarlyPcs /\ UNCHANGED <<marker, revoked>>
    BY <1>13 DEF Register, At, EarlyPcs
  <2>2. CASE Opened("registration", TRUE) /\ state' = [cred |-> "complete", pending |-> FALSE]
    BY <1>1, <2>1, <2>2, OpenedEarns DEF States
  <2>3. CASE Step("down") /\ state' \in {state, [state EXCEPT !.cred = "partial"]}
    <3>1. state' \in States /\ (state'.pending => state.pending)
      BY <1>1, <2>3 DEF States
    <3>2. open'.pc = "down" /\ spent' = spent /\ spent \in Nat
      BY <1>1, <2>3 DEF Step, Openings, Earned
    <3> QED BY <1>1, <2>1, <3>1, <3>2 DEF Earned, Approved, At, EarlyPcs
  <2> QED BY <1>13, <2>2, <2>3 DEF Register, Fails
<1>14. CASE Transfer
  <2>1. UNCHANGED <<state, revoked>> /\ Step("serving")
    BY <1>14 DEF Transfer, files, hub
  <2> QED BY <1>1, <2>1, StepEarns DEF Pcs, EarlyPcs
<1> QED BY <1>4, <1>5, <1>6, <1>7, <1>8, <1>9, <1>10, <1>11, <1>12, <1>13, <1>14 DEF Opening

\* Earned is inductive.
LEMMA StepIsEarned ==
  ASSUME Authority, [Next]_vars
  PROVE  Earned' /\ Approved
<1>1. Ruled /\ Earned /\ open \in Openings /\ state \in States /\ marker \in Markers
  BY DEF Authority, Ruled, Shapes, Episode, Earned
<1>2. ASSUME UNCHANGED <<open, spent, state, revoked>>, marker' = marker \/ At("serving")
      PROVE  Earned' /\ Approved
  BY <1>1, <1>2, ElsewhereEarns
<1>3. CASE Opening
  BY <1>3, OpeningEarns
<1>4. CASE RecoverOpened
  BY <1>1, <1>4, RecoverEarns
<1>5. ASSUME NEW r \in Resources, Serving(r)
      PROVE  Earned' /\ Approved
  <2>1. At("serving")
    <3>1. calls[r].pc # "idle"
      BY <1>1, <1>5, CallFacts DEF Callers, Serving, AdmitEnds, AgainEnds, RetireEnds, CheckGeneration, In,
        RequestMarker, AttemptNow, HubAnswersCall, Handoff, LockRuntime, AbandonLock, Swap
    <3> QED BY <1>1, <3>1, CallFacts DEF Callers
  <2>2. UNCHANGED <<open, spent, state, revoked>>
    BY <1>5 DEF Serving, AdmitEnds, AgainEnds, RetireEnds, CheckGeneration, RequestMarker, AttemptNow,
      HubAnswersCall, Handoff, LockRuntime, AbandonLock, Swap, files, hub, opening
  <2> QED BY <1>2, <2>1, <2>2
<1>6. ASSUME NEW r \in Resources, Begin(r, "admit") \/ Begin(r, "retire") \/ TakeMu(r)
      PROVE  Earned' /\ Approved
  BY <1>2, <1>6 DEF Begin, TakeMu, files, hub, opening
<1>7. CASE OrphanReleases \/ BeginHealthy \/ TakeMuHealthy \/ BeginClose \/ TakeMuClose \/ CloseHolds
           \/ Lapse \/ Settle \/ UNCHANGED vars
  BY <1>2, <1>7 DEF OrphanReleases, BeginHealthy, TakeMuHealthy, BeginClose, TakeMuClose, CloseHolds,
    Lapse, Settle, files, hub, opening, vars
<1>8. CASE Healthy
  <2>1. Health \in Callers /\ calls[Health].pc = "in"
    BY <1>1, <1>8, CallersDiffer, CallFacts DEF Healthy, ClearMarker, In
  <2>2. At("serving") /\ UNCHANGED <<open, spent, state, revoked>>
    BY <1>1, <1>8, <2>1, CallFacts DEF Healthy, ClearMarker, hub, opening
  <2> QED BY <1>2, <2>2
<1>9. CASE Exit \/ Crash
  <2>1. Step("down") /\ UNCHANGED <<state, revoked>>
    BY <1>9 DEF Exit, Crash, Down, files, hub
  <2> QED BY <1>1, <2>1, StepEarns DEF Pcs, EarlyPcs
<1>10. CASE Revoke
  BY <1>1, <1>10, ElsewhereEarns DEF Revoke, files, opening
<1>11. CASE LoseState
  BY <1>1, <1>11, ElsewhereEarns DEF LoseState, hub, opening, States
<1>12. CASE Tick \/ ClockBack
  <2>1. marker'.kind = marker.kind
    <3>1. CASE marker' = marker
      BY <3>1
    <3>2. CASE Present(marker) /\ marker' \in OpenMarkers
      BY <3>2 DEF Present, OpenMarkers
    <3> QED BY <1>1, <1>12, <3>1, <3>2, LaterIs, EarlierIs DEF Tick, ClockBack
  <2>2. UNCHANGED <<open, spent, state, revoked>>
    BY <1>12 DEF Tick, ClockBack, hub, opening
  <2> QED BY <1>1, <2>1, <2>2, ElsewhereEarns
<1> QED BY <1>3, <1>4, <1>5, <1>6, <1>7, <1>8, <1>9, <1>10, <1>11, <1>12 DEF Next, Closing

\* The account credential is taken once in a process, and only when the Hub rejects
\* the device credential or a recovery is pending; enrolment is not the way out of
\* a finished identity or of an episode (mayConsumeNativeRecoveryAuthority,
\* RecoverCredentialAfterDeviceAuthorizationFailure, OpenNativeRuntime).
THEOREM AuthorityIsEarned == Spec => AuthorityEarned
<1>1. Init => Earned
  <2> SUFFICES ASSUME Init
               PROVE  Earned
    OBVIOUS
  <2>1. state \in States /\ ~state.pending
    BY DEF Init, States
  <2>2. open.pc = "down" /\ spent = 0
    BY DEF Init
  <2> QED BY <2>1, <2>2 DEF Earned, At, EarlyPcs
<1>2. Ruled /\ Episode /\ Earned /\ [Next]_vars => Earned' /\ [Approved]_vars
  BY StepIsEarned DEF Authority
<1>3. Spec => [][Approved]_vars
  BY <1>1, <1>2, CallsAreRuled, AlwaysEpisode, PTL DEF Spec
<1> QED BY <1>3 DEF AuthorityEarned, Approved

--------------------------------------------------------------------------------
(***************************************************************************)
(* Who waits for whom.                                                     *)
(***************************************************************************)
\* What a call of a is while it has refreshMu.
HasMu(a, c) ==
  \/ a \in Resources /\ Refreshes(c)
  \/ a = Health /\ c.pc = "in"
  \/ a = Closer /\ c.pc = "queued"

MuIsHad == mu # Nobody => mu \in Callers /\ HasMu(mu, calls[mu])

\* The writers of runtimeMu: the calls that say so, each once, and abandoned ones.
Queue == lock.writers
Queued ==
  /\ Queue \in Seq(Callers \union {Orphan})
  /\ \A i \in DOMAIN Queue : Queue[i] # Orphan => calls[Queue[i]].pc = "queued"
  /\ \A i, j \in DOMAIN Queue : Queue[i] = Queue[j] /\ Queue[i] # Orphan => i = j
  /\ \A a \in Callers : calls[a].pc = "queued" => \E i \in DOMAIN Queue : Queue[i] = a

\* A call that is to be inside is a reader, or one that a writer keeps out.
Entered == \A a \in Callers : calls[a].pc = "in" => a \in lock.readers \union lock.waiting
KeptOut == lock.waiting # {} => Queue # <<>>

Chained == MuIsHad /\ Queued /\ Entered /\ KeptOut

\* A caller that waits for refreshMu or for runtimeMu.
Waits(a) ==
  \/ calls[a].pc \in {"refresh", "mu"} /\ mu # Nobody
  \/ a \in lock.waiting
  \/ calls[a].pc = "queued" /\ ~Holds(a)

Busy(a) == calls[a].pc \notin {"idle", "done"}

\* While a caller is in the admitter, one of them, or the goroutine of an abandoned
\* writer, waits for neither lock.
SomebodyGoesOn == (\E a \in Callers : Busy(a)) => Holds(Orphan) \/ \E a \in Callers : Busy(a) /\ ~Waits(a)

--------------------------------------------------------------------------------
\* How a step that makes c of a's call changes the calls, refreshMu and runtimeMu.
CallsMove(a, c) ==
  calls'[a] = c /\ \A x \in Callers : x # a => calls'[x].pc = calls[x].pc /\ calls'[x].job = calls[x].job

MuPasses(a, c) == mu' = Nobody \/ (mu' = a /\ HasMu(a, c)) \/ (mu' = mu /\ mu # a)

ReadersStay(a, c) ==
  /\ c.pc = "in" => a \in lock'.readers \union lock'.waiting
  /\ \A x \in lock.readers \union lock.waiting : x # a => x \in lock'.readers \union lock'.waiting
  /\ lock'.waiting # {} => Queue' # <<>>

QueueMoves(a, c) ==
  \/ Queue' = Queue /\ (c.pc = "queued" <=> calls[a].pc = "queued")
  \/ Queue' = Append(Queue, a) /\ calls[a].pc # "queued" /\ c.pc = "queued"
  \/ Announced(a) /\ Queue' = Tail(Queue) /\ c.pc # "queued"
  \/ Queue' = [i \in DOMAIN Queue |-> IF Queue[i] = a THEN Orphan ELSE Queue[i]] /\ c.pc # "queued"

\* The writers after such a step.
LEMMA QueueStays ==
  ASSUME Queued, NEW a \in Callers, NEW c, CallsMove(a, c), QueueMoves(a, c)
  PROVE  Queued'
<1>1. a # Orphan /\ Orphan \notin Callers
  BY RuntimeAssumption DEF Callers
<1>2. Queue \in Seq(Callers \union {Orphan}) /\ DOMAIN Queue = 1..Len(Queue) /\ Len(Queue) \in Nat
      /\ \A i \in DOMAIN Queue : Queue[i] \in Callers \union {Orphan}
  BY DEF Queued
<1>3. \A i \in DOMAIN Queue : Queue[i] = a => calls[a].pc = "queued"
  BY <1>1 DEF Queued
<1>4. CASE Queue' = Queue /\ (c.pc = "queued" <=> calls[a].pc = "queued")
  BY <1>1, <1>2, <1>3, <1>4 DEF Queued, CallsMove
<1>5. CASE Queue' = Append(Queue, a) /\ calls[a].pc # "queued" /\ c.pc = "queued"
  <2> DEFINE n == Len(Queue)
  <2>1. Queue' \in Seq(Callers \union {Orphan}) /\ DOMAIN Queue' = 1..(n + 1)
        /\ Queue'[n + 1] = a /\ \A i \in 1..n : Queue'[i] = Queue[i] /\ Queue[i] # a
    BY <1>2, <1>3, <1>5
  <2>2. ASSUME NEW i \in DOMAIN Queue', Queue'[i] # Orphan
        PROVE  calls'[Queue'[i]].pc = "queued"
    BY <1>2, <1>5, <2>1, <2>2 DEF Queued, CallsMove
  <2>3. ASSUME NEW i \in DOMAIN Queue', NEW j \in DOMAIN Queue', Queue'[i] = Queue'[j], Queue'[i] # Orphan
        PROVE  i = j
    BY <1>2, <2>1, <2>3 DEF Queued
  <2>4. ASSUME NEW x \in Callers, calls'[x].pc = "queued"
        PROVE  \E i \in DOMAIN Queue' : Queue'[i] = x
    <3>1. CASE x = a
      <4>1. n + 1 \in DOMAIN Queue'
        BY <1>2, <2>1
      <4> QED BY <2>1, <3>1, <4>1
    <3>2. CASE x # a
      <4>1. PICK i \in DOMAIN Queue : Queue[i] = x
        BY <2>4, <3>2 DEF Queued, CallsMove
      <4>2. i \in DOMAIN Queue' /\ Queue'[i] = x
        BY <1>2, <2>1, <4>1
      <4> QED BY <4>2
    <3> QED BY <3>1, <3>2
  <2> QED BY <2>1, <2>2, <2>3, <2>4 DEF Queued
<1>6. CASE Announced(a) /\ Queue' = Tail(Queue) /\ c.pc # "queued"
  <2> DEFINE n == Len(Queue)
  <2>1. Queue # <<>> /\ Queue[1] = a
    BY <1>2, <1>6 DEF Announced, Queue
  <2>2. n \in Nat \ {0} /\ Queue' \in Seq(Callers \union {Orphan}) /\ DOMAIN Queue' = 1..(n - 1)
        /\ \A i \in 1..(n - 1) : i + 1 \in 1..n /\ Queue'[i] = Queue[i + 1]
    BY <1>2, <1>6, <2>1
  <2>3. \A i \in 2..n : i \in DOMAIN Queue /\ Queue[i] # a
    BY <1>1, <1>2, <2>1, <2>2 DEF Queued
  <2>4. ASSUME NEW i \in DOMAIN Queue', Queue'[i] # Orphan
        PROVE  calls'[Queue'[i]].pc = "queued"
    <3>1. i + 1 \in 2..n /\ Queue'[i] = Queue[i + 1]
      BY <2>2
    <3>2. Queue'[i] # a /\ Queue'[i] \in Callers /\ calls[Queue'[i]].pc = "queued"
      BY <1>2, <2>3, <2>4, <3>1 DEF Queued
    <3> QED BY <3>2 DEF CallsMove
  <2>5. ASSUME NEW i \in DOMAIN Queue', NEW j \in DOMAIN Queue', Queue'[i] = Queue'[j], Queue'[i] # Orphan
        PROVE  i = j
    <3>1. i + 1 \in DOMAIN Queue /\ j + 1 \in DOMAIN Queue /\ Queue[i + 1] = Queue[j + 1]
          /\ Queue[i + 1] # Orphan /\ i \in Nat /\ j \in Nat
      BY <1>2, <2>2, <2>5
    <3>2. i + 1 = j + 1
      BY <3>1 DEF Queued
    <3> QED BY <3>1, <3>2
  <2>6. ASSUME NEW x \in Callers, calls'[x].pc = "queued"
        PROVE  \E i \in DOMAIN Queue' : Queue'[i] = x
    <3>1. x # a /\ calls[x].pc = "queued"
      BY <1>6, <2>6 DEF CallsMove
    <3>2. PICK i \in DOMAIN Queue : Queue[i] = x
      BY <3>1 DEF Queued
    <3>3. i \in 2..n
      BY <1>2, <2>1, <3>1, <3>2
    <3>4. i - 1 \in DOMAIN Queue' /\ Queue'[i - 1] = x
      BY <2>2, <3>2, <3>3
    <3> QED BY <3>4
  <2> QED BY <2>2, <2>4, <2>5, <2>6 DEF Queued
<1>7. CASE Queue' = [i \in DOMAIN Queue |-> IF Queue[i] = a THEN Orphan ELSE Queue[i]] /\ c.pc # "queued"
  <2>1. DOMAIN Queue' = DOMAIN Queue /\ Queue' \in Seq(Callers \union {Orphan})
        /\ \A i \in DOMAIN Queue : Queue'[i] = IF Queue[i] = a THEN Orphan ELSE Queue[i]
    BY <1>2, <1>7
  <2>2. ASSUME NEW i \in DOMAIN Queue', Queue'[i] # Orphan
        PROVE  Queue'[i] = Queue[i] /\ Queue[i] # a /\ Queue[i] \in Callers
    BY <1>2, <2>1, <2>2
  <2>3. ASSUME NEW x \in Callers, calls'[x].pc = "queued"
        PROVE  \E i \in DOMAIN Queue' : Queue'[i] = x
    <3>1. x # a /\ calls[x].pc = "queued"
      BY <1>7, <2>3 DEF CallsMove
    <3>2. PICK i \in DOMAIN Queue : Queue[i] = x
      BY <3>1 DEF Queued
    <3> QED BY <2>1, <3>1, <3>2
  <2> QED BY <2>1, <2>2, <2>3 DEF Queued, CallsMove
<1> QED BY <1>4, <1>5, <1>6, <1>7 DEF QueueMoves

\* A step of one call.
LEMMA CallChains ==
  ASSUME Chained, NEW a \in Callers, NEW c, CallsMove(a, c), MuPasses(a, c), ReadersStay(a, c),
         QueueMoves(a, c)
  PROVE  Chained'
<1>1. MuIsHad'
  <2>1. CASE mu' = mu /\ mu # a
    BY <2>1 DEF Chained, MuIsHad, HasMu, Refreshes, CallsMove
  <2> QED BY <2>1 DEF MuPasses, MuIsHad, CallsMove
<1>2. Queued'
  BY QueueStays DEF Chained
<1>3. Entered'
  BY DEF Chained, Entered, CallsMove, ReadersStay
<1>4. KeptOut'
  BY DEF KeptOut, ReadersStay
<1> QED BY <1>1, <1>2, <1>3, <1>4 DEF Chained

\* A queue with one more writer is not empty.
LEMMA AppendedTo ==
  ASSUME NEW q \in Seq(Callers \union {Orphan}), NEW a \in Callers
  PROVE  Append(q, a) # <<>>
<1>1. a \in Callers \union {Orphan}
  OBVIOUS
<1>2. Len(Append(q, a)) = Len(q) + 1 /\ Len(q) \in Nat
  BY <1>1
<1> QED BY <1>2

\* Taking, leaving and queueing for runtimeMu.
LEMMA LockPasses ==
  ASSUME LockShape, NEW a, NEW c, KeptOut
  PROVE  /\ lock' = lock /\ c.pc # "in" => ReadersStay(a, c) /\ Queue' = Queue
         /\ lock' = ReadLocked(lock, a) => ReadersStay(a, c) /\ Queue' = Queue
         /\ lock' = ReadUnlocked(lock, a) /\ c.pc # "in" => ReadersStay(a, c) /\ Queue' = Queue
         /\ lock' = ReadLocked(ReadUnlocked(lock, a), a) => ReadersStay(a, c) /\ Queue' = Queue
         /\ lock' = WriteUnlocked(lock) /\ lock.readers = {} /\ c.pc # "in"
              => ReadersStay(a, c) /\ Queue' = Tail(Queue)
         /\ lock' = ReadLocked(WriteUnlocked(lock), a) /\ lock.readers = {}
              => ReadersStay(a, c) /\ Queue' = Tail(Queue)
         /\ \A w : lock' = [lock EXCEPT !.writers = w] /\ w # <<>> /\ c.pc # "in"
              => ReadersStay(a, c) /\ Queue' = w
<1> DEFINE R == lock.readers  W == lock.waiting
<1>1. lock = [readers |-> R, waiting |-> W, writers |-> Queue] /\ (W # {} => Queue # <<>>)
  BY DEF LockShape, Queue, KeptOut
<1>2. ASSUME NEW l, NEW X, NEW Y, NEW q, l = [readers |-> X, waiting |-> Y, writers |-> q],
             lock' = ReadLocked(l, a), Y # {} => q # <<>>, \A x \in R \union W : x # a => x \in X \union Y
      PROVE  ReadersStay(a, c) /\ Queue' = q
  <2>1. CASE q = <<>>
    <3>1. lock' = [readers |-> X \union {a}, waiting |-> Y, writers |-> q]
      BY <1>2, <2>1 DEF ReadLocked
    <3> QED BY <1>2, <3>1 DEF ReadersStay, Queue
  <2>2. CASE q # <<>>
    <3>1. lock' = [readers |-> X, waiting |-> Y \union {a}, writers |-> q]
      BY <1>2, <2>2 DEF ReadLocked
    <3> QED BY <1>2, <2>2, <3>1 DEF ReadersStay, Queue
  <2> QED BY <2>1, <2>2
<1>3. ReadUnlocked(lock, a) = [readers |-> R \ {a}, waiting |-> W, writers |-> Queue]
      /\ WriteUnlocked(lock) = [readers |-> W, waiting |-> {}, writers |-> Tail(Queue)]
  <2> DEFINE Q == Queue
  <2>1. lock = [readers |-> R, waiting |-> W, writers |-> Q] /\ lock.writers = Q
    BY <1>1 DEF Queue
  <2> HIDE DEF Q, R, W
  <2>2. ReadUnlocked(lock, a) = [readers |-> R \ {a}, waiting |-> W, writers |-> Q]
    BY <2>1 DEF ReadUnlocked
  <2>3. WriteUnlocked(lock) = [readers |-> W, waiting |-> {}, writers |-> Tail(Q)]
    BY <2>1 DEF WriteUnlocked
  <2> QED BY <2>2, <2>3 DEF Q, R, W
<1>4. ASSUME lock' = lock, c.pc # "in"
      PROVE  ReadersStay(a, c) /\ Queue' = Queue
  BY <1>1, <1>4 DEF ReadersStay, Queue
<1>5. ASSUME lock' = ReadUnlocked(lock, a), c.pc # "in"
      PROVE  ReadersStay(a, c) /\ Queue' = Queue
  BY <1>1, <1>3, <1>5 DEF ReadersStay, Queue
<1>6. ASSUME lock' = WriteUnlocked(lock), R = {}, c.pc # "in"
      PROVE  ReadersStay(a, c) /\ Queue' = Tail(Queue)
  BY <1>1, <1>3, <1>6 DEF ReadersStay, Queue
<1>7. ASSUME NEW w, lock' = [lock EXCEPT !.writers = w], w # <<>>, c.pc # "in"
      PROVE  ReadersStay(a, c) /\ Queue' = w
  <2>1. lock' = [readers |-> R, waiting |-> W, writers |-> w]
    BY <1>1, <1>7
  <2> QED BY <1>1, <1>7, <2>1 DEF ReadersStay, Queue
<1>8. ASSUME lock' = ReadLocked(lock, a)
      PROVE  ReadersStay(a, c) /\ Queue' = Queue
  <2> HIDE DEF R, W
  <2>1. \A x \in R \union W : x # a => x \in R \union W
    OBVIOUS
  <2> QED BY <1>1, <1>2, <1>8, <2>1
<1>9. ASSUME lock' = ReadLocked(ReadUnlocked(lock, a), a)
      PROVE  ReadersStay(a, c) /\ Queue' = Queue
  <2> HIDE DEF R, W
  <2>1. \A x \in R \union W : x # a => x \in (R \ {a}) \union W
    OBVIOUS
  <2> QED BY <1>1, <1>2, <1>3, <1>9, <2>1
<1>10. ASSUME lock' = ReadLocked(WriteUnlocked(lock), a), R = {}
       PROVE  ReadersStay(a, c) /\ Queue' = Tail(Queue)
  <2>1. \A x \in R \union W : x # a => x \in W \union {}
    BY <1>10
  <2> HIDE DEF R, W
  <2> QED BY <1>2, <1>3, <1>10, <2>1
<1> QED BY <1>4, <1>5, <1>6, <1>7, <1>8, <1>9, <1>10

\* What a changed call is, of which only the place and the job matter.
LEMMA ChangedCall ==
  ASSUME Ruled, NEW a \in Callers
  PROVE  /\ \A c : calls' = [calls EXCEPT ![a] = c] => CallsMove(a, c)
         /\ \A pc : Go(a, pc) => \E c : CallsMove(a, c) /\ c.pc = pc /\ c.job = calls[a].job
<1>1. calls \in [Callers -> CallSet]
  BY DEF Ruled, Shapes
<1>2. ASSUME NEW c, calls' = [calls EXCEPT ![a] = c]
      PROVE  CallsMove(a, c)
  BY <1>1, <1>2 DEF CallsMove
<1>3. ASSUME NEW pc, Go(a, pc)
      PROVE  \E c : CallsMove(a, c) /\ c.pc = pc /\ c.job = calls[a].job
  <2> DEFINE k == [calls[a] EXCEPT !.pc = pc]
  <2>1. calls' = [calls EXCEPT ![a] = k] /\ k.pc = pc /\ k.job = calls[a].job
    BY <1>1, <1>3 DEF Go, Call, CallSet
  <2> HIDE DEF k
  <2> QED BY <1>2, <2>1
<1> QED BY <1>2, <1>3

\* A caller has refreshMu only while its call says so.
LEMMA MuIsElsewhere ==
  ASSUME Chained, NEW a \in Callers, ~HasMu(a, calls[a])
  PROVE  mu # a
BY CallersDiffer DEF Chained, MuIsHad

--------------------------------------------------------------------------------
\* Calls that come and go without refreshMu (Admit, Retire).
LEMMA VisitChains ==
  ASSUME Ruled, Chained, NEW r \in Resources,
         Begin(r, "admit") \/ Begin(r, "retire") \/ AdmitEnds(r) \/ AgainEnds(r) \/ RetireEnds(r)
  PROVE  Chained'
<1>1. r \in Callers /\ LockShape /\ KeptOut /\ r \in Resources /\ r # Health /\ r # Closer
  BY CallersDiffer DEF Callers, Ruled, Shapes, Chained
<1>2. mu' = mu
  BY DEF Begin, AdmitEnds, AgainEnds, RetireEnds
<1>3. ASSUME NEW c, calls' = [calls EXCEPT ![r] = c], ~Refreshes(calls[r]), c.pc # "queued",
             (lock' = ReadLocked(lock, r)) \/ (lock' = ReadUnlocked(lock, r) /\ c.pc # "in")
      PROVE  Chained'
  <2>1. MuPasses(r, c)
    BY <1>1, <1>2, <1>3, MuIsElsewhere DEF HasMu, MuPasses
  <2>2. ReadersStay(r, c) /\ Queue' = Queue
    BY <1>1, <1>3, LockPasses
  <2>3. QueueMoves(r, c)
    BY <1>3, <2>2 DEF QueueMoves, Refreshes, ReplacePcs
  <2> QED BY <1>1, <1>3, <2>1, <2>2, <2>3, ChangedCall, CallChains
<1>4. CASE Begin(r, "admit") \/ Begin(r, "retire")
  <2>1. PICK job \in {"admit", "retire"} : Begin(r, job)
    BY <1>4
  <2> DEFINE c == [NoCall EXCEPT !.pc = "in", !.job = job]
  <2>2. calls[r].pc = "idle" /\ calls' = [calls EXCEPT ![r] = c] /\ lock' = ReadLocked(lock, r)
    BY <2>1 DEF Begin, Call
  <2>3. c.pc = "in" /\ ~Refreshes(calls[r])
    BY <2>2 DEF NoCall, Refreshes, ReplacePcs
  <2> HIDE DEF c
  <2> QED BY <1>3, <2>2, <2>3
<1>5. ASSUME r \in lock.readers, calls[r].job # "check"
      PROVE  ~Refreshes(calls[r])
  <2>1. calls[r].pc = "in"
    BY <1>5 DEF Ruled, Inside
  <2> QED BY <1>5, <2>1 DEF Refreshes, ReplacePcs
<1>6. CASE AdmitEnds(r) \/ AgainEnds(r) \/ RetireEnds(r)
  <2>1. ~Refreshes(calls[r])
    BY <1>5, <1>6 DEF AdmitEnds, AgainEnds, RetireEnds, In
  <2>2. Leave(r) \/ \E placement \in BOOLEAN : AskRefresh(r, placement)
    BY <1>6 DEF AdmitEnds, AgainEnds, RetireEnds
  <2>3. CASE Leave(r)
    BY <1>3, <2>1, <2>3, NoCallIs DEF Leave, Call
  <2>4. CASE \E placement \in BOOLEAN : AskRefresh(r, placement)
    <3>1. PICK placement \in BOOLEAN : AskRefresh(r, placement)
      BY <2>4
    <3> DEFINE sustained == Failure(r).n >= Threshold
               immediate == ~sustained /\ placement /\ ~Failure(r).used
               k == IF sustained \/ immediate
                    THEN [pc |-> "refresh", job |-> "none", current |-> TRUE, immediate |-> immediate]
                    ELSE NoCall
    <3>2. calls' = [calls EXCEPT ![r] = k] /\ lock' = ReadUnlocked(lock, r)
      BY <3>1 DEF AskRefresh, Call
    <3>3. k.pc \in {"refresh", "idle"}
      BY NoCallIs
    <3> HIDE DEF k
    <3> QED BY <1>3, <2>1, <3>2, <3>3
  <2> QED BY <2>2, <2>3, <2>4
<1> QED BY <1>4, <1>6

\* A refresh, from refreshMu to the swap (NativeAdmitter.refresh).
LEMMA RefreshChains ==
  ASSUME Ruled, Chained, NEW r \in Resources,
         \/ TakeMu(r) \/ CheckGeneration(r) \/ RequestMarker(r) \/ AttemptNow(r)
         \/ HubAnswersCall(r) \/ Handoff(r) \/ LockRuntime(r) \/ AbandonLock(r) \/ Swap(r)
  PROVE  Chained'
<1>1. r \in Callers /\ LockShape /\ KeptOut /\ Queue \in Seq(Callers \union {Orphan})
      /\ calls \in [Callers -> CallSet]
  BY DEF Callers, Ruled, Shapes, Chained, Queued
<1>2. ASSUME NEW c, CallsMove(r, c), c.pc # "queued", calls[r].pc # "queued",
             mu' = Nobody \/ (mu' = r /\ Refreshes(c)),
             \/ lock' = lock /\ c.pc # "in"
             \/ lock' = ReadLocked(lock, r)
             \/ lock' = ReadUnlocked(lock, r) /\ c.pc # "in"
             \/ lock' = ReadLocked(ReadUnlocked(lock, r), r)
      PROVE  Chained'
  <2>1. MuPasses(r, c)
    BY <1>2 DEF HasMu, MuPasses
  <2>2. ReadersStay(r, c) /\ Queue' = Queue
    BY <1>1, <1>2, LockPasses
  <2>3. QueueMoves(r, c)
    BY <1>2, <2>2 DEF QueueMoves
  <2> QED BY <1>1, <1>2, <2>1, <2>2, <2>3, CallChains
<1>3. ASSUME RefreshFails(r)
      PROVE  mu' = Nobody /\ CallsMove(r, NoCall)
  BY <1>1, <1>3, ChangedCall DEF RefreshFails, Call
<1>4. CASE TakeMu(r)
  <2> DEFINE k == [calls[r] EXCEPT !.pc = "in", !.job = "check"]
  <2>1. calls[r].pc = "refresh" /\ mu' = r /\ lock' = ReadLocked(lock, r)
        /\ calls' = [calls EXCEPT ![r] = k]
    BY <1>4 DEF TakeMu, Call
  <2>2. k.pc = "in" /\ k.job = "check"
    BY <1>1 DEF CallSet
  <2> HIDE DEF k
  <2> QED BY <1>1, <1>2, <2>1, <2>2, ChangedCall DEF Refreshes
<1>5. CASE CheckGeneration(r)
  <2>1. calls[r].pc = "in" /\ calls[r].job = "check" /\ mu = r
    <3>1. r \in lock.readers /\ calls[r].job = "check"
      BY <1>5 DEF CheckGeneration, In
    <3>2. calls[r].pc = "in"
      BY <3>1 DEF Ruled, Inside
    <3> QED BY <1>1, <3>1, <3>2, CallFacts DEF Owns, Refreshes
  <2>2. CASE RefreshFails(r) /\ lock' = ReadUnlocked(lock, r)
    BY <1>2, <1>3, <2>1, <2>2, NoCallIs
  <2>3. CASE AdmitAgain(r)
    <3>1. mu' = Nobody /\ CallsMove(r, Again) /\ lock' = ReadLocked(ReadUnlocked(lock, r), r)
      BY <1>1, <2>3, ChangedCall DEF AdmitAgain, Call
    <3> QED BY <1>2, <2>1, <3>1, AgainIs
  <2>4. CASE lock' = ReadUnlocked(lock, r) /\ Go(r, "request") /\ UNCHANGED mu
    <3>1. PICK c : CallsMove(r, c) /\ c.pc = "request"
      BY <1>1, <2>4, ChangedCall
    <3> QED BY <1>2, <2>1, <2>4, <3>1 DEF Refreshes, ReplacePcs
  <2> QED BY <1>5, <2>2, <2>3, <2>4 DEF CheckGeneration
<1>6. CASE RequestMarker(r) \/ AttemptNow(r) \/ HubAnswersCall(r) \/ Handoff(r)
  <2>1. calls[r].pc \in ReplacePcs \ {"queued"} /\ lock' = lock
    BY <1>6 DEF RequestMarker, AttemptNow, HubAnswersCall, Handoff, ReplacePcs
  <2>2. mu = r
    BY <1>1, <2>1, CallFacts DEF Owns, Refreshes
  <2>3. RefreshFails(r) \/ \E pc \in ReplacePcs \ {"queued"} : Go(r, pc) /\ UNCHANGED mu
    BY <1>6 DEF RequestMarker, AttemptNow, HubAnswersCall, Handoff, ReplacePcs
  <2>4. CASE RefreshFails(r)
    BY <1>2, <1>3, <2>1, <2>4, NoCallIs
  <2>5. ASSUME NEW pc \in ReplacePcs \ {"queued"}, Go(r, pc), UNCHANGED mu
        PROVE  Chained'
    <3>1. PICK c : CallsMove(r, c) /\ c.pc = pc
      BY <1>1, <2>5, ChangedCall
    <3> QED BY <1>2, <2>1, <2>2, <2>5, <3>1 DEF Refreshes, ReplacePcs
  <2> QED BY <2>3, <2>4, <2>5
<1>7. CASE LockRuntime(r)
  <2>1. calls[r].pc = "lock" /\ mu = r
    BY <1>1, <1>7, CallFacts DEF LockRuntime, Owns, Refreshes, ReplacePcs
  <2>2. CASE RefreshFails(r) /\ lock' = lock
    BY <1>2, <1>3, <2>1, <2>2, NoCallIs
  <2>3. CASE lock' = WriteRequested(lock, r) /\ Go(r, "queued") /\ UNCHANGED mu
    <3>1. PICK c : CallsMove(r, c) /\ c.pc = "queued"
      BY <1>1, <2>3, ChangedCall
    <3>2. lock' = [lock EXCEPT !.writers = Append(Queue, r)] /\ Append(Queue, r) # <<>>
      BY <1>1, <2>3, AppendedTo DEF WriteRequested, Queue
    <3>3. ReadersStay(r, c) /\ Queue' = Append(Queue, r)
      BY <1>1, <3>1, <3>2, LockPasses
    <3>4. MuPasses(r, c) /\ QueueMoves(r, c)
      BY <2>1, <2>3, <3>1, <3>3 DEF MuPasses, QueueMoves, HasMu, Refreshes, ReplacePcs
    <3> QED BY <1>1, <3>1, <3>3, <3>4, CallChains
  <2> QED BY <1>7, <2>2, <2>3 DEF LockRuntime
<1>8. CASE AbandonLock(r)
  <2> DEFINE w == [i \in DOMAIN Queue |-> IF Queue[i] = r THEN Orphan ELSE Queue[i]]
  <2>1. calls[r].pc = "queued" /\ lock' = [lock EXCEPT !.writers = w] /\ RefreshFails(r)
    BY <1>8 DEF AbandonLock, Queue
  <2>2. w # <<>>
    <3>1. \E i \in DOMAIN Queue : Queue[i] = r
      BY <1>1, <2>1 DEF Chained, Queued
    <3> QED BY <3>1
  <2>3. CallsMove(r, NoCall) /\ MuPasses(r, NoCall)
    BY <1>3, <2>1 DEF MuPasses
  <2>4. ReadersStay(r, NoCall) /\ Queue' = w
    <3> HIDE DEF w
    <3> QED BY <1>1, <2>1, <2>2, NoCallIs, LockPasses
  <2>5. QueueMoves(r, NoCall)
    BY <2>4, NoCallIs DEF QueueMoves
  <2> QED BY <1>1, <2>3, <2>4, <2>5, CallChains
<1>9. CASE Swap(r)
  <2>1. SwapIn(r) /\ Announced(r) /\ lock.readers = {} /\ lock' = ReadLocked(WriteUnlocked(lock), r)
    BY <1>9 DEF Swap, Holds
  <2>2. CallsMove(r, Again)
    <3>1. calls' = [a \in Callers |-> IF a = r THEN Again ELSE [calls[a] EXCEPT !.current = FALSE]]
      BY <2>1 DEF SwapIn
    <3>2. calls'[r] = Again /\ \A x \in Callers : x # r => calls'[x] = [calls[x] EXCEPT !.current = FALSE]
      BY <1>1, <3>1
    <3> HIDE DEF Again
    <3> QED BY <1>1, <3>2 DEF CallsMove, CallSet
  <2>3. ReadersStay(r, Again) /\ Queue' = Tail(Queue)
    BY <1>1, <2>1, LockPasses
  <2>4. MuPasses(r, Again) /\ QueueMoves(r, Again)
    BY <2>1, <2>3, AgainIs DEF SwapIn, MuPasses, QueueMoves
  <2> QED BY <1>1, <2>2, <2>3, <2>4, CallChains
<1> QED BY <1>4, <1>5, <1>6, <1>7, <1>8, <1>9

\* MarkServingHealthy and Close.
LEMMA OthersChain ==
  ASSUME Ruled, Chained,
         BeginHealthy \/ TakeMuHealthy \/ ClearMarker \/ BeginClose \/ TakeMuClose \/ CloseHolds
  PROVE  Chained'
<1>1. {Health, Closer} \subseteq Callers /\ LockShape /\ KeptOut /\ Queue \in Seq(Callers \union {Orphan})
  BY DEF Callers, Ruled, Shapes, Chained, Queued
<1>2. ASSUME NEW a \in {Health, Closer}, Go(a, "mu"), UNCHANGED <<mu, lock>>, calls[a].pc = "idle"
      PROVE  Chained'
  <2>1. PICK c : CallsMove(a, c) /\ c.pc = "mu"
    BY <1>1, <1>2, ChangedCall
  <2>2. MuPasses(a, c)
    BY <1>1, <1>2, CallersDiffer, MuIsElsewhere DEF HasMu, MuPasses
  <2>3. ReadersStay(a, c) /\ Queue' = Queue
    BY <1>1, <1>2, <2>1, LockPasses
  <2>4. QueueMoves(a, c)
    BY <1>2, <2>1, <2>3 DEF QueueMoves
  <2> QED BY <1>1, <2>1, <2>2, <2>3, <2>4, CallChains
<1>3. CASE BeginHealthy \/ BeginClose
  BY <1>2, <1>3 DEF BeginHealthy, BeginClose
<1>4. CASE TakeMuHealthy
  <2> DEFINE k == [NoCall EXCEPT !.pc = "in", !.job = "clear"]
  <2>1. calls' = [calls EXCEPT ![Health] = k] /\ mu' = Health /\ lock' = ReadLocked(lock, Health)
        /\ calls[Health].pc = "mu"
    BY <1>4 DEF TakeMuHealthy, Call
  <2>2. k.pc = "in"
    BY InLockIs
  <2> HIDE DEF k
  <2>3. CallsMove(Health, k) /\ MuPasses(Health, k) /\ ReadersStay(Health, k) /\ Queue' = Queue
    BY <1>1, <2>1, <2>2, ChangedCall, LockPasses DEF MuPasses, HasMu
  <2>4. QueueMoves(Health, k)
    BY <2>1, <2>2, <2>3 DEF QueueMoves
  <2> QED BY <1>1, <2>3, <2>4, CallChains
<1>5. CASE ClearMarker
  <2>1. calls' = [calls EXCEPT ![Health] = NoCall] /\ mu' = Nobody /\ lock' = ReadUnlocked(lock, Health)
        /\ Health \in lock.readers
    BY <1>5 DEF ClearMarker, In, Leave, Call
  <2>2. calls[Health].pc = "in"
    BY <2>1 DEF Ruled, Inside
  <2>3. CallsMove(Health, NoCall) /\ MuPasses(Health, NoCall) /\ ReadersStay(Health, NoCall)
        /\ Queue' = Queue
    BY <1>1, <2>1, NoCallIs, ChangedCall, LockPasses DEF MuPasses
  <2>4. QueueMoves(Health, NoCall)
    BY <2>2, <2>3, NoCallIs DEF QueueMoves
  <2> QED BY <1>1, <2>3, <2>4, CallChains
<1>6. CASE TakeMuClose
  <2>1. Go(Closer, "queued") /\ mu' = Closer /\ lock' = WriteRequested(lock, Closer)
        /\ calls[Closer].pc = "mu"
    BY <1>6 DEF TakeMuClose
  <2>2. PICK c : CallsMove(Closer, c) /\ c.pc = "queued"
    BY <1>1, <2>1, ChangedCall
  <2>3. lock' = [lock EXCEPT !.writers = Append(Queue, Closer)] /\ Append(Queue, Closer) # <<>>
    <3>1. lock' = [lock EXCEPT !.writers = Append(Queue, Closer)]
      BY <2>1 DEF WriteRequested, Queue
    <3> QED BY <1>1, <3>1, AppendedTo
  <2>4. ReadersStay(Closer, c) /\ Queue' = Append(Queue, Closer)
    BY <1>1, <2>2, <2>3, LockPasses
  <2>5. MuPasses(Closer, c) /\ QueueMoves(Closer, c)
    BY <2>1, <2>2, <2>4 DEF MuPasses, HasMu, QueueMoves
  <2> QED BY <1>1, <2>2, <2>4, <2>5, CallChains
<1>7. CASE CloseHolds
  <2>1. Go(Closer, "done") /\ mu' = Nobody /\ lock' = WriteUnlocked(lock) /\ lock.readers = {}
        /\ Announced(Closer)
    BY <1>7 DEF CloseHolds, Holds
  <2>2. PICK c : CallsMove(Closer, c) /\ c.pc = "done"
    BY <1>1, <2>1, ChangedCall
  <2>3. MuPasses(Closer, c) /\ ReadersStay(Closer, c) /\ Queue' = Tail(Queue)
    BY <1>1, <2>1, <2>2, LockPasses DEF MuPasses
  <2>4. QueueMoves(Closer, c)
    BY <2>1, <2>2, <2>3 DEF QueueMoves
  <2> QED BY <1>1, <2>2, <2>3, <2>4, CallChains
<1> QED BY <1>3, <1>4, <1>5, <1>6, <1>7

\* The goroutine of an abandoned writer.
LEMMA OrphanChains ==
  ASSUME Ruled, Chained, OrphanReleases
  PROVE  Chained'
<1>1. Queue # <<>> /\ Head(Queue) = Orphan /\ lock.readers = {} /\ lock' = WriteUnlocked(lock)
      /\ UNCHANGED <<calls, mu>>
  BY DEF OrphanReleases, Holds, Announced, Queue
<1>2. lock' = [readers |-> lock.waiting, waiting |-> {}, writers |-> Tail(Queue)]
  BY <1>1 DEF WriteUnlocked, Queue
<1>3. MuIsHad' /\ Entered' /\ KeptOut'
  BY <1>1, <1>2 DEF Chained, MuIsHad, HasMu, Entered, KeptOut
<1> DEFINE n == Len(Queue)
<1>4. Queue \in Seq(Callers \union {Orphan}) /\ DOMAIN Queue = 1..n /\ n \in Nat \ {0} /\ Queue[1] = Orphan
  BY <1>1 DEF Chained, Queued
<1>5. Queue' \in Seq(Callers \union {Orphan}) /\ DOMAIN Queue' = 1..(n - 1)
      /\ \A i \in 1..(n - 1) : i + 1 \in 1..n /\ Queue'[i] = Queue[i + 1]
  <2>1. Queue' = Tail(Queue)
    BY <1>2 DEF Queue
  <2> QED BY <1>1, <1>4, <2>1
<1>6. ASSUME NEW i \in DOMAIN Queue', Queue'[i] # Orphan
      PROVE  calls'[Queue'[i]].pc = "queued"
  <2>1. i + 1 \in DOMAIN Queue /\ Queue'[i] = Queue[i + 1]
    BY <1>4, <1>5
  <2> QED BY <1>1, <1>6, <2>1 DEF Chained, Queued
<1>7. ASSUME NEW i \in DOMAIN Queue', NEW j \in DOMAIN Queue', Queue'[i] = Queue'[j], Queue'[i] # Orphan
      PROVE  i = j
  <2>1. i + 1 \in DOMAIN Queue /\ j + 1 \in DOMAIN Queue /\ Queue[i + 1] = Queue[j + 1]
        /\ Queue[i + 1] # Orphan /\ i \in Nat /\ j \in Nat
    BY <1>4, <1>5, <1>7
  <2>2. i + 1 = j + 1
    BY <2>1 DEF Chained, Queued
  <2> QED BY <2>1, <2>2
<1>8. ASSUME NEW x \in Callers, calls'[x].pc = "queued"
      PROVE  \E i \in DOMAIN Queue' : Queue'[i] = x
  <2>1. PICK i \in DOMAIN Queue : Queue[i] = x
    BY <1>1, <1>8 DEF Chained, Queued
  <2>2. x # Orphan
    BY RuntimeAssumption DEF Callers
  <2>3. i \in 2..n
    BY <1>4, <2>1, <2>2
  <2>4. i - 1 \in DOMAIN Queue' /\ Queue'[i - 1] = x
    BY <1>5, <2>1, <2>3
  <2> QED BY <2>4
<1> QED BY <1>3, <1>5, <1>6, <1>7, <1>8 DEF Chained, Queued

\* Nobody waits in an admitter that is gone, or that is not there yet.
LEMMA EmptyChains ==
  calls = [a \in Callers |-> NoCall] /\ lock = Unlocked /\ mu = Nobody => Chained
<1> SUFFICES ASSUME calls = [a \in Callers |-> NoCall], lock = Unlocked, mu = Nobody
             PROVE  Chained
  OBVIOUS
<1>1. lock.readers = {} /\ lock.waiting = {} /\ Queue = <<>>
  BY DEF Unlocked, Queue
<1>2. \A a \in Callers : calls[a].pc = "idle"
  BY DEF NoCall
<1>3. Queued
  BY <1>1, <1>2 DEF Queued
<1> QED BY <1>1, <1>2, <1>3 DEF Chained, MuIsHad, Entered, KeptOut

\* Chained is inductive, with Ruled.
LEMMA StepChains ==
  ASSUME Ruled, Chained, [Next]_vars
  PROVE  Chained'
<1>1. ASSUME UNCHANGED <<calls, lock, mu>>
      PROVE  Chained'
  BY <1>1 DEF Chained, MuIsHad, HasMu, Queued, Entered, KeptOut, Queue
<1>2. CASE Opening \/ RecoverOpened
  BY <1>1, <1>2, OpeningShape DEF Ruled
<1>3. CASE Around
  BY <1>1, <1>3, AroundShape DEF Ruled
<1>4. CASE OrphanReleases
  BY <1>4, OrphanChains
<1>5. ASSUME NEW r \in Resources, Begin(r, "admit") \/ Begin(r, "retire") \/ TakeMu(r) \/ Serving(r)
      PROVE  Chained'
  BY <1>5, VisitChains, RefreshChains DEF Serving
<1>6. CASE BeginHealthy \/ TakeMuHealthy \/ Healthy \/ BeginClose \/ TakeMuClose \/ CloseHolds
  BY <1>6, OthersChain DEF Healthy
<1>7. CASE Exit \/ Crash
  <2>1. calls' = [a \in Callers |-> NoCall] /\ lock' = Unlocked /\ mu' = Nobody
    BY <1>7 DEF Exit, Crash, Down, Idle
  <2>2. (calls = [a \in Callers |-> NoCall] /\ lock = Unlocked /\ mu = Nobody)' => Chained'
    BY EmptyChains, PTL
  <2> QED BY <2>1, <2>2
<1> QED BY <1>2, <1>3, <1>4, <1>5, <1>6, <1>7 DEF Next, Around, Closing

\* Nobody waits for a lock that nobody has: refreshMu is held by a call that says
\* so, the first in runtimeMu's queue is a call that waits there or the goroutine
\* of one that gave up, and a reader that is kept out has such a writer in front of
\* it (lockRuntimeForRefresh, NativeAdmitter.refresh, Close).
THEOREM WaitsAreForSomebody == Spec => [](Ruled /\ Chained)
<1>1. Init => Chained
  BY EmptyChains DEF Init
<1>2. Ruled /\ Chained /\ [Next]_vars => Chained'
  BY StepChains
<1> QED BY <1>1, <1>2, CallsAreRuled, PTL DEF Spec

\* The two locks of the admitter are never waited for in a circle: while a call is
\* in progress, one of them, or the goroutine of an abandoned writer, waits for
\* neither, whatever the order in which admissions, refreshes, writers that give up,
\* MarkServingHealthy and Close have come (lockRuntimeForRefresh: abandoning the queued
\* writer would "leak ownership and deadlock the next operation").
THEOREM LocksAreNotCircular == Spec => []SomebodyGoesOn
<1>1. Ruled /\ Chained => SomebodyGoesOn
  <2> SUFFICES ASSUME Ruled, Chained, NEW a \in Callers, Busy(a),
                      \A x \in Callers : Busy(x) => Waits(x)
               PROVE  Holds(Orphan)
    BY DEF SomebodyGoesOn
  <2>1. \E x \in Callers : x \in lock.waiting \/ calls[x].pc = "queued"
    <3>1. CASE calls[a].pc \in {"refresh", "mu"} /\ mu # Nobody
      <4>1. mu \in Callers /\ HasMu(mu, calls[mu])
        BY <3>1 DEF Chained, MuIsHad
      <4>2. Busy(mu) /\ calls[mu].pc \notin {"refresh", "mu"}
        BY <4>1 DEF HasMu, Busy, Refreshes, ReplacePcs
      <4> QED BY <4>1, <4>2 DEF Waits
    <3> QED BY <3>1 DEF Waits
  <2>2. Queue # <<>>
    BY <2>1 DEF Chained, Queued, KeptOut
  <2>3. lock.readers = {}
    <3> SUFFICES ASSUME NEW x \in lock.readers
                 PROVE  FALSE
      OBVIOUS
    <3>1. x \in Callers /\ calls[x].pc = "in" /\ x \notin lock.waiting
      BY DEF Ruled, Inside
    <3> QED BY <3>1 DEF Busy, Waits
  <2>4. Queue[1] \in Callers \union {Orphan} /\ 1 \in DOMAIN Queue /\ Head(Queue) = Queue[1]
    BY <2>2 DEF Chained, Queued
  <2>5. Holds(Queue[1])
    BY <2>2, <2>3, <2>4 DEF Holds, Announced, Queue
  <2>6. ASSUME Queue[1] # Orphan
        PROVE  FALSE
    <3>1. Queue[1] \in Callers /\ calls[Queue[1]].pc = "queued"
      BY <2>4, <2>6 DEF Chained, Queued
    <3>2. Queue[1] \notin lock.waiting
      BY <3>1 DEF Ruled, Inside
    <3> QED BY <2>5, <3>1, <3>2 DEF Busy, Waits
  <2> QED BY <2>5, <2>6
<1> QED BY <1>1, WaitsAreForSomebody, PTL
================================================================================
