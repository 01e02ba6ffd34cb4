--------------------------- MODULE LifecycleProofs ---------------------------
(***************************************************************************)
(* Proofs about module Lifecycle, for any requests, migrations and roles   *)
(* and however often the process is started: the schema and its record     *)
(* agree, answers are true, the database closes last, one key signs.       *)
(***************************************************************************)
EXTENDS Lifecycle, FiniteSetTheorems, SequenceTheorems, TLAPS

-----------------------------------------------------------------------------
(* What the operations of the queue do to what is in it *)

Elems(s) == {s[i] : i \in 1..Len(s)}

Distinct(s) == \A i, j \in 1..Len(s) : s[i] = s[j] => i = j

LEMMA EmptyElems ==
    /\ Elems(<<>>) = {} /\ Distinct(<<>>)
    /\ \A S : \A s \in Seq(S) : Elems(s) = {} => s = <<>>
  BY DEF Elems, Distinct

LEMMA AppendElems ==
    ASSUME NEW S, NEW s \in Seq(S), NEW e \in S, Distinct(s), e \notin Elems(s)
    PROVE  /\ Append(s, e) \in Seq(S)
           /\ Elems(Append(s, e)) = Elems(s) \cup {e}
           /\ Distinct(Append(s, e))
<1> DEFINE t == Append(s, e)
<1>1. /\ t \in Seq(S) /\ Len(t) = Len(s) + 1 /\ t[Len(s) + 1] = e
      /\ \A i \in 1..Len(s) : t[i] = s[i]
  BY AppendProperties
<1>2. Len(s) \in Nat
  BY LenProperties
<1>3. \A i \in 1..Len(t) : i \in 1..Len(s) \/ i = Len(s) + 1
  BY <1>1, <1>2
<1> HIDE DEF t
<1>4. Elems(t) = Elems(s) \cup {e}
  <2>1. Elems(t) \subseteq Elems(s) \cup {e}
    BY <1>1, <1>3 DEF Elems
  <2>2. Elems(s) \cup {e} \subseteq Elems(t)
    BY <1>1, <1>2 DEF Elems
  <2> QED
    BY <2>1, <2>2
<1>5. Distinct(t)
  <2> SUFFICES ASSUME NEW i \in 1..Len(t), NEW j \in 1..Len(t), t[i] = t[j]
               PROVE  i = j
    BY DEF Distinct
  <2>1. CASE i \in 1..Len(s) /\ j \in 1..Len(s)
    BY <1>1, <2>1 DEF Distinct
  <2>2. CASE i = Len(s) + 1 /\ j \in 1..Len(s)
    BY <1>1, <2>2 DEF Elems
  <2>3. CASE j = Len(s) + 1 /\ i \in 1..Len(s)
    BY <1>1, <2>3 DEF Elems
  <2> QED
    BY <1>3, <2>1, <2>2, <2>3
<1> QED
  BY <1>1, <1>4, <1>5 DEF t

LEMMA TailElems ==
    ASSUME NEW S, NEW s \in Seq(S), s # <<>>, Distinct(s)
    PROVE  /\ Head(s) \in S /\ Head(s) \in Elems(s)
           /\ Tail(s) \in Seq(S)
           /\ Elems(Tail(s)) = Elems(s) \ {Head(s)}
           /\ Distinct(Tail(s))
<1> DEFINE t == Tail(s)
<1>1. /\ Head(s) \in S /\ t \in Seq(S) /\ Len(t) = Len(s) - 1
      /\ \A i \in 1..Len(t) : t[i] = s[i + 1]
  BY HeadTailProperties
<1>2. Len(s) \in Nat \ {0} /\ Head(s) = s[1]
  BY EmptySeq
<1> HIDE DEF t
<1>3. \A i \in 1..Len(t) : i + 1 \in 1..Len(s) /\ i + 1 # 1
  BY <1>1, <1>2
<1>4. \A i \in 1..Len(s) : i # 1 => i - 1 \in 1..Len(t) /\ t[i - 1] = s[i]
  BY <1>1, <1>2
<1>5. 1 \in 1..Len(s)
  BY <1>2
<1>6. Elems(t) \subseteq Elems(s) \ {Head(s)}
  BY <1>1, <1>2, <1>3, <1>5 DEF Elems, Distinct
<1>7. Elems(s) \ {Head(s)} \subseteq Elems(t)
  <2> SUFFICES ASSUME NEW i \in 1..Len(s), s[i] # Head(s)
               PROVE  s[i] \in Elems(t)
    BY DEF Elems
  <2>1. i # 1
    BY <1>2
  <2> QED
    BY <1>4, <2>1 DEF Elems
<1>8. Distinct(t)
  <2> SUFFICES ASSUME NEW i \in 1..Len(t), NEW j \in 1..Len(t), t[i] = t[j]
               PROVE  i = j
    BY DEF Distinct
  <2>1. i + 1 = j + 1
    BY <1>1, <1>3 DEF Distinct
  <2>2. i \in Int /\ j \in Int
    OBVIOUS
  <2> QED
    BY <2>1, <2>2
<1> QED
  BY <1>1, <1>2, <1>5, <1>6, <1>7, <1>8 DEF t, Elems

\* A callable that is taken back is no longer there; the rest is as it was.
LEMMA WithdrawElems ==
    ASSUME NEW S, queue \in Seq(S), Distinct(queue), NEW who, Withdraw(who)
    PROVE  /\ queue' \in Seq(S)
           /\ Elems(queue') = Elems(queue) \ {who}
           /\ Distinct(queue')
<1>0. Len(queue) \in Nat /\ \A i \in 1..Len(queue) : queue[i] \in S
  BY LenProperties, ElementOfSeq
<1>1. CASE (\A i \in 1..Len(queue) : queue[i] # who) /\ UNCHANGED queue
  BY <1>1 DEF Elems
<1>2. ASSUME NEW k \in 1..Len(queue), queue[k] = who,
             queue' = SubSeq(queue, 1, k - 1) \o SubSeq(queue, k + 1, Len(queue))
      PROVE  /\ queue' \in Seq(S)
             /\ Elems(queue') = Elems(queue) \ {who}
             /\ Distinct(queue')
  <2> DEFINE n == Len(queue)
             a == SubSeq(queue, 1, k - 1)
             b == SubSeq(queue, k + 1, n)
             t == a \o b
  <2>0. n \in Nat /\ k \in 1..n /\ k \in Nat
    BY <1>0
  <2>1. a \in Seq(S) /\ Len(a) = k - 1 /\ \A i \in 1..(k - 1) : a[i] = queue[i]
    <3>1. \A i \in 1..(k - 1) : queue[i] \in S
      BY <1>0
    <3>2. /\ a \in Seq(S) /\ Len(a) = IF 1 <= k - 1 THEN k - 1 - 1 + 1 ELSE 0
          /\ \A i \in 1..(k - 1 - 1 + 1) : a[i] = queue[1 + i - 1]
      BY <2>0, <3>1, SubSeqProperties
    <3> HIDE DEF a, n
    <3> QED
      BY <2>0, <3>2
  <2>2. b \in Seq(S) /\ Len(b) = n - k /\ \A i \in 1..(n - k) : b[i] = queue[k + i]
    <3>1. \A i \in (k + 1)..n : queue[i] \in S
      BY <1>0
    <3>2. /\ b \in Seq(S) /\ Len(b) = IF k + 1 <= n THEN n - (k + 1) + 1 ELSE 0
          /\ \A i \in 1..(n - (k + 1) + 1) : b[i] = queue[k + 1 + i - 1]
      BY <2>0, <3>1, SubSeqProperties
    <3> HIDE DEF b, n
    <3> QED
      BY <2>0, <3>2
  <2>3. /\ t \in Seq(S) /\ Len(t) = Len(a) + Len(b)
        /\ \A i \in 1..(Len(a) + Len(b)) : t[i] = IF i <= Len(a) THEN a[i] ELSE b[i - Len(a)]
    <3> HIDE DEF a, b
    <3> QED
      BY <2>1, <2>2, ConcatProperties
  <2>4. queue' = t
    BY <1>2
  <2> HIDE DEF a, b, t
  <2>5. Len(t) = n - 1 /\ \A i \in 1..(n - 1) : t[i] = IF i < k THEN queue[i] ELSE queue[i + 1]
    <3>1. Len(t) = n - 1 /\ n - 1 \in Nat
      BY <2>0, <2>1, <2>2, <2>3
    <3>2. ASSUME NEW i \in 1..(n - 1), i < k
          PROVE  t[i] = queue[i]
      <4>1. i \in 1..(Len(a) + Len(b)) /\ i <= Len(a) /\ i \in 1..(k - 1)
        BY <2>0, <2>1, <2>2, <3>2
      <4>2. t[i] = a[i]
        BY <2>3, <4>1
      <4> QED
        BY <2>1, <4>1, <4>2
    <3>3. ASSUME NEW i \in 1..(n - 1), ~ (i < k)
          PROVE  t[i] = queue[i + 1]
      <4>1. t[i] = b[i - (k - 1)] /\ i - (k - 1) \in 1..(n - k)
        <5>1. i \in 1..(Len(a) + Len(b)) /\ ~ (i <= Len(a)) /\ i - (k - 1) \in 1..(n - k)
          BY <2>0, <2>1, <2>2, <3>3
        <5>2. t[i] = b[i - Len(a)]
          BY <2>3, <5>1
        <5> QED
          BY <2>1, <5>1, <5>2
      <4>2. b[i - (k - 1)] = queue[k + (i - (k - 1))]
        BY <2>2, <4>1
      <4>3. k + (i - (k - 1)) = i + 1
        BY <2>0
      <4> QED
        BY <4>1, <4>2, <4>3
    <3> QED
      BY <3>1, <3>2, <3>3
  <2>6. Elems(t) \subseteq Elems(queue) \ {who}
    <3> SUFFICES ASSUME NEW i \in 1..(n - 1)
                 PROVE  t[i] \in Elems(queue) /\ t[i] # who
      BY <2>5 DEF Elems
    <3>1. PICK m \in 1..n : t[i] = queue[m] /\ m # k
      <4>1. CASE i < k
        BY <2>0, <2>5, <4>1
      <4>2. CASE ~ (i < k)
        <5>1. i + 1 \in 1..n /\ i + 1 # k
          BY <2>0, <4>2
        <5> QED
          BY <2>5, <4>2, <5>1
      <4> QED
        BY <4>1, <4>2
    <3> QED
      BY <1>2, <2>0, <3>1 DEF Elems, Distinct
  <2>7. Elems(queue) \ {who} \subseteq Elems(t)
    <3> SUFFICES ASSUME NEW m \in 1..n, queue[m] # who
                 PROVE  \E i \in 1..(n - 1) : t[i] = queue[m]
      BY <2>5 DEF Elems
    <3>1. m # k
      BY <1>2
    <3>2. CASE m < k
      BY <2>0, <2>5, <3>2
    <3>3. CASE m > k
      <4>1. m - 1 \in 1..(n - 1) /\ ~ (m - 1 < k) /\ (m - 1) + 1 = m
        BY <2>0, <3>3
      <4>2. t[m - 1] = queue[(m - 1) + 1]
        BY <2>5, <4>1
      <4> QED
        BY <4>1, <4>2
    <3> QED
      BY <2>0, <3>1, <3>2, <3>3
  <2>8. Distinct(t)
    <3> SUFFICES ASSUME NEW i \in 1..(n - 1), NEW j \in 1..(n - 1), t[i] = t[j]
                 PROVE  i = j
      BY <2>5 DEF Distinct
    <3> DEFINE f(x) == IF x < k THEN x ELSE x + 1
    <3>1. f(i) \in 1..n /\ f(j) \in 1..n /\ t[i] = queue[f(i)] /\ t[j] = queue[f(j)]
      BY <2>0, <2>5
    <3>2. f(i) = f(j)
      <4> HIDE DEF f
      <4> QED
        BY <3>1 DEF Distinct
    <3> QED
      BY <2>0, <3>2
  <2> QED
    BY <2>3, <2>4, <2>6, <2>7, <2>8
<1> QED
  BY <1>1, <1>2 DEF Withdraw

-----------------------------------------------------------------------------
(* Where the process is *)

Starting == {"migrating", "seeding", "signing", "writing_key", "wiring", "built"}
Answering == {"serving", "stopping"}
Leaving == {"draining", "clients", "closing"}
Serving == Answering \cup Leaving
Off == {"down", "refused", "stopped"}
Phase == Starting \cup Serving \cup Off

Callable == Request \cup Table \cup {Closing}

RequestStep ==
    {"new", "waiting", "committed", "rolled_back", "answered", "refused", "cancelled", "lost"}
MailStep == {"none", "sending", "sent", "failed", "given_up", "dropped", "lost"}
SweeperStep == {"none", "sleeping", "sessions", "between", "grants", "cancelled"}

Waits == {"waiting", "committed", "rolled_back"}

\* The worker's callable, by the phase.
JobFits ==
    \/ job = NoJob /\ txn = {}
    \/ /\ phase = "migrating" /\ job = Running(Migrating, "scripted")
       /\ txn = {Migrating} /\ Pending # {}
    \/ /\ phase \in Serving
       /\ \E w \in Request \cup Table : job = Running(w, "working") /\ txn = {w}

\* The sweeper, by the phase.
SweeperFits ==
    /\ sweeper \in SweeperStep
    /\ phase \in Starting \cup {"down", "refused"} => sweeper = "none"
    /\ phase \in Answering => sweeper \notin {"none", "cancelled"}
    /\ phase \in Leaving \cup {"stopped"} => sweeper = "cancelled"

(***************************************************************************)
(* What every phase has: the connection and the thread while the process   *)
(* is up, callables only while it serves, requests only before it leaves.  *)
(***************************************************************************)
Placed ==
    /\ phase \in Phase
    /\ worker \in BOOLEAN /\ connection \in {"none", "open", "closed"}
    /\ phase \notin Off <=> connection = "open"
    /\ phase \notin Off <=> worker
    /\ connection = "closed" => phase \in {"refused", "stopped"}
    /\ queue \in Seq(Callable)
    /\ phase \notin Serving => queue = <<>>
    /\ JobFits
    /\ SweeperFits
    /\ request \in [Request -> RequestStep]
    /\ mail \in [Request -> MailStep]
    /\ InFlight # {} => phase \in Answering
    /\ Sending # {} => phase \in Answering \cup {"draining"}

Queued == Elems(queue)

(***************************************************************************)
(* Each callable is in one place: queued once, or running, and queued only *)
(* while its caller still waits for it, so that a shutdown finds none.     *)
(***************************************************************************)
Orderly ==
    /\ Distinct(queue)
    /\ job.who \notin Queued
    /\ \A r \in Request : r \in Queued => request[r] = "waiting"
    /\ \A t \in Table : t \in Queued => sweeper = t
    /\ \A r \in Request : r = job.who => request[r] \in {"waiting", "cancelled"}
    /\ \A t \in Table : t = job.who => sweeper \in {t, "cancelled"}
    /\ Closing \in Queued => phase = "closing"

Placement == Placed /\ Orderly

LEMMA PhasesApart ==
    /\ Starting \cap Serving = {} /\ Starting \cap Off = {} /\ Serving \cap Off = {}
    /\ Answering \cap Leaving = {}
  BY DEF Starting, Answering, Leaving, Serving, Off

\* How far the worker is says whose callable it runs.
LEMMA JobByStep ==
    ASSUME JobFits
    PROVE  /\ job.step \in {"idle", "scripted", "working"}
           /\ job.step = "idle" => job = NoJob /\ txn = {} /\ job.who = "nobody"
           /\ job = NoJob => job.step = "idle"
           /\ job.step = "scripted" => /\ phase = "migrating" /\ txn = {Migrating} /\ Pending # {}
                                       /\ job.who = Migrating
           /\ job.step = "working" => /\ phase \in Serving /\ txn = {job.who}
                                      /\ job.who \in Request \cup Table
           /\ job.who \in {"nobody", Migrating} \cup Request \cup Table
           /\ phase \notin Serving => job.who \notin Request \cup Table
  BY RequestAssumption, PhasesApart DEF JobFits, Running, NoJob, Table, Migrating, Closing, Starting

LEMMA InitPlacement == Init => Placement
<1> SUFFICES ASSUME Init PROVE Placement
  OBVIOUS
<1>1. InFlight = {} /\ Sending = {}
  BY DEF Init, InFlight, Sending
<1>2. queue \in Seq(Callable) /\ Queued = {} /\ Distinct(queue)
  BY EmptyElems, EmptySeq DEF Init, Queued
<1>3. JobFits /\ job.who \notin Request \cup Table
  BY RequestAssumption DEF Init, JobFits, NoJob, Running, Table
<1>4. SweeperFits
  BY DEF Init, SweeperFits, SweeperStep, Answering, Leaving
<1>5. Placed
  BY <1>1, <1>2, <1>3, <1>4
     DEF Init, Placed, Phase, Off, Serving, Answering, Leaving, RequestStep, MailStep
<1>6. Orderly
  BY <1>2, <1>3 DEF Orderly
<1> QED
  BY <1>5, <1>6 DEF Placement

\* A step of a process that does not serve, nor begins to.
LEMMA QuietStep ==
    ASSUME Placement, phase \notin Serving,
           phase' \in Phase, phase' \notin Serving,
           queue' = <<>>, UNCHANGED <<request, mail>>,
           worker' \in BOOLEAN, connection' \in {"none", "open", "closed"},
           phase' \notin Off <=> connection' = "open",
           phase' \notin Off <=> worker',
           connection' = "closed" => phase' \in {"refused", "stopped"},
           JobFits', SweeperFits'
    PROVE  Placement'
<1>1. InFlight' = {} /\ Sending' = {}
  <2>1. phase \notin Answering /\ phase # "draining"
    BY DEF Serving, Leaving
  <2>2. InFlight = {} /\ Sending = {}
    BY <2>1 DEF Placement, Placed
  <2> QED
    BY <2>2 DEF InFlight, Sending
<1>2. queue' \in Seq(Callable) /\ Queued' = {} /\ Distinct(queue)'
  BY EmptyElems, EmptySeq DEF Queued
<1>3. job'.who \notin Request \cup Table
  BY RequestAssumption DEF JobFits, NoJob, Running, Table, Migrating
<1>4. Placed'
  BY <1>1, <1>2 DEF Placement, Placed
<1>5. Orderly'
  BY <1>2, <1>3 DEF Orderly
<1> QED
  BY <1>4, <1>5 DEF Placement

LEMMA StartupPlacement ==
    ASSUME Placement, Startup \/ Exit \/ Crash
    PROVE  Placement'
<1> USE DEF Starting, Answering, Leaving, Serving, Off, Phase
<1>0. /\ phase \in Phase /\ JobFits /\ SweeperFits
      /\ worker \in BOOLEAN /\ connection \in {"none", "open", "closed"}
      /\ phase \notin Off <=> connection = "open"
      /\ phase \notin Off <=> worker
      /\ connection = "closed" => phase \in {"refused", "stopped"}
      /\ phase \notin Serving => queue = <<>>
  BY DEF Placement, Placed
<1>j. ASSUME job' = NoJob, txn' = {}
      PROVE  JobFits'
  BY <1>j DEF JobFits
<1>n. phase \notin Serving \cup {"migrating"} => job = NoJob /\ txn = {}
  BY <1>0 DEF JobFits
<1>1. CASE SettingsRefused
  <2>1. JobFits' /\ SweeperFits'
    BY <1>0, <1>1, <1>j, <1>n DEF SettingsRefused, SweeperFits, database, loop
  <2> QED
    BY <1>0, <1>1, <2>1, QuietStep DEF SettingsRefused, database, loop
<1>2. CASE Connect
  <2>1. JobFits' /\ SweeperFits'
    BY <1>0, <1>2, <1>j DEF Connect, SweeperFits, loop
  <2> QED
    BY <1>0, <1>2, <2>1, QuietStep DEF Connect, loop
<1>3. CASE ConnectFails
  <2>1. JobFits' /\ SweeperFits'
    BY <1>0, <1>3, <1>j DEF ConnectFails, SweeperFits, loop
  <2> QED
    BY <1>0, <1>3, <2>1, QuietStep DEF ConnectFails, loop
<1>4. CASE RunScript
  <2>1. JobFits'
    BY <1>4 DEF RunScript, JobFits, Pending, disk
  <2>2. SweeperFits'
    BY <1>0, <1>4 DEF RunScript, SweeperFits, loop
  <2> QED
    BY <1>0, <1>4, <2>1, <2>2, QuietStep DEF RunScript, loop
<1>5. CASE RecordVersion
  <2>1. JobFits' /\ SweeperFits'
    BY <1>0, <1>5, <1>j DEF RecordVersion, SweeperFits, loop
  <2> QED
    BY <1>0, <1>5, <2>1, QuietStep DEF RecordVersion, loop
<1>6. CASE Migrated
  <2>1. JobFits' /\ SweeperFits'
    BY <1>0, <1>6 DEF Migrated, SweeperFits, JobFits, Running, NoJob, Pending, loop, database, disk
  <2> QED
    BY <1>0, <1>6, <2>1, QuietStep DEF Migrated, loop, database
<1>7. ASSUME NEW r \in Role, SeedRole(r)
      PROVE  Placement'
  <2>1. JobFits' /\ SweeperFits'
    BY <1>0, <1>7, <1>j, <1>n DEF SeedRole, SweeperFits, database, loop
  <2> QED
    BY <1>0, <1>7, <2>1, QuietStep DEF SeedRole, loop, database
<1>8. CASE BuildSender
  <2>1. JobFits' /\ SweeperFits'
    BY <1>0, <1>8, <1>j, <1>n DEF BuildSender, SweeperFits, database
  <2> QED
    BY <1>0, <1>8, <2>1, QuietStep DEF BuildSender, database
<1>9. CASE CreateKey \/ WriteKey \/ LoadKey \/ LoadProviders
  <2>1. JobFits' /\ SweeperFits'
    BY <1>0, <1>9, <1>j, <1>n
       DEF CreateKey, WriteKey, LoadKey, LoadProviders, SweeperFits, database, loop
  <2> QED
    BY <1>0, <1>9, <2>1, QuietStep DEF CreateKey, WriteKey, LoadKey, LoadProviders, loop, database
<1>10. CASE StartSweeper
  <2>1. /\ phase = "built" /\ phase' = "serving" /\ sweeper' = "sleeping"
        /\ UNCHANGED <<txn, connection, worker, queue, job, request, mail>>
    BY <1>10 DEF StartSweeper, database
  <2>2. JobFits' /\ job'.who \notin Request \cup Table
    BY <1>j, <1>n, <2>1, RequestAssumption DEF NoJob, Running, Table
  <2>3. SweeperFits'
    BY <2>1 DEF SweeperFits, SweeperStep
  <2>4. InFlight' = {} /\ Sending' = {}
    BY <2>1 DEF Placement, Placed, InFlight, Sending
  <2>5. queue' = <<>> /\ queue' \in Seq(Callable) /\ Queued' = {} /\ Distinct(queue)'
    BY <1>0, <2>1, EmptyElems, EmptySeq DEF Queued
  <2>6. Placed'
    BY <1>0, <2>1, <2>2, <2>3, <2>4, <2>5 DEF Placement, Placed
  <2>7. Orderly'
    BY <2>2, <2>5 DEF Orderly
  <2> QED
    BY <2>6, <2>7 DEF Placement
<1>11. CASE Refuse
  <2>1. JobFits' /\ SweeperFits'
    BY <1>0, <1>11, <1>j DEF Refuse, CloseUnstarted, SweeperFits, loop
  <2> QED
    BY <1>0, <1>11, <2>1, QuietStep DEF Refuse, CloseUnstarted, loop
<1>12. CASE Gone
  <2>1. /\ phase' = "down" /\ connection' = "none" /\ worker' = FALSE /\ queue' = <<>>
        /\ sweeper' = "none"
    BY <1>12 DEF Gone
  <2>2. JobFits' /\ job'.who \notin Request \cup Table
    BY <1>12, <1>j, RequestAssumption DEF Gone, NoJob, Running, Table
  <2>3. SweeperFits'
    BY <2>1 DEF SweeperFits, SweeperStep
  <2>4. request' \in [Request -> RequestStep] /\ InFlight' = {}
    BY <1>12 DEF Gone, Placement, Placed, InFlight, RequestStep
  <2>5. mail' \in [Request -> MailStep] /\ Sending' = {}
    BY <1>12 DEF Gone, Placement, Placed, Sending, MailStep
  <2>6. queue' \in Seq(Callable) /\ Queued' = {} /\ Distinct(queue)'
    BY <2>1, EmptyElems, EmptySeq DEF Queued
  <2>7. Placed'
    BY <2>1, <2>2, <2>3, <2>4, <2>5, <2>6 DEF Placed
  <2>8. Orderly'
    BY <2>2, <2>6 DEF Orderly
  <2> QED
    BY <2>7, <2>8 DEF Placement
<1> QED
  BY <1>1, <1>2, <1>3, <1>4, <1>5, <1>6, <1>7, <1>8, <1>9, <1>10, <1>11, <1>12
     DEF Startup, Exit, Crash

\* A step that leaves the phase alone.
LEMMA SteadyStep ==
    ASSUME Placement, UNCHANGED <<phase, worker, connection>>,
           queue' \in Seq(Callable), phase \notin Serving => queue' = <<>>,
           JobFits', SweeperFits', Orderly',
           request' \in [Request -> RequestStep], mail' \in [Request -> MailStep],
           InFlight' # {} => phase \in Answering,
           Sending' # {} => phase \in Answering \cup {"draining"}
    PROVE  Placement'
  BY DEF Placement, Placed

LEMMA WorkPlacement ==
    ASSUME Placement, Begin \/ Commit \/ Rollback
    PROVE  Placement'
<1>0. /\ phase \in Phase /\ JobFits /\ SweeperFits /\ queue \in Seq(Callable)
      /\ phase \notin Serving => queue = <<>>
      /\ request \in [Request -> RequestStep] /\ mail \in [Request -> MailStep]
      /\ InFlight # {} => phase \in Answering
      /\ Sending # {} => phase \in Answering \cup {"draining"}
      /\ Orderly
  BY DEF Placement, Placed
<1>1. CASE Begin
  <2> DEFINE w == Head(queue)
  <2>0. queue # <<>> /\ w # Closing /\ job = NoJob /\ phase \in Serving
    BY <1>0, <1>1 DEF Begin
  <2>1. /\ w \in Callable /\ w \in Queued /\ queue' \in Seq(Callable)
        /\ Queued' = Queued \ {w} /\ Distinct(queue)'
    BY <1>0, <1>1, <2>0, TailElems DEF Begin, Orderly, Queued
  <2>2. w \in Request \cup Table
    BY <2>0, <2>1 DEF Callable
  <2>3. /\ job' = Running(w, "working") /\ txn' = {w}
        /\ UNCHANGED <<phase, worker, connection, request, mail, sweeper>>
    BY <1>1 DEF Begin, loop
  <2> HIDE DEF w
  <2>4. JobFits'
    BY <2>0, <2>2, <2>3 DEF JobFits, Running
  <2>5. SweeperFits'
    BY <1>0, <2>3 DEF SweeperFits
  <2>6. job'.who = w
    BY <2>3 DEF Running
  <2>7. Orderly'
    BY <1>0, <2>1, <2>3, <2>6 DEF Orderly
  <2>8. InFlight' = InFlight /\ Sending' = Sending
    BY <2>3 DEF InFlight, Sending
  <2> QED
    BY <1>0, <2>0, <2>1, <2>3, <2>4, <2>5, <2>7, <2>8, SteadyStep
<1>2. CASE Commit \/ Rollback
  <2> DEFINE w == job.who
  <2>0. /\ phase \in Serving /\ w \in Request \cup Table /\ w \notin Queued
    BY <1>0, <1>2, JobByStep DEF Commit, Rollback, Orderly
  <2>1. PICK outcome \in {"committed", "rolled_back"}, next \in {"between", "sleeping"} :
          request' = Answered(w, outcome) /\ sweeper' = Swept(w, next)
    BY <1>2 DEF Commit, Rollback
  <2>2. /\ job' = NoJob /\ txn' = {}
        /\ UNCHANGED <<phase, worker, connection, mail, queue>>
    BY <1>2 DEF Commit, Rollback
  <2>3. JobFits' /\ job'.who = "nobody"
    BY <2>2 DEF JobFits, NoJob, Running
  <2>4. SweeperFits'
    BY <1>0, <2>0, <2>1, <2>2 DEF SweeperFits, SweeperStep, Swept, Table, Starting, Answering, Leaving
  <2>5. request' \in [Request -> RequestStep]
    BY <1>0, <2>1 DEF Answered, RequestStep
  <2>6. InFlight' \subseteq InFlight
    BY <2>1 DEF InFlight, Answered
  <2>7. Sending' = Sending
    BY <2>2 DEF Sending
  <2>8. Queued' = Queued /\ Distinct(queue)' /\ "nobody" \notin Callable
    BY <1>0, <2>2, RequestAssumption DEF Queued, Orderly, Distinct, Callable, Table, Closing
  <2>9. "nobody" \notin Queued
    BY <1>0, <2>8 DEF Queued, Elems
  <2>10. \A r \in Request : r \in Queued => request'[r] = "waiting"
    BY <1>0, <2>0, <2>1 DEF Orderly, Answered
  <2>11. \A t \in Table : t \in Queued => sweeper' = t
    BY <1>0, <2>0, <2>1 DEF Orderly, Swept
  <2>12. Orderly'
    BY RequestAssumption, <1>0, <2>2, <2>3, <2>8, <2>9, <2>10, <2>11 DEF Orderly, Table
  <2> HIDE DEF w
  <2> QED
    BY <1>0, <2>0, <2>2, <2>3, <2>4, <2>5, <2>6, <2>7, <2>12, SteadyStep
<1> QED
  BY <1>1, <1>2

LEMMA CloseDatabasePlacement ==
    ASSUME Placement, CloseDatabase
    PROVE  Placement'
<1>0. /\ phase \in Phase /\ JobFits /\ SweeperFits /\ queue \in Seq(Callable)
      /\ request \in [Request -> RequestStep] /\ mail \in [Request -> MailStep]
      /\ InFlight # {} => phase \in Answering
      /\ Sending # {} => phase \in Answering \cup {"draining"}
      /\ Orderly
  BY DEF Placement, Placed
<1>1. /\ Closing \in Queued /\ queue' \in Seq(Callable)
      /\ Queued' = Queued \ {Closing} /\ Distinct(queue)'
  BY <1>0, TailElems DEF CloseDatabase, Orderly, Queued
<1>2. phase = "closing" /\ InFlight = {} /\ Sending = {}
  BY <1>0, <1>1 DEF Orderly, Answering
<1>3. Queued' = {}
  <2>1. Queued \subseteq Callable
    BY <1>0 DEF Queued, Elems
  <2>2. \A r \in Request : request[r] # "waiting"
    BY <1>2 DEF InFlight
  <2>3. \A t \in Table : sweeper # t
    BY <1>0, <1>2 DEF SweeperFits, Leaving, Table
  <2> QED
    BY <1>0, <1>1, <2>1, <2>2, <2>3 DEF Orderly, Callable
<1>4. queue' = <<>>
  BY <1>1, <1>3, EmptyElems DEF Queued
<1>5. /\ job = NoJob /\ connection' = "closed" /\ worker' = FALSE /\ phase' = "stopped"
      /\ UNCHANGED <<txn, job, request, mail, sweeper>>
  BY DEF CloseDatabase, loop
<1>6. JobFits' /\ job'.who \notin Request \cup Table
  BY <1>0, <1>5, RequestAssumption DEF JobFits, NoJob, Running, Table
<1>7. SweeperFits'
  BY <1>0, <1>2, <1>5 DEF SweeperFits, Leaving, Starting, Answering
<1>8. InFlight' = {} /\ Sending' = {}
  BY <1>2, <1>5 DEF InFlight, Sending
<1>9. Placed'
  BY <1>0, <1>1, <1>4, <1>5, <1>6, <1>7, <1>8 DEF Placed, Phase, Off, Serving, Answering, Leaving
<1>10. Orderly'
  BY <1>1, <1>3, <1>6 DEF Orderly
<1> QED
  BY <1>9, <1>10 DEF Placement

LEMMA ServePlacement ==
    ASSUME Placement, NEW r \in Request, Serve(r)
    PROVE  Placement'
<1>0. /\ phase \in Phase /\ JobFits /\ SweeperFits /\ queue \in Seq(Callable)
      /\ phase \notin Serving => queue = <<>>
      /\ request \in [Request -> RequestStep] /\ mail \in [Request -> MailStep]
      /\ InFlight # {} => phase \in Answering
      /\ Sending # {} => phase \in Answering \cup {"draining"}
      /\ Orderly /\ Distinct(queue)
  BY DEF Placement, Placed, Orderly
<1>1. CASE Ask(r)
  <2>1. /\ phase = "serving" /\ request[r] = "new" /\ request' = [request EXCEPT ![r] = "waiting"]
        /\ queue' = Append(queue, r)
        /\ UNCHANGED <<phase, worker, connection, txn, job, mail, sweeper, versions>>
    BY <1>1 DEF Ask, Submit, disk
  <2>2. r \notin Queued /\ r \in Callable
    BY <1>0, <2>1 DEF Orderly, Callable
  <2>3. queue' \in Seq(Callable) /\ Queued' = Queued \cup {r} /\ Distinct(queue)'
    BY <1>0, <2>1, <2>2, AppendElems DEF Queued
  <2>4. job.who # r
    BY <1>0, <2>1 DEF Orderly
  <2>5. JobFits' /\ SweeperFits'
    BY <1>0, <2>1 DEF JobFits, SweeperFits, Pending
  <2>6. \A q \in Request : q # r => request'[q] = request[q]
    BY <1>0, <2>1
  <2>7. Orderly'
    BY <1>0, <2>1, <2>2, <2>3, <2>4, <2>6, RequestAssumption DEF Orderly, Table, Closing
  <2>8. request' \in [Request -> RequestStep] /\ Sending' = Sending
    BY <1>0, <2>1 DEF RequestStep, Sending
  <2> QED
    BY <1>0, <2>1, <2>3, <2>5, <2>7, <2>8, SteadyStep DEF Answering, Serving
<1>2. CASE Disconnect(r)
  <2>1. /\ request[r] \in Waits /\ phase \in Answering
        /\ request' = [request EXCEPT ![r] = "cancelled"]
        /\ Withdraw(r)
        /\ UNCHANGED <<phase, worker, connection, txn, job, mail, sweeper, versions>>
    BY <1>2 DEF Disconnect, Waits, Answering, disk
  <2>2. queue' \in Seq(Callable) /\ Queued' = Queued \ {r} /\ Distinct(queue)'
    BY <1>0, <2>1, WithdrawElems DEF Queued
  <2>3. JobFits' /\ SweeperFits'
    BY <1>0, <2>1 DEF JobFits, SweeperFits, Pending
  <2>4. (\A q \in Request : q # r => request'[q] = request[q]) /\ request'[r] = "cancelled"
    BY <1>0, <2>1
  <2>5. Orderly'
    BY <1>0, <2>1, <2>2, <2>4 DEF Orderly
  <2>6. request' \in [Request -> RequestStep] /\ Sending' = Sending
    BY <1>0, <2>1 DEF RequestStep, Sending
  <2> QED
    BY <1>0, <2>1, <2>2, <2>3, <2>5, <2>6, SteadyStep DEF Serving
<1>3. CASE Reply(r) \/ ReplyProblem(r)
  <2>1. /\ request[r] \in {"committed", "rolled_back"} /\ r \in InFlight
        /\ UNCHANGED <<phase, worker, connection, queue, txn, job, sweeper, versions>>
    BY <1>3 DEF Reply, ReplyProblem, InFlight, disk, database
  <2>2. PICK answer \in {"answered", "refused"} : request' = [request EXCEPT ![r] = answer]
    BY <1>3 DEF Reply, ReplyProblem
  <2>3. phase \in Answering
    BY <1>0, <2>1
  <2>4. JobFits' /\ SweeperFits'
    BY <1>0, <2>1 DEF JobFits, SweeperFits, Pending
  <2>5. \A q \in Request : q # r => request'[q] = request[q]
    BY <1>0, <2>2
  <2>6. r \notin Queued /\ r # job.who
    BY <1>0, <2>1 DEF Orderly
  <2>7. Queued' = Queued /\ Distinct(queue)'
    BY <1>0, <2>1 DEF Queued, Distinct
  <2>8. Orderly'
    BY <1>0, <2>1, <2>5, <2>6, <2>7 DEF Orderly
  <2>9. request' \in [Request -> RequestStep] /\ mail' \in [Request -> MailStep]
    BY <1>0, <1>3, <2>2 DEF Reply, ReplyProblem, Enqueue, RequestStep, MailStep
  <2> QED
    BY <1>0, <2>1, <2>3, <2>4, <2>8, <2>9, SteadyStep DEF Serving
<1>4. CASE Deliver(r) \/ DeliveryFails(r)
  <2>1. /\ r \in Sending
        /\ UNCHANGED <<phase, worker, connection, queue, txn, job, sweeper, versions, request>>
    BY <1>4 DEF Deliver, DeliveryFails, Sending, disk, database
  <2>2. mail' \in [Request -> MailStep]
    BY <1>0, <1>4 DEF Deliver, DeliveryFails, MailStep
  <2>3. JobFits' /\ SweeperFits'
    BY <1>0, <2>1 DEF JobFits, SweeperFits, Pending
  <2>4. Orderly' /\ InFlight' = InFlight
    BY <1>0, <2>1 DEF Orderly, Queued, Distinct, InFlight
  <2> QED
    BY <1>0, <2>1, <2>2, <2>3, <2>4, SteadyStep
<1> QED
  BY <1>1, <1>2, <1>3, <1>4 DEF Serve

LEMMA SweepPlacement ==
    ASSUME Placement, Sweep
    PROVE  Placement'
<1>0. /\ phase \in Phase /\ JobFits /\ SweeperFits /\ queue \in Seq(Callable)
      /\ phase \notin Serving => queue = <<>>
      /\ request \in [Request -> RequestStep] /\ mail \in [Request -> MailStep]
      /\ InFlight # {} => phase \in Answering
      /\ Sending # {} => phase \in Answering \cup {"draining"}
      /\ Orderly /\ Distinct(queue)
  BY DEF Placement, Placed, Orderly
<1>1. CASE Wake \/ SweepGrants
  <2>1. PICK t \in Table : Submit(t) /\ sweeper' = t /\ sweeper \in {"sleeping", "between"}
    BY <1>1 DEF Wake, SweepGrants, Table
  <2>2. UNCHANGED <<phase, worker, connection, txn, job, request, mail, versions>>
    BY <1>1 DEF Wake, SweepGrants, disk
  <2>3. phase \in Answering
    BY <1>0, <2>1 DEF SweeperFits, Phase, Serving, Off
  <2>4. t \notin Queued /\ t \in Callable /\ t # job.who
    BY <1>0, <2>1 DEF Orderly, Callable, Table
  <2>5. queue' \in Seq(Callable) /\ Queued' = Queued \cup {t} /\ Distinct(queue)'
    BY <1>0, <2>1, <2>4, AppendElems DEF Queued, Submit
  <2>6. JobFits'
    BY <1>0, <2>2 DEF JobFits, Pending
  <2>7. SweeperFits'
    BY <2>1, <2>2, <2>3 DEF SweeperFits, SweeperStep, Table, Starting, Answering, Leaving
  <2>8. \A u \in Table : u \notin Queued
    BY <1>0, <2>1 DEF Orderly, Table
  <2>9. \A u \in Table : u # job.who
    BY <1>0, <2>1 DEF Orderly, Table
  <2>10. t \notin Request /\ t # Closing
    BY RequestAssumption DEF Table, Closing
  <2>11. Orderly'
    BY <1>0, <2>1, <2>2, <2>4, <2>5, <2>8, <2>9, <2>10 DEF Orderly
  <2>12. InFlight' = InFlight /\ Sending' = Sending
    BY <2>2 DEF InFlight, Sending
  <2> QED
    BY <1>0, <2>2, <2>3, <2>5, <2>6, <2>7, <2>11, <2>12, SteadyStep DEF Serving
<1>2. ASSUME NEW t \in Table, Expire(t)
      PROVE  Placement'
  <2>1. UNCHANGED <<database, loop, phase, versions>>
    BY <1>2 DEF Expire
  <2> QED
    BY <1>0, <2>1, SteadyStep
       DEF database, loop, JobFits, SweeperFits, Pending, Orderly, Queued, Distinct, InFlight, Sending
<1> QED
  BY <1>1, <1>2 DEF Sweep

LEMMA ShutdownPlacement ==
    ASSUME Placement, Stop \/ CancelSweeper \/ Drained \/ DrainTimesOut \/ CloseClients
    PROVE  Placement'
<1>0. /\ phase \in Phase /\ JobFits /\ SweeperFits /\ queue \in Seq(Callable)
      /\ phase \notin Off <=> connection = "open"
      /\ phase \notin Off <=> worker
      /\ worker \in BOOLEAN /\ connection \in {"none", "open", "closed"}
      /\ request \in [Request -> RequestStep] /\ mail \in [Request -> MailStep]
      /\ InFlight # {} => phase \in Answering
      /\ Sending # {} => phase \in Answering \cup {"draining"}
      /\ Orderly /\ Distinct(queue)
  BY DEF Placement, Placed, Orderly
<1>1. ASSUME phase \in Serving, phase' \in Serving,
             UNCHANGED <<worker, connection, txn, job, request, versions>>,
             queue' \in Seq(Callable), SweeperFits', Orderly', mail' \in [Request -> MailStep],
             InFlight # {} => phase' \in Answering,
             Sending' # {} => phase' \in Answering \cup {"draining"}
      PROVE  Placement'
  <2>1. phase \notin Off /\ phase' \notin Off /\ phase' \in Phase
    BY <1>1, PhasesApart DEF Phase
  <2>2. JobFits'
    BY <1>0, <1>1 DEF JobFits, Serving, Answering, Leaving
  <2>3. InFlight' = InFlight
    BY <1>1 DEF InFlight
  <2> QED
    BY <1>0, <1>1, <2>1, <2>2, <2>3 DEF Placement, Placed, Off
<1>2. CASE Stop
  <2>1. /\ phase = "serving" /\ phase' = "stopping"
        /\ UNCHANGED <<worker, connection, queue, txn, job, request, mail, sweeper, versions>>
    BY <1>2 DEF Stop, database, loop, disk
  <2>2. SweeperFits'
    BY <1>0, <2>1 DEF SweeperFits, Starting, Answering, Leaving
  <2>3. Orderly'
    BY <1>0, <2>1 DEF Orderly, Queued, Distinct
  <2>4. Sending' = Sending
    BY <2>1 DEF Sending
  <2> QED
    BY <1>0, <1>1, <2>1, <2>2, <2>3, <2>4 DEF Serving, Answering
<1>3. CASE CancelSweeper
  <2>1. /\ phase = "stopping" /\ phase' = "draining" /\ InFlight = {} /\ sweeper' = "cancelled"
        /\ Withdraw(sweeper)
        /\ UNCHANGED <<worker, connection, txn, job, request, mail, versions>>
    BY <1>3 DEF CancelSweeper, disk
  <2>2. queue' \in Seq(Callable) /\ Queued' = Queued \ {sweeper} /\ Distinct(queue)'
    BY <1>0, <2>1, WithdrawElems DEF Queued
  <2>3. SweeperFits'
    BY <2>1 DEF SweeperFits, SweeperStep, Starting, Answering, Leaving
  <2>4. Orderly'
    BY <1>0, <2>1, <2>2 DEF Orderly
  <2>5. Sending' = Sending
    BY <2>1 DEF Sending
  <2> QED
    BY <1>0, <1>1, <2>1, <2>2, <2>3, <2>4, <2>5 DEF Serving, Answering, Leaving
<1>4. CASE Drained \/ DrainTimesOut
  <2>1. /\ phase = "draining" /\ phase' = "clients"
        /\ UNCHANGED <<worker, connection, queue, txn, job, request, sweeper, versions>>
    BY <1>4 DEF Drained, DrainTimesOut, database, loop, disk
  <2>2. mail' \in [Request -> MailStep] /\ Sending' = {}
    BY <1>0, <1>4 DEF Drained, DrainTimesOut, Sending, MailStep, loop
  <2>3. SweeperFits'
    BY <1>0, <2>1 DEF SweeperFits, Starting, Answering, Leaving
  <2>4. Orderly'
    BY <1>0, <2>1 DEF Orderly, Queued, Distinct
  <2>5. InFlight = {}
    BY <1>0, <2>1 DEF Answering
  <2> QED
    BY <1>0, <1>1, <2>1, <2>2, <2>3, <2>4, <2>5 DEF Serving, Leaving
<1>5. CASE CloseClients
  <2>1. /\ phase = "clients" /\ phase' = "closing" /\ queue' = Append(queue, Closing)
        /\ UNCHANGED <<worker, connection, txn, job, request, mail, sweeper, versions>>
    BY <1>5 DEF CloseClients, Submit, loop, disk
  <2>2. Closing \notin Queued /\ Closing \in Callable /\ Closing \notin Request \cup Table
    BY <1>0, <2>1, RequestAssumption DEF Orderly, Callable, Table, Closing
  <2>3. queue' \in Seq(Callable) /\ Queued' = Queued \cup {Closing} /\ Distinct(queue)'
    BY <1>0, <2>1, <2>2, AppendElems DEF Queued
  <2>4. SweeperFits'
    BY <1>0, <2>1 DEF SweeperFits, Starting, Answering, Leaving
  <2>5. job.who # Closing
    BY <1>0, <2>2, JobByStep DEF Closing, Migrating
  <2>6. Orderly'
    BY <1>0, <2>1, <2>2, <2>3, <2>5 DEF Orderly
  <2>7. InFlight = {} /\ Sending' = {}
    BY <1>0, <2>1 DEF Answering, Sending
  <2> QED
    BY <1>0, <1>1, <2>1, <2>3, <2>4, <2>6, <2>7 DEF Serving, Leaving
<1> QED
  BY <1>2, <1>3, <1>4, <1>5

LEMMA NextPlacement == Placement /\ [Next]_vars => Placement'
<1> SUFFICES ASSUME Placement, [Next]_vars PROVE Placement'
  OBVIOUS
<1>1. CASE UNCHANGED vars
  BY <1>1 DEF vars, disk, database, loop, Placement, Placed, JobFits, SweeperFits, Orderly, Queued,
              Distinct, InFlight, Sending, Pending
<1>2. CASE Next
  BY <1>1, <1>2, StartupPlacement, WorkPlacement, CloseDatabasePlacement, ServePlacement,
     SweepPlacement, ShutdownPlacement
     DEF Next, Work, Shutdown, Over
<1> QED
  BY <1>1, <1>2

LEMMA PlacementAlways == Init /\ [][Next]_vars => []Placement
  BY InitPlacement, NextPlacement, PTL

(***************************************************************************)
(* The database closes last: with its connection closed nothing that might *)
(* use it is left, and no refused or finished start keeps it, or its       *)
(* thread (Container.aclose, Database.aclose, create_app).                 *)
(***************************************************************************)
THEOREM ClosedLastTheorem == Spec => []ClosedLast
<1>1. Placement => ClosedLast
  <2> SUFFICES ASSUME Placement PROVE ClosedLast
    OBVIOUS
  <2>1. ASSUME connection = "closed"
        PROVE  /\ queue = <<>> /\ job = NoJob
               /\ InFlight = {} /\ Sending = {}
               /\ sweeper \in {"none", "cancelled"}
    <3>1. phase \in {"refused", "stopped"}
      BY <2>1 DEF Placement, Placed
    <3>2. phase \notin Serving /\ phase # "migrating" /\ phase \notin Answering \cup {"draining"}
      BY <3>1 DEF Serving, Answering, Leaving
    <3> QED
      BY <3>1, <3>2 DEF Placement, Placed, JobFits, SweeperFits
  <2>2. phase \in {"down", "refused", "stopped"} => connection # "open" /\ ~ worker
    BY DEF Placement, Placed, Off
  <2> QED
    BY <2>1, <2>2 DEF ClosedLast
<1> QED
  BY <1>1, PlacementAlways, PTL DEF Spec

-----------------------------------------------------------------------------
(* What was written.  A callable commits at most once because it is queued *)
(* once (Orderly); what its caller is told is decided with the commit.     *)

Truthful(r) ==
    /\ written[r] \in 0..1
    /\ request[r] \in {"committed", "answered"} => written[r] = 1
    /\ request[r] \in {"new", "rolled_back", "refused"} => written[r] = 0
    /\ r \in Queued => written[r] = 0
    /\ r = job.who => written[r] = 0

Accounted == written \in [Request -> 0..1] /\ \A r \in Request : Truthful(r)

LEMMA InitAccounted == Init => Accounted
<1> SUFFICES ASSUME Init PROVE Accounted
  OBVIOUS
<1>1. Queued = {}
  BY EmptyElems DEF Init, Queued
<1> QED
  BY <1>1, RequestAssumption DEF Init, Accounted, Truthful, NoJob, Running

LEMMA NextAccounted ==
    ASSUME Placement, Accounted, Next
    PROVE  Accounted'
<1>0. /\ JobFits /\ Orderly /\ queue \in Seq(Callable) /\ Distinct(queue)
      /\ request \in [Request -> RequestStep]
  BY DEF Placement, Placed, Orderly
<1>a. \A r \in Request : Truthful(r)
  BY DEF Accounted
<1>k. ASSUME UNCHANGED written, \A r \in Request : Truthful(r)'
      PROVE  Accounted'
  BY <1>k DEF Accounted
<1>q. ASSUME UNCHANGED <<written, request>>, Queued' \cap Request \subseteq Queued,
             job'.who = job.who \/ job'.who \notin Request
      PROVE  Accounted'
  BY <1>a, <1>k, <1>q DEF Truthful
<1>j. NoJob.who \notin Request /\ Migrating \notin Request
  BY RequestAssumption DEF NoJob, Running, Migrating
<1>e. ASSUME queue' = <<>>
      PROVE  Queued' = {}
  BY <1>e, EmptyElems DEF Queued
<1>s. ASSUME UNCHANGED queue
      PROVE  Queued' = Queued
  BY <1>s DEF Queued
<1>1. CASE Startup
  <2>1. UNCHANGED <<written, request>>
    BY <1>1 DEF Startup, SettingsRefused, Connect, ConnectFails, RunScript, RecordVersion, Migrated,
                SeedRole, BuildSender, CreateKey, WriteKey, LoadKey, LoadProviders, StartSweeper,
                Refuse, disk, loop
  <2>2. queue' = queue \/ queue' = <<>>
    BY <1>1 DEF Startup, SettingsRefused, Connect, ConnectFails, RunScript, RecordVersion, Migrated,
                SeedRole, BuildSender, CreateKey, WriteKey, LoadKey, LoadProviders, StartSweeper,
                Refuse, CloseUnstarted, database
  <2>3. job' = job \/ job' = NoJob \/ job' = Running(Migrating, "scripted")
    BY <1>1 DEF Startup, SettingsRefused, Connect, ConnectFails, RunScript, RecordVersion, Migrated,
                SeedRole, BuildSender, CreateKey, WriteKey, LoadKey, LoadProviders, StartSweeper,
                Refuse, CloseUnstarted, database
  <2>4. Running(Migrating, "scripted").who = Migrating
    BY DEF Running
  <2> QED
    BY <1>e, <1>j, <1>q, <1>s, <2>1, <2>2, <2>3, <2>4
<1>2. CASE Begin
  <2>1. /\ Head(queue) \in Queued /\ Queued' = Queued \ {Head(queue)}
    BY <1>0, <1>2, TailElems DEF Begin, Queued
  <2>2. job'.who = Head(queue) /\ UNCHANGED <<written, request>>
    BY <1>2 DEF Begin, Running, disk, loop
  <2> QED
    BY <1>a, <1>k, <2>1, <2>2 DEF Truthful
<1>3. CASE Commit
  <2> DEFINE w == job.who
  <2>1. /\ txn = {w} /\ w \notin Queued
        /\ \A r \in Request : r = w => request[r] \in {"waiting", "cancelled"}
    BY <1>0, <1>3, JobByStep DEF Commit, Orderly
  <2>2. /\ written' = [r \in Request |-> IF r \in txn THEN written[r] + 1 ELSE written[r]]
        /\ request' = Answered(w, "committed") /\ job' = NoJob /\ UNCHANGED queue
    BY <1>3 DEF Commit
  <2>3. ASSUME NEW r \in Request
        PROVE  Truthful(r)'
    <3>1. Truthful(r) /\ Queued' = Queued /\ r # job'.who
      BY <1>a, <1>j, <1>s, <2>2
    <3>2. CASE r = w
      <4>1. written[r] = 0 /\ written'[r] = written[r] + 1
        BY <2>1, <2>2, <3>1, <3>2 DEF Truthful
      <4>2. written'[r] = 1
        BY <4>1
      <4>3. request'[r] \in {"committed", "cancelled"}
        BY <2>1, <2>2, <3>2 DEF Answered
      <4> QED
        BY <2>1, <3>1, <3>2, <4>2, <4>3 DEF Truthful
    <3>3. CASE r # w
      <4>1. written'[r] = written[r] /\ request'[r] = request[r]
        BY <2>1, <2>2, <3>3 DEF Answered
      <4> QED
        BY <3>1, <4>1 DEF Truthful
    <3> QED
      BY <3>2, <3>3
  <2> QED
    BY <2>2, <2>3 DEF Accounted, Truthful
<1>4. CASE Rollback
  <2> DEFINE w == job.who
  <2>1. /\ request' = Answered(w, "rolled_back") /\ job' = NoJob /\ UNCHANGED <<queue, written>>
    BY <1>4 DEF Rollback, disk
  <2>2. ASSUME NEW r \in Request
        PROVE  Truthful(r)'
    <3>1. Truthful(r) /\ Queued' = Queued /\ r # job'.who
      BY <1>a, <1>j, <1>s, <2>1
    <3>2. request'[r] = request[r] \/ (r = w /\ request'[r] = "rolled_back")
      BY <2>1 DEF Answered
    <3> QED
      BY <2>1, <3>1, <3>2 DEF Truthful
  <2> QED
    BY <1>k, <2>1, <2>2
<1>5. CASE CloseDatabase
  <2>1. Queued' \subseteq Queued
    BY <1>0, <1>5, TailElems DEF CloseDatabase, Queued
  <2> QED
    BY <1>5, <1>q, <2>1 DEF CloseDatabase, disk, loop
<1>6. ASSUME NEW r \in Request, Serve(r)
      PROVE  Accounted'
  <2>1. UNCHANGED <<written, job>>
    BY <1>6 DEF Serve, Ask, Disconnect, Reply, ReplyProblem, Deliver, DeliveryFails, disk, database
  <2>2. CASE Ask(r)
    <3>1. /\ request[r] = "new" /\ request' = [request EXCEPT ![r] = "waiting"]
          /\ queue' = Append(queue, r) /\ r \in Callable /\ r \notin Queued
      BY <1>0, <2>2 DEF Ask, Submit, Callable, Orderly
    <3>2. Queued' = Queued \cup {r}
      BY <1>0, <3>1, AppendElems DEF Queued
    <3>3. ASSUME NEW q \in Request
          PROVE  Truthful(q)'
      BY <1>0, <1>a, <2>1, <3>1, <3>2 DEF Truthful
    <3> QED
      BY <1>k, <2>1, <3>3
  <2>3. CASE Disconnect(r)
    <3>1. request' = [request EXCEPT ![r] = "cancelled"] /\ Withdraw(r)
      BY <2>3 DEF Disconnect
    <3>2. Queued' \subseteq Queued
      BY <1>0, <3>1, WithdrawElems DEF Queued
    <3>3. ASSUME NEW q \in Request
          PROVE  Truthful(q)'
      BY <1>0, <1>a, <2>1, <3>1, <3>2 DEF Truthful
    <3> QED
      BY <1>k, <2>1, <3>3
  <2>4. CASE Reply(r) \/ ReplyProblem(r)
    <3>1. \/ request[r] = "committed" /\ request' = [request EXCEPT ![r] = "answered"]
          \/ request[r] = "rolled_back" /\ request' = [request EXCEPT ![r] = "refused"]
      BY <2>4 DEF Reply, ReplyProblem
    <3>2. Queued' = Queued
      BY <1>s, <2>4 DEF Reply, ReplyProblem, database
    <3>3. ASSUME NEW q \in Request
          PROVE  Truthful(q)'
      BY <1>0, <1>a, <2>1, <3>1, <3>2 DEF Truthful
    <3> QED
      BY <1>k, <2>1, <3>3
  <2>5. CASE Deliver(r) \/ DeliveryFails(r)
    BY <1>q, <1>s, <2>1, <2>5 DEF Deliver, DeliveryFails, disk, database
  <2> QED
    BY <1>6, <2>2, <2>3, <2>4, <2>5 DEF Serve
<1>7. CASE Sweep
  <2>1. UNCHANGED <<written, request, job>>
    BY <1>7 DEF Sweep, Wake, SweepGrants, Expire, disk, database, loop
  <2>2. ASSUME NEW t \in Table, Submit(t), t \notin Queued
        PROVE  Queued' = Queued \cup {t} /\ t \notin Request
    BY <1>0, <2>2, AppendElems, RequestAssumption DEF Submit, Callable, Queued
  <2>3. CASE Wake
    <3>1. "sessions" \in Table /\ "sessions" \notin Queued /\ Submit("sessions")
      BY <1>0, <2>3 DEF Wake, Orderly, Table
    <3> QED
      BY <1>q, <2>1, <2>2, <3>1
  <2>4. CASE SweepGrants
    <3>1. "grants" \in Table /\ "grants" \notin Queued /\ Submit("grants")
      BY <1>0, <2>4 DEF SweepGrants, Orderly, Table
    <3> QED
      BY <1>q, <2>1, <2>2, <3>1
  <2>5. CASE \E t \in Table : Expire(t)
    BY <1>q, <1>s, <2>1, <2>5 DEF Expire, database
  <2> QED
    BY <1>7, <2>3, <2>4, <2>5 DEF Sweep
<1>8. CASE Stop \/ CancelSweeper \/ Drained \/ DrainTimesOut \/ CloseClients
  <2>1. UNCHANGED <<written, request, job>>
    BY <1>8 DEF Stop, CancelSweeper, Drained, DrainTimesOut, CloseClients, disk, database, loop
  <2>2. CASE Stop \/ Drained \/ DrainTimesOut
    BY <1>q, <1>s, <2>1, <2>2 DEF Stop, Drained, DrainTimesOut, database
  <2>3. CASE CancelSweeper
    <3>1. Queued' \subseteq Queued
      BY <1>0, <2>3, WithdrawElems DEF CancelSweeper, Queued
    <3> QED
      BY <1>q, <2>1, <3>1
  <2>4. CASE CloseClients
    <3>1. Closing \notin Queued /\ queue' = Append(queue, Closing) /\ Closing \in Callable
          /\ Closing \notin Request
      BY <1>0, <2>4, RequestAssumption DEF CloseClients, Submit, Orderly, Callable
    <3>2. Queued' = Queued \cup {Closing}
      BY <1>0, <3>1, AppendElems DEF Queued
    <3> QED
      BY <1>q, <2>1, <3>1, <3>2
  <2> QED
    BY <1>8, <2>2, <2>3, <2>4
<1>9. CASE Gone
  <2>1. /\ UNCHANGED written /\ job' = NoJob /\ queue' = <<>>
        /\ request' = [r \in Request |-> IF r \in InFlight THEN "lost" ELSE request[r]]
    BY <1>9 DEF Gone, disk
  <2>2. ASSUME NEW r \in Request
        PROVE  Truthful(r)'
    BY <1>a, <1>e, <1>j, <2>1 DEF Truthful
  <2> QED
    BY <1>k, <2>1, <2>2
<1>10. CASE Over
  BY <1>10, <1>q, <1>s DEF Over, vars, disk, database, loop
<1> QED
  BY <1>1, <1>2, <1>3, <1>4, <1>5, <1>6, <1>7, <1>8, <1>9, <1>10
     DEF Next, Work, Shutdown, Exit, Crash

LEMMA AccountedAlways == Init /\ [][Next]_vars => []Accounted
<1>1. Placement /\ Accounted /\ [Next]_vars => Accounted'
  <2> SUFFICES ASSUME Placement, Accounted, [Next]_vars PROVE Accounted'
    OBVIOUS
  <2>1. CASE UNCHANGED vars
    BY <2>1 DEF vars, disk, database, loop, Accounted, Truthful, Queued
  <2> QED
    BY <2>1, NextAccounted
<1> QED
  BY <1>1, InitAccounted, PlacementAlways, PTL

(***************************************************************************)
(* What a caller was told is what is on the disk, whoever disconnects and  *)
(* wherever the process crashes: acknowledged writes are there once,       *)
(* refused ones never, and no transaction is left open for the next        *)
(* callable to commit (Database.transact and _in_transaction).             *)
(***************************************************************************)
THEOREM AnswersAreTrueTheorem == Spec => []AnswersAreTrue
<1>1. Placement /\ Accounted => AnswersAreTrue
  <2> SUFFICES ASSUME Placement, Accounted PROVE AnswersAreTrue
    OBVIOUS
  <2>1. job = NoJob => txn = {}
    BY JobByStep DEF Placement, Placed
  <2>2. \A r \in Request : Truthful(r)
    BY DEF Accounted
  <2> QED
    BY <2>1, <2>2 DEF AnswersAreTrue, Truthful
<1> QED
  BY <1>1, PlacementAlways, AccountedAlways, PTL DEF Spec

-----------------------------------------------------------------------------
(* The schema and its record.  The script and its row are one transaction, *)
(* so that what is pending is always what follows the last script run.     *)

Applied(n) == versions = 1..n /\ schema = [i \in 1..n |-> i]

Recorded ==
    /\ \E n \in 0..Migrations : Applied(n)
    /\ phase \in Phase \ {"down", "refused", "migrating"} => versions = Everything
    /\ phase \in {"signing", "writing_key", "wiring", "built", "stopped"} \cup Serving
          => roles = Role

\* The next migration is the one after the last.
LEMMA LowestPending ==
    ASSUME NEW n \in 0..Migrations, Applied(n), Pending # {}
    PROVE  n < Migrations /\ Lowest(Pending) = n + 1
<1>0. Migrations \in Nat /\ n \in Nat
  BY LifecycleAssumption
<1>1. Pending = (n + 1)..Migrations
  BY <1>0 DEF Pending, Everything, Applied
<1>2. n < Migrations
  BY <1>0, <1>1
<1>3. n + 1 \in Pending /\ \A m \in Pending : n + 1 <= m
  BY <1>0, <1>1, <1>2
<1> DEFINE x == Lowest(Pending)
<1>4. x \in Pending /\ \A m \in Pending : x <= m
  BY <1>3 DEF Lowest
<1> HIDE DEF x
<1>5. x = n + 1
  <2>1. x <= n + 1 /\ n + 1 <= x /\ x \in Int
    BY <1>0, <1>1, <1>3, <1>4
  <2> QED
    BY <1>0, <2>1
<1> QED
  BY <1>2, <1>5 DEF x

LEMMA AppendApplied ==
    ASSUME NEW n \in Nat, NEW s, s = [i \in 1..n |-> i]
    PROVE  Append(s, n + 1) = [i \in 1..(n + 1) |-> i]
  OBVIOUS

LEMMA NextRecorded ==
    ASSUME Placement, Recorded, Next
    PROVE  Recorded'
<1> USE DEF Phase, Starting, Answering, Leaving, Serving, Off
<1>0. phase \in Phase /\ JobFits
  BY DEF Placement, Placed
<1>n. PICK n \in 0..Migrations : Applied(n)
  BY DEF Recorded
<1>k. ASSUME UNCHANGED <<schema, versions, roles>>,
             \/ phase' = phase
             \/ phase' \in {"down", "refused", "migrating"}
             \/ phase \in Serving /\ phase' \in Serving \cup {"stopped"}
             \/ phase \in {"signing", "writing_key", "wiring", "built"}
                /\ phase' \in {"signing", "writing_key", "wiring", "built", "serving"}
      PROVE  Recorded'
  BY <1>n, <1>k DEF Recorded, Applied
<1>1. CASE RecordVersion
  <2>1. phase = "migrating" /\ phase' = "migrating" /\ txn = {Migrating} /\ Pending # {}
    BY <1>0, <1>1, JobByStep DEF RecordVersion
  <2>2. n < Migrations /\ Lowest(Pending) = n + 1
    BY <1>n, <2>1, LowestPending
  <2>3. schema' = Append(schema, n + 1) /\ versions' = versions \cup {n + 1}
    BY <1>1, <2>1, <2>2 DEF RecordVersion
  <2>4. n \in Nat /\ Migrations \in Nat /\ n + 1 \in 0..Migrations
    BY <2>2, LifecycleAssumption
  <2>5. schema' = [i \in 1..(n + 1) |-> i]
    BY <1>n, <2>3, <2>4, AppendApplied DEF Applied
  <2>6. versions' = 1..(n + 1)
    BY <1>n, <2>3, <2>4 DEF Applied
  <2> QED
    BY <2>1, <2>4, <2>5, <2>6 DEF Recorded, Applied
<1>2. CASE Migrated
  <2>1. versions = Everything
    <3>1. Everything \subseteq versions
      BY <1>2 DEF Migrated, Pending
    <3>2. versions \subseteq Everything
      BY <1>n, LifecycleAssumption DEF Applied, Everything
    <3> QED
      BY <3>1, <3>2
  <2> QED
    BY <1>2, <1>n, <2>1 DEF Migrated, disk, Recorded, Applied
<1>3. CASE \E r \in Role : SeedRole(r)
  BY <1>3, <1>n DEF SeedRole, Recorded, Applied
<1>4. CASE BuildSender
  BY <1>4, <1>n DEF BuildSender, disk, Recorded, Applied
<1>5. CASE SettingsRefused \/ Connect \/ ConnectFails \/ RunScript \/ Refuse \/ Exit \/ Crash
  BY <1>5, <1>k DEF SettingsRefused, Connect, ConnectFails, RunScript, Refuse, Exit, Crash, Gone, disk
<1>6. CASE CreateKey \/ WriteKey \/ LoadKey \/ LoadProviders \/ StartSweeper
  BY <1>6, <1>k DEF CreateKey, WriteKey, LoadKey, LoadProviders, StartSweeper, disk
<1>7. CASE Begin \/ Commit \/ Rollback
  BY <1>7, <1>k DEF Begin, Commit, Rollback, disk
<1>8. CASE CloseDatabase
  <2>1. phase \in Serving
    BY <1>8 DEF CloseDatabase, Placement, Placed
  <2> QED
    BY <1>8, <1>k, <2>1 DEF CloseDatabase, disk
<1>9. ASSUME NEW r \in Request, Serve(r)
      PROVE  Recorded'
  BY <1>9, <1>k DEF Serve, Ask, Disconnect, Reply, ReplyProblem, Deliver, DeliveryFails, disk
<1>10. CASE Sweep
  BY <1>10, <1>k DEF Sweep, Wake, SweepGrants, Expire, disk
<1>11. CASE Stop \/ CancelSweeper \/ Drained \/ DrainTimesOut \/ CloseClients
  BY <1>11, <1>k DEF Stop, CancelSweeper, Drained, DrainTimesOut, CloseClients, disk
<1>12. CASE Over
  BY <1>12, <1>k DEF Over, vars, disk
<1> QED
  BY <1>1, <1>2, <1>3, <1>4, <1>5, <1>6, <1>7, <1>8, <1>9, <1>10, <1>11, <1>12
     DEF Next, Startup, Work, Shutdown

LEMMA RecordedAlways == Init /\ [][Next]_vars => []Recorded
<1>1. Init => Recorded
  <2> SUFFICES ASSUME Init PROVE Recorded
    OBVIOUS
  <2>1. 0 \in 0..Migrations
    BY LifecycleAssumption
  <2>2. Applied(0)
    <3>1. versions = {} /\ schema = <<>>
      BY DEF Init
    <3>2. 1..0 = {}
      OBVIOUS
    <3>3. [i \in 1..0 |-> i] = <<>>
      OBVIOUS
    <3> QED
      BY <3>1, <3>2, <3>3 DEF Applied
  <2>3. phase = "down" /\ "down" \notin Serving
    BY DEF Init, Serving, Answering, Leaving
  <2> QED
    BY <2>1, <2>2, <2>3 DEF Recorded
<1>2. Placement /\ Recorded /\ [Next]_vars => Recorded'
  <2> SUFFICES ASSUME Placement, Recorded, [Next]_vars PROVE Recorded'
    OBVIOUS
  <2>1. CASE UNCHANGED vars
    BY <2>1 DEF vars, disk, Recorded, Applied
  <2> QED
    BY <2>1, NextRecorded
<1> QED
  BY <1>1, <1>2, PlacementAlways, PTL

(***************************************************************************)
(* Wherever starts are cut short, the scripts took effect in order, once   *)
(* each, schema_version names exactly them, and a service that serves has  *)
(* all of them and every built-in role (migrate, _apply and                *)
(* seed_builtin_roles).                                                    *)
(***************************************************************************)
THEOREM SchemaTheorem == Spec => []SchemaIsWhatItSays
<1>1. Placement /\ Recorded => SchemaIsWhatItSays
  <2> SUFFICES ASSUME Placement, Recorded PROVE SchemaIsWhatItSays
    OBVIOUS
  <2>1. PICK n \in 0..Migrations : Applied(n)
    BY DEF Recorded
  <2>2. n \in Nat
    BY LifecycleAssumption
  <2>3. Cardinality(1..n) = n
    BY <2>2, FS_Interval
  <2>4. Cardinality(versions) = n
    BY <2>1, <2>3 DEF Applied
  <2>5. sweeper # "none" => phase \in Serving \cup {"stopped"}
    BY DEF Placement, Placed, SweeperFits, Phase, Off
  <2>6. sweeper # "none" => versions = Everything /\ roles = Role
    BY <2>5 DEF Recorded, Phase, Off, Serving, Answering, Leaving
  <2> QED
    BY <2>1, <2>4, <2>6 DEF SchemaIsWhatItSays, Applied
<1> QED
  BY <1>1, PlacementAlways, RecordedAlways, PTL DEF Spec

-----------------------------------------------------------------------------
(* The signing key.  A process signs only with what is in the file, and    *)
(* the file is written only when it was not there, before anything signed. *)

KeyKept ==
    /\ boots \in 0..MaxBoots
    /\ phase # "down" => boots \in 1..MaxBoots
    /\ key \in {Absent, Partial} \cup 1..MaxBoots
    /\ signed # {} => key \in 1..MaxBoots /\ signed = {key}
    /\ phase = "writing_key" => key = Partial

LEMMA NextKeyKept ==
    ASSUME Placement, KeyKept, Next
    PROVE  KeyKept'
<1>0. MaxBoots \in Nat /\ phase \in Phase
  BY LifecycleAssumption DEF Placement, Placed
<1>k. ASSUME UNCHANGED <<key, signed, boots>>, phase' # "writing_key",
             phase' = "down" \/ phase # "down"
      PROVE  KeyKept'
  BY <1>k DEF KeyKept
<1>1. CASE SettingsRefused \/ Connect \/ ConnectFails
  <2>1. /\ phase = "down" /\ phase' \in {"refused", "migrating"} /\ boots < MaxBoots
        /\ boots' = boots + 1 /\ UNCHANGED <<key, signed>>
    BY <1>1 DEF SettingsRefused, Connect, ConnectFails, disk
  <2>2. boots' \in 1..MaxBoots /\ boots' \in 0..MaxBoots
    BY <1>0, <2>1 DEF KeyKept
  <2> QED
    BY <2>1, <2>2 DEF KeyKept
<1>2. CASE CreateKey
  <2>1. key = Absent /\ key' = Partial /\ phase = "signing" /\ UNCHANGED <<signed, boots>>
    BY <1>2 DEF CreateKey, count
  <2>2. signed = {}
    BY <2>1, <1>0 DEF KeyKept, Absent
  <2> QED
    BY <2>1, <2>2 DEF KeyKept
<1>3. CASE WriteKey
  <2>1. phase = "writing_key" /\ phase' = "signing" /\ key' = boots /\ UNCHANGED <<signed, boots>>
    BY <1>3 DEF WriteKey, count
  <2>2. signed = {}
    BY <2>1, <1>0 DEF KeyKept, Partial
  <2> QED
    BY <2>1, <2>2 DEF KeyKept
<1>4. CASE LoadKey
  <2>1. phase' = "wiring" /\ phase = "signing" /\ key \in 1..MaxBoots
        /\ signed' = signed \cup {key} /\ UNCHANGED <<key, boots>>
    BY <1>4 DEF LoadKey, KeyIsWhole, disk, count
  <2> QED
    BY <2>1 DEF KeyKept
<1>5. CASE RunScript \/ RecordVersion \/ Migrated \/ (\E r \in Role : SeedRole(r)) \/ BuildSender
           \/ LoadProviders \/ StartSweeper \/ Refuse
  BY <1>5, <1>k DEF RunScript, RecordVersion, Migrated, SeedRole, BuildSender, LoadProviders,
                    StartSweeper, Refuse, disk, count
<1>6. CASE Begin \/ Commit \/ Rollback \/ CloseDatabase
  <2>1. phase \in Serving
    <3>1. CASE Begin \/ CloseDatabase
      BY <3>1 DEF Begin, CloseDatabase, Placement, Placed
    <3>2. CASE Commit \/ Rollback
      BY <3>2, JobByStep DEF Commit, Rollback, Placement, Placed
    <3> QED
      BY <1>6, <3>1, <3>2
  <2>2. phase # "down" /\ phase # "writing_key"
    BY <2>1 DEF Serving, Answering, Leaving
  <2> QED
    BY <1>6, <1>k, <2>2 DEF Begin, Commit, Rollback, CloseDatabase, disk, count
<1>7. CASE UNCHANGED <<key, signed, boots, phase>>
  BY <1>7 DEF KeyKept
<1>8. ASSUME NEW r \in Request, Serve(r)
      PROVE  KeyKept'
  BY <1>7, <1>8 DEF Serve, Ask, Disconnect, Reply, ReplyProblem, Deliver, DeliveryFails, disk, count
<1>9. CASE Sweep \/ Over
  BY <1>7, <1>9 DEF Sweep, Wake, SweepGrants, Expire, Over, vars, disk, count
<1>10. CASE Stop \/ CancelSweeper \/ Drained \/ DrainTimesOut \/ CloseClients
  BY <1>10, <1>k DEF Stop, CancelSweeper, Drained, DrainTimesOut, CloseClients, disk, count
<1>11. CASE Exit \/ Crash
  BY <1>11, <1>k DEF Exit, Crash, Gone, disk
<1> QED
  BY <1>1, <1>2, <1>3, <1>4, <1>5, <1>6, <1>8, <1>9, <1>10, <1>11
     DEF Next, Startup, Work, Shutdown

LEMMA KeyKeptAlways == Init /\ [][Next]_vars => []KeyKept
<1>1. Init => KeyKept
  BY LifecycleAssumption DEF Init, KeyKept
<1>2. Placement /\ KeyKept /\ [Next]_vars => KeyKept'
  <2> SUFFICES ASSUME Placement, KeyKept, [Next]_vars PROVE KeyKept'
    OBVIOUS
  <2>1. CASE UNCHANGED vars
    BY <2>1 DEF vars, disk, count, KeyKept
  <2> QED
    BY <2>1, NextKeyKept
<1> QED
  BY <1>1, <1>2, PlacementAlways, PTL

(***************************************************************************)
(* All that ever served signed with one key, whatever starts were cut      *)
(* short while the file was made (_load_or_create_key).                    *)
(***************************************************************************)
THEOREM OneSigningKeyTheorem == Spec => []OneSigningKey
<1>1. KeyKept => OneSigningKey
  <2> SUFFICES ASSUME KeyKept PROVE OneSigningKey
    OBVIOUS
  <2>1. CASE signed = {}
    <3>1. Cardinality(signed) = 0
      BY <2>1, FS_EmptySet, Zenon
    <3> QED
      BY <3>1 DEF OneSigningKey
  <2>2. CASE signed # {}
    <3>1. Cardinality({key}) = 1
      BY FS_Singleton
    <3> QED
      BY <2>2, <3>1 DEF OneSigningKey, KeyKept
  <2> QED
    BY <2>1, <2>2
<1> QED
  BY <1>1, KeyKeptAlways, PTL DEF Spec

-----------------------------------------------------------------------------
(* Type correctness, which rests on all of the above, and on the bound on  *)
(* the sends in flight.                                                    *)

Limited ==
    /\ roles \subseteq Role /\ expired \subseteq Table /\ enabled \in BOOLEAN
    /\ faults \in 0..MaxFaults
    /\ Cardinality(Sending) <= MaxPending

LEMMA SendingFinite == IsFiniteSet(Sending) /\ Cardinality(Sending) \in Nat
<1>1. IsFiniteSet(Request) /\ Sending \subseteq Request
  BY LifecycleAssumption DEF Sending
<1> QED
  BY <1>1, FS_Subset, FS_CardinalityType

LEMMA FewerSends ==
    ASSUME Limited, Sending' \subseteq Sending
    PROVE  Cardinality(Sending') <= MaxPending
<1>1. /\ Cardinality(Sending') <= Cardinality(Sending) /\ Cardinality(Sending) \in Nat
      /\ Cardinality(Sending') \in Nat
  BY SendingFinite, FS_Subset, FS_CardinalityType
<1> QED
  BY <1>1, LifecycleAssumption DEF Limited

LEMMA NextLimited ==
    ASSUME Placement, Limited, Next
    PROVE  Limited'
<1>0. MaxPending \in Nat /\ MaxFaults \in Nat /\ mail \in [Request -> MailStep]
  BY LifecycleAssumption DEF Placement, Placed
<1>f. Fault => faults' \in 0..MaxFaults
  BY <1>0 DEF Fault, Limited
<1>t. faults' \in 0..MaxFaults
  <2>1. UNCHANGED faults \/ Fault
    <3>1. CASE Startup
      BY <3>1 DEF Startup, SettingsRefused, Connect, ConnectFails, RunScript, RecordVersion, Migrated,
                  SeedRole, BuildSender, CreateKey, WriteKey, LoadKey, LoadProviders, StartSweeper,
                  Refuse, count
    <3>2. CASE Work \/ Sweep
      BY <3>2 DEF Work, Begin, Commit, Rollback, CloseDatabase, Sweep, Wake, SweepGrants, Expire, count
    <3>3. CASE \E r \in Request : Serve(r)
      BY <3>3 DEF Serve, Ask, Disconnect, Reply, ReplyProblem, Deliver, DeliveryFails, count
    <3>4. CASE Shutdown \/ Crash \/ Over
      BY <3>4 DEF Shutdown, Stop, CancelSweeper, Drained, DrainTimesOut, CloseClients, Exit, Crash,
                  Over, vars, count
    <3> QED
      BY <3>1, <3>2, <3>3, <3>4 DEF Next
  <2> QED
    BY <1>f, <2>1 DEF Limited
<1>k. ASSUME UNCHANGED <<roles, expired, enabled>>, Sending' \subseteq Sending
      PROVE  Limited'
  BY <1>k, <1>t, FewerSends DEF Limited
<1>m. ASSUME UNCHANGED mail
      PROVE  Sending' = Sending
  BY <1>m DEF Sending
<1>1. CASE \E r \in Role : SeedRole(r)
  BY <1>1, <1>m, <1>t, FewerSends DEF SeedRole, Limited, loop
<1>2. CASE BuildSender
  BY <1>2, <1>m, <1>t, FewerSends DEF BuildSender, Limited, disk
<1>3. CASE SettingsRefused \/ Connect \/ ConnectFails \/ RunScript \/ RecordVersion \/ Migrated
           \/ CreateKey \/ WriteKey \/ LoadKey \/ LoadProviders \/ StartSweeper \/ Refuse
  BY <1>3, <1>k, <1>m DEF SettingsRefused, Connect, ConnectFails, RunScript, RecordVersion, Migrated,
                          CreateKey, WriteKey, LoadKey, LoadProviders, StartSweeper, Refuse, disk, loop
<1>4. CASE Commit
  BY <1>4, <1>m, <1>t, FewerSends DEF Commit, Limited
<1>5. CASE Begin \/ Rollback \/ CloseDatabase
  BY <1>5, <1>k, <1>m DEF Begin, Rollback, CloseDatabase, disk, loop
<1>6. CASE \E r \in Request : Ask(r) \/ Disconnect(r) \/ ReplyProblem(r)
  BY <1>6, <1>k, <1>m DEF Ask, Disconnect, ReplyProblem, disk
<1>7. ASSUME NEW r \in Request, Reply(r)
      PROVE  Limited'
  <2>1. mail' = [mail EXCEPT ![r] = Enqueue(r)] /\ UNCHANGED <<roles, expired, enabled>>
    BY <1>7 DEF Reply, disk
  <2>2. CASE enabled /\ Cardinality(Sending) < MaxPending
    <3>1. Sending' \subseteq Sending \cup {r}
      BY <1>0, <2>1 DEF Sending
    <3> DEFINE S == Sending
    <3>2. IsFiniteSet(S) /\ Cardinality(S) \in Nat
      BY SendingFinite
    <3> HIDE DEF S
    <3>3. IsFiniteSet(S \cup {r})
          /\ Cardinality(S \cup {r}) = IF r \in S THEN Cardinality(S) ELSE Cardinality(S) + 1
      BY <3>2, FS_AddElement, Zenon
    <3>4. Cardinality(S \cup {r}) \in Nat /\ Cardinality(S \cup {r}) <= Cardinality(S) + 1
      BY <3>2, <3>3
    <3>5. Cardinality(Sending') <= Cardinality(S \cup {r}) /\ Cardinality(Sending') \in Nat
      BY <3>1, <3>3, FS_Subset, FS_CardinalityType DEF S
    <3>6. Cardinality(S) < MaxPending
      BY <2>2 DEF S
    <3>7. Cardinality(Sending') <= MaxPending
      BY <1>0, <3>2, <3>4, <3>5, <3>6
    <3> QED
      BY <1>t, <2>1, <3>7 DEF Limited
  <2>3. CASE ~ (enabled /\ Cardinality(Sending) < MaxPending)
    <3>1. Enqueue(r) = "dropped"
      BY <2>3 DEF Enqueue
    <3>2. Sending' \subseteq Sending
      BY <1>0, <2>1, <3>1 DEF Sending
    <3> QED
      BY <1>k, <2>1, <3>2
  <2> QED
    BY <2>2, <2>3
<1>8. ASSUME NEW r \in Request, Deliver(r) \/ DeliveryFails(r)
      PROVE  Limited'
  <2>1. Sending' \subseteq Sending
    BY <1>0, <1>8 DEF Deliver, DeliveryFails, Sending
  <2> QED
    BY <1>8, <1>k, <2>1 DEF Deliver, DeliveryFails, disk
<1>9. CASE Wake \/ SweepGrants \/ Stop \/ CancelSweeper \/ Drained \/ CloseClients \/ Over
  BY <1>9, <1>k, <1>m DEF Wake, SweepGrants, Stop, CancelSweeper, Drained, CloseClients, Over, vars,
                          disk, loop
<1>10. CASE \E t \in Table : Expire(t)
  BY <1>10, <1>m, <1>t, FewerSends DEF Expire, Limited, loop
<1>11. CASE DrainTimesOut \/ Gone
  <2>1. Sending' \subseteq Sending
    BY <1>11 DEF DrainTimesOut, Gone, Sending
  <2> QED
    BY <1>11, <1>k, <2>1 DEF DrainTimesOut, Gone, disk
<1> QED
  BY <1>1, <1>2, <1>3, <1>4, <1>5, <1>6, <1>7, <1>8, <1>9, <1>10, <1>11
     DEF Next, Startup, Work, Serve, Sweep, Shutdown, Exit, Crash

LEMMA LimitedAlways == Init /\ [][Next]_vars => []Limited
<1>1. Init => Limited
  <2> SUFFICES ASSUME Init PROVE Limited
    OBVIOUS
  <2>1. Sending = {}
    BY DEF Init, Sending
  <2>2. Cardinality(Sending) = 0
    BY <2>1, FS_EmptySet, Zenon
  <2> QED
    BY <2>2, LifecycleAssumption DEF Init, Limited
<1>2. Placement /\ Limited /\ [Next]_vars => Limited'
  <2> SUFFICES ASSUME Placement, Limited, [Next]_vars PROVE Limited'
    OBVIOUS
  <2>1. CASE UNCHANGED vars
    BY <2>1 DEF vars, disk, loop, count, Limited, Sending
  <2> QED
    BY <2>1, NextLimited
<1> QED
  BY <1>1, <1>2, PlacementAlways, PTL

(***************************************************************************)
(* TypeOK: disk, connection, queue and tasks are well formed, nothing is   *)
(* committed twice, and no more sends are in flight than MAX_PENDING       *)
(* (Outbox.enqueue), for any number of requests.                           *)
(***************************************************************************)
THEOREM LifecycleTypeCorrect == Spec => []TypeOK
<1>1. Placement /\ Accounted /\ Recorded /\ KeyKept /\ Limited => TypeOK
  <2> SUFFICES ASSUME Placement, Accounted, Recorded, KeyKept, Limited PROVE TypeOK
    OBVIOUS
  <2>1. schema \in Seq(Everything) /\ versions \subseteq Everything
    <3>1. PICK n \in 0..Migrations : Applied(n)
      BY DEF Recorded
    <3>2. n \in Nat /\ 1..n \subseteq Everything
      BY LifecycleAssumption DEF Everything
    <3> QED
      BY <3>1, <3>2 DEF Applied
  <2>2. /\ txn \subseteq {Migrating} \cup Request \cup Table
        /\ job \in [who: {Migrating, NoJob.who} \cup Request \cup Table,
                    step: {"idle", "scripted", "working"}]
    BY DEF Placement, Placed, JobFits, Running, NoJob
  <2>3. written \in [Request -> 0..1]
    BY DEF Accounted
  <2>4. signed \subseteq 1..MaxBoots
    BY DEF KeyKept
  <2>5. /\ phase \in {"down", "migrating", "seeding", "signing", "writing_key", "wiring", "built",
                      "refused", "serving", "stopping", "draining", "clients", "closing", "stopped"}
        /\ connection \in {"none", "open", "closed"} /\ worker \in BOOLEAN
        /\ queue \in Seq(Request \cup Table \cup {Closing})
        /\ request \in [Request -> RequestStep] /\ mail \in [Request -> MailStep]
        /\ sweeper \in SweeperStep
    BY DEF Placement, Placed, SweeperFits, Callable, Phase, Starting, Serving, Answering, Leaving, Off
  <2> QED
    BY <2>1, <2>2, <2>3, <2>4, <2>5
       DEF TypeOK, KeyKept, Limited, RequestStep, MailStep, SweeperStep
<1> QED
  BY <1>1, PlacementAlways, AccountedAlways, RecordedAlways, KeyKeptAlways, LimitedAlways, PTL
     DEF Spec
=============================================================================
