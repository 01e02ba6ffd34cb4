-------------------------- MODULE JwksClientProofs --------------------------
(***************************************************************************)
(* Theorems about JwksClient, for any number of requests and keys and any  *)
(* cache time, grace, floor and timeout that meet TimeAssumption.          *)
(***************************************************************************)
EXTENDS JwksClient, SequenceTheorems, TLAPS

\* What a request is about to do is told by its tag.
LEMMA TaskFields ==
    ASSUME TypeOK, NEW t \in Task
    PROVE  /\ task[t] \in TaskState
           /\ task[t].at = "waiting" => task[t].kid \in Kid \cup {None}
           /\ task[t].at \in {"asking", "answering"} =>
                 task[t].kid \in Kid \cup {None} /\ task[t].since \in 0..now
           /\ task[t].at = "answering" => task[t].document \in Signing
<1>1. task[t] \in TaskState
  BY DEF TypeOK
<1>2. CASE task[t] = Idle
  BY <1>1, <1>2 DEF Idle
<1>3. CASE task[t] \in [at: {"waiting"}, kid: Kid \cup {None}]
  BY <1>1, <1>3
<1>4. CASE task[t] \in [at: {"asking"}, kid: Kid \cup {None}, since: 0..now]
  BY <1>1, <1>4
<1>5. CASE task[t] \in [at: {"answering"}, kid: Kid \cup {None}, since: 0..now, document: Signing]
  BY <1>1, <1>5
<1> QED
  BY <1>1, <1>2, <1>3, <1>4, <1>5 DEF TaskState

\* What is told is a verdict about a key id.
LEMMA Tells ==
    ASSUME NEW kid \in Kid \cup {None},
           NEW verdict \in {"key", "unknown", "unreachable"},
           Tell(kid, verdict)
    PROVE  /\ told' \in {None} \cup [kid: Kid, verdict: {"key", "unknown", "unreachable"}]
           /\ told' # None => kid \in Kid /\ told' = [kid |-> kid, verdict |-> verdict]
BY DEF Tell

LEMMA Verdicts ==
    ASSUME NEW kid
    PROVE  OutageVerdict(kid) \in {"key", "unknown", "unreachable"}
BY DEF OutageVerdict

-----------------------------------------------------------------------------
(* The type invariant *)

LEMMA InitTypeOK == Init => TypeOK
BY KidAssumption, TimeAssumption DEF Init, TypeOK, TaskState, Idle

\* The part of TypeOK that a request's own step can disturb, clock standing still.
LEMMA Finishes ==
    ASSUME TypeOK, NEW t \in Task, NEW verdict \in {"key", "unknown", "unreachable"},
           task[t].kid \in Kid \cup {None}, Finish(t, verdict), UNCHANGED now
    PROVE  /\ task' \in [Task -> TaskState']
           /\ told' \in {None} \cup [kid: Kid, verdict: {"key", "unknown", "unreachable"}]
<1>1. TaskState' = TaskState
  BY DEF TaskState, Idle
<1>2. task' \in [Task -> TaskState]
  BY DEF Finish, TypeOK, TaskState
<1> QED
  BY <1>1, <1>2, Tells DEF Finish

LEMMA NextTypeOK == ASSUME TypeOK, [Next]_vars PROVE TypeOK'
<1> USE KidAssumption, TimeAssumption
<1>0. UNCHANGED now => TaskState' = TaskState
  BY DEF TaskState, Idle
<1>1. ASSUME NEW t \in Task, NEW k \in Kid, KeyFor(t, k) PROVE TypeOK'
  <2>1. told' \in {None} \cup [kid: Kid, verdict: {"key", "unknown", "unreachable"}]
    BY <1>1, Tells DEF KeyFor, Silent
  <2>2. [at |-> "waiting", kid |-> k] \in TaskState
    BY DEF TaskState
  <2>3. task' \in [Task -> TaskState]
    BY <1>1, <2>2 DEF KeyFor, Join, TypeOK
  <2> QED
    BY <1>0, <1>1, <2>1, <2>3 DEF KeyFor, TypeOK, client
<1>2. ASSUME NEW t \in Task, Healthy(t) PROVE TypeOK'
  <2>1. [at |-> "waiting", kid |-> None] \in TaskState
    BY DEF TaskState
  <2>2. task' \in [Task -> TaskState]
    BY <1>2, <2>1 DEF Healthy, Join, TypeOK
  <2> QED
    BY <1>0, <1>2, <2>2 DEF Healthy, Silent, TypeOK, client
<1>3. ASSUME NEW t \in Task, EnterCached(t) PROVE TypeOK'
  BY <1>3, TaskFields, Finishes DEF EnterCached, TypeOK, client
<1>4. ASSUME NEW t \in Task, EnterSuppressed(t) PROVE TypeOK'
  BY <1>4, TaskFields, Finishes DEF EnterSuppressed, TypeOK, client
<1>5. ASSUME NEW t \in Task, EnterRefresh(t) PROVE TypeOK'
  <2>1. task[t].kid \in Kid \cup {None}
    BY <1>5, TaskFields DEF EnterRefresh
  <2>2. provokedAt' \in (0..now) \cup {None}
    BY <1>5 DEF EnterRefresh, Claimed, TypeOK
  <2>3. CASE Recent(failedAt)
    <3>1. Finish(t, OutageVerdict(task[t].kid))
      BY <1>5, <2>3 DEF EnterRefresh
    <3> QED
      BY <1>5, <2>1, <2>2, <3>1, Verdicts, Finishes DEF EnterRefresh, TypeOK
  <2>4. CASE ~ Recent(failedAt)
    <3>1. [at |-> "asking", kid |-> task[t].kid, since |-> now] \in TaskState
      BY <2>1 DEF TaskState, TypeOK
    <3>2. task' \in [Task -> TaskState]
      BY <1>5, <2>4, <3>1 DEF EnterRefresh, TypeOK
    <3> QED
      BY <1>0, <1>5, <2>2, <2>4, <3>2 DEF EnterRefresh, Silent, TypeOK
  <2> QED
    BY <2>3, <2>4
<1>6. ASSUME NEW t \in Task, Serve(t) PROVE TypeOK'
  <2>1. [at |-> "answering", kid |-> task[t].kid, since |-> task[t].since,
         document |-> published] \in TaskState
    BY <1>6, TaskFields DEF Serve, TaskState, TypeOK
  <2>2. task' \in [Task -> TaskState]
    BY <1>6, <2>1 DEF Serve, TypeOK
  <2> QED
    BY <1>0, <1>6, <2>2 DEF Serve, Silent, TypeOK, client
<1>7. ASSUME NEW t \in Task, Receive(t) PROVE TypeOK'
  <2>1. /\ task[t].kid \in Kid \cup {None}
        /\ task[t].document \in Signing
        /\ task[t].since \in 0..now
    BY <1>7, TaskFields DEF Receive
  <2>2. \E verdict \in {"key", "unknown"} : Finish(t, verdict)
    BY <1>7 DEF Receive
  <2> QED
    BY <1>7, <2>1, <2>2, Finishes DEF Receive, AgeOf, TypeOK
<1>8. ASSUME NEW t \in Task, Fail(t) PROVE TypeOK'
  BY <1>8, TaskFields, Verdicts, Finishes DEF Fail, TypeOK
<1>9. ASSUME NEW t \in Task, Cancel(t) PROVE TypeOK'
  <2>1. task' \in [Task -> TaskState]
    BY <1>9 DEF Cancel, TypeOK, TaskState
  <2> QED
    BY <1>0, <1>9, <2>1 DEF Cancel, Silent, TypeOK, client
<1>10. ASSUME NEW k \in Signing, Rotate(k) PROVE TypeOK'
  BY <1>0, <1>10 DEF Rotate, Silent, TypeOK, client
<1>11. ASSUME Tick PROVE TypeOK'
  <2>1. now \in Nat /\ now' = now + 1 /\ 0..now \subseteq 0..now'
    BY <1>11 DEF Tick, TypeOK
  <2>2. TaskState \subseteq TaskState'
    BY <2>1 DEF TaskState, Idle
  <2>3. task' \in [Task -> TaskState']
    BY <1>11, <2>2 DEF Tick, TypeOK
  <2> QED
    BY <1>11, <2>1, <2>3 DEF Tick, Silent, TypeOK, client
<1>12. ASSUME UNCHANGED vars PROVE TypeOK'
  BY <1>0, <1>12 DEF vars, client, TypeOK
<1> QED
  BY <1>1, <1>2, <1>3, <1>4, <1>5, <1>6, <1>7, <1>8, <1>9, <1>10, <1>11, <1>12 DEF Next

(***************************************************************************)
(* The fields of the client and the requests of key_for and healthy stay   *)
(* well formed, and no recorded time is ever ahead of the clock.           *)
(***************************************************************************)
THEOREM TypeCorrect == Spec => []TypeOK
<1>1. TypeOK /\ [Next]_vars => TypeOK'
  BY NextTypeOK
<1> QED
  BY InitTypeOK, <1>1, PTL DEF Spec

-----------------------------------------------------------------------------
(***************************************************************************)
(* Withdrawn keys.  What the property says of the last answer is not       *)
(* inductive: it has to be known of the key the client holds, of every     *)
(* document on its way, and of how long a fetch has taken.                 *)
(***************************************************************************)

\* The key was keyring's at some moment from at on.
CurrentSince(kid, at) == kid = published \/ (gone[kid] # None /\ gone[kid] >= at)

Fetching(t) == task[t].at \in {"asking", "answering"}

\* The key held was current when its document was asked for, or later.
HeldWasCurrent == keys # None => CurrentSince(keys, fetchedAt)

\* So was the key of a document on its way, and no fetch outlives its timeout.
FetchesAreRecent ==
    \A t \in Task :
        /\ Fetching(t) => now - task[t].since <= Timeout
        /\ task[t].at = "answering" => CurrentSince(task[t].document, task[t].since)

KeyInv == TypeOK /\ HeldWasCurrent /\ FetchesAreRecent

\* A key current within the cache time and the grace may be answered with.
Recently(kid) ==
    /\ kid \in Signing
    /\ \/ kid = published
       \/ gone[kid] # None /\ now - gone[kid] < CacheSeconds + StaleGraceSeconds

LEMMA InitKeyInv == Init => KeyInv
BY InitTypeOK DEF Init, KeyInv, HeldWasCurrent, FetchesAreRecent, Fetching, Idle

\* The key held may be answered with while the grace lasts.
LEMMA UsableIsRecent ==
    ASSUME KeyInv, UsableStale PROVE Recently(keys)
BY KidAssumption, TimeAssumption
   DEF KeyInv, TypeOK, HeldWasCurrent, CurrentSince, UsableStale, Recently

LEMMA FreshIsUsable ==
    ASSUME TypeOK, Fresh PROVE UsableStale
BY TimeAssumption DEF TypeOK, Fresh, UsableStale

\* The key of a document on its way may be answered with when it arrives.
LEMMA DocumentIsRecent ==
    ASSUME KeyInv, NEW t \in Task, task[t].at = "answering"
    PROVE  Recently(task[t].document)
<1>1. task[t].since \in 0..now /\ task[t].document \in Signing
  BY TaskFields DEF KeyInv
<1>2. now - task[t].since <= Timeout /\ CurrentSince(task[t].document, task[t].since)
  BY DEF KeyInv, FetchesAreRecent, Fetching
<1> QED
  BY <1>1, <1>2, KidAssumption, TimeAssumption DEF KeyInv, TypeOK, CurrentSince, Recently

\* A step that leaves the document, the clock and the other tasks alone.
LEMMA OthersStayRecent ==
    ASSUME KeyInv, NEW t \in Task, NEW r,
           task' = [task EXCEPT ![t] = r], UNCHANGED <<now, published, gone>>,
           r.at \notin {"asking", "answering"}
    PROVE  FetchesAreRecent'
BY DEF KeyInv, FetchesAreRecent, Fetching, CurrentSince, TypeOK

LEMMA NextKeyInv == ASSUME KeyInv, [Next]_vars PROVE KeyInv'
<1> USE KidAssumption, TimeAssumption
<1>0. TypeOK /\ TypeOK'
  BY NextTypeOK DEF KeyInv
<1>1. ASSUME NEW t \in Task, NEW k \in Kid, KeyFor(t, k) PROVE KeyInv'
  <2>1. HeldWasCurrent'
    BY <1>1 DEF KeyFor, client, KeyInv, HeldWasCurrent, CurrentSince
  <2>2. CASE UNCHANGED task
    BY <1>0, <1>1, <2>1, <2>2
       DEF KeyFor, KeyInv, FetchesAreRecent, Fetching, CurrentSince
  <2>3. CASE Join(t, k)
    <3>1. FetchesAreRecent'
      BY <1>1, <2>3, OthersStayRecent DEF KeyFor, Join
    <3> QED
      BY <1>0, <2>1, <3>1 DEF KeyInv
  <2> QED
    BY <1>1, <2>2, <2>3 DEF KeyFor
<1>2. ASSUME NEW t \in Task, Healthy(t) PROVE KeyInv'
  <2>1. FetchesAreRecent'
    BY <1>2, OthersStayRecent DEF Healthy, Join
  <2> QED
    BY <1>0, <1>2, <2>1 DEF Healthy, client, KeyInv, HeldWasCurrent, CurrentSince
<1>3. ASSUME NEW t \in Task, EnterCached(t) \/ EnterSuppressed(t) \/ Cancel(t) PROVE KeyInv'
  <2>1. FetchesAreRecent'
    BY <1>3, OthersStayRecent DEF EnterCached, EnterSuppressed, Cancel, Finish, Idle
  <2> QED
    BY <1>0, <1>3, <2>1
       DEF EnterCached, EnterSuppressed, Cancel, client, KeyInv, HeldWasCurrent, CurrentSince
<1>4. ASSUME NEW t \in Task, EnterRefresh(t) PROVE KeyInv'
  <2>1. HeldWasCurrent'
    BY <1>4 DEF EnterRefresh, KeyInv, HeldWasCurrent, CurrentSince
  <2>2. CASE Recent(failedAt)
    <3>1. FetchesAreRecent'
      BY <1>4, <2>2, OthersStayRecent DEF EnterRefresh, Finish, Idle
    <3> QED
      BY <1>0, <2>1, <3>1 DEF KeyInv
  <2>3. CASE ~ Recent(failedAt)
    <3>1. task' = [task EXCEPT ![t] = [at |-> "asking", kid |-> task[t].kid, since |-> now]]
      BY <1>4, <2>3 DEF EnterRefresh
    <3>2. FetchesAreRecent'
      BY <1>0, <1>4, <3>1
         DEF EnterRefresh, KeyInv, FetchesAreRecent, Fetching, CurrentSince, TypeOK
    <3> QED
      BY <1>0, <2>1, <3>2 DEF KeyInv
  <2> QED
    BY <2>2, <2>3
<1>5. ASSUME NEW t \in Task, Serve(t) PROVE KeyInv'
  <2>1. HeldWasCurrent'
    BY <1>5 DEF Serve, client, KeyInv, HeldWasCurrent, CurrentSince
  <2>2. /\ task'[t].at = "answering" /\ task'[t].since = task[t].since
        /\ task'[t].document = published
        /\ now - task[t].since <= Timeout
        /\ UNCHANGED <<now, published>>
    BY <1>0, <1>5 DEF Serve, KeyInv, FetchesAreRecent, Fetching, TypeOK
  <2>3. ASSUME NEW u \in Task, u # t PROVE task'[u] = task[u]
    BY <1>0, <1>5, <2>3 DEF Serve, TypeOK
  <2>4. FetchesAreRecent'
    <3> SUFFICES ASSUME NEW u \in Task
                 PROVE  /\ Fetching(u)' => (now - task[u].since <= Timeout)'
                        /\ (task[u].at = "answering")' =>
                              CurrentSince(task[u].document, task[u].since)'
      BY DEF FetchesAreRecent
    <3>1. CASE u = t
      BY <2>2, <3>1 DEF CurrentSince
    <3>2. CASE u # t
      BY <1>5, <2>3, <3>2 DEF Serve, KeyInv, FetchesAreRecent, Fetching, CurrentSince
    <3> QED
      BY <3>1, <3>2
  <2> QED
    BY <1>0, <2>1, <2>4 DEF KeyInv
<1>6. ASSUME NEW t \in Task, Receive(t) PROVE KeyInv'
  <2>1. FetchesAreRecent'
    BY <1>6, OthersStayRecent DEF Receive, Finish, Idle
  <2>2. HeldWasCurrent'
    BY <1>6 DEF Receive, AgeOf, KeyInv, HeldWasCurrent, FetchesAreRecent, CurrentSince
  <2> QED
    BY <1>0, <2>1, <2>2 DEF KeyInv
<1>7. ASSUME NEW t \in Task, Fail(t) PROVE KeyInv'
  <2>1. FetchesAreRecent'
    BY <1>7, OthersStayRecent DEF Fail, Finish, Idle
  <2> QED
    BY <1>0, <1>7, <2>1 DEF Fail, KeyInv, HeldWasCurrent, CurrentSince
<1>8. ASSUME NEW k \in Signing, Rotate(k) PROVE KeyInv'
  <2>1. \A j \in Signing, at \in 0..now :
           CurrentSince(j, at) => \/ j = published'
                                  \/ gone'[j] # None /\ gone'[j] >= at
    BY <1>0, <1>8 DEF Rotate, CurrentSince, TypeOK
  <2>2. HeldWasCurrent'
    BY <1>0, <1>8, <2>1 DEF Rotate, client, KeyInv, HeldWasCurrent, CurrentSince, TypeOK
  <2>3. ASSUME NEW t \in Task, task[t].at = "answering"
        PROVE  CurrentSince(task[t].document, task[t].since)
               /\ task[t].document \in Signing /\ task[t].since \in 0..now
    BY <1>0, <2>3, TaskFields DEF KeyInv, FetchesAreRecent
  <2>4. FetchesAreRecent'
    BY <1>8, <2>1, <2>3 DEF Rotate, KeyInv, FetchesAreRecent, Fetching, CurrentSince
  <2> QED
    BY <1>0, <2>2, <2>4 DEF KeyInv
<1>9. ASSUME Tick PROVE KeyInv'
  <2>1. ASSUME NEW t \in Task, Fetching(t) PROVE now' - task'[t].since <= Timeout
    <3>1. task[t].since \in 0..now /\ now \in Nat /\ now - task[t].since < Timeout
      BY <1>0, <1>9, <2>1, TaskFields DEF Tick, Fetching, TypeOK
    <3> QED
      BY <1>9, <3>1 DEF Tick
  <2>2. FetchesAreRecent'
    BY <1>9, <2>1 DEF Tick, KeyInv, FetchesAreRecent, Fetching, CurrentSince
  <2> QED
    BY <1>0, <1>9, <2>2 DEF Tick, client, KeyInv, HeldWasCurrent, CurrentSince
<1>10. ASSUME UNCHANGED vars PROVE KeyInv'
  BY <1>0, <1>10
     DEF vars, client, KeyInv, HeldWasCurrent, FetchesAreRecent, Fetching, CurrentSince
<1> QED
  BY <1>1, <1>2, <1>3, <1>4, <1>5, <1>6, <1>7, <1>8, <1>9, <1>10 DEF Next

\* Whatever a step answers with "key" is the key of a recent document.
LEMMA AnswersAreRecent ==
    ASSUME KeyInv, [Next]_vars, WithdrawnKeysStopWorking
    PROVE  WithdrawnKeysStopWorking'
<1> USE KidAssumption, TimeAssumption
<1>0. TypeOK
  BY DEF KeyInv
<1>1. ASSUME NEW kid \in Kid \cup {None}, NEW verdict \in {"key", "unknown", "unreachable"},
             Tell(kid, verdict), verdict = "key" => Recently(kid),
             UNCHANGED <<now, published, gone>>
      PROVE  WithdrawnKeysStopWorking'
  BY <1>1, Tells DEF WithdrawnKeysStopWorking, Recently
<1>2. ASSUME told' = None PROVE WithdrawnKeysStopWorking'
  BY <1>2 DEF WithdrawnKeysStopWorking
<1>3. ASSUME NEW kid, OutageVerdict(kid) = "key" PROVE Recently(kid)
  BY <1>3, UsableIsRecent DEF OutageVerdict
<1>4. ASSUME NEW kid, Cached(kid) PROVE Recently(kid)
  BY <1>0, <1>4, FreshIsUsable, UsableIsRecent DEF Cached
<1>5. ASSUME NEW t \in Task, NEW k \in Kid, KeyFor(t, k) PROVE WithdrawnKeysStopWorking'
  BY <1>1, <1>2, <1>4, <1>5 DEF KeyFor, Silent
<1>6. ASSUME NEW t \in Task, EnterCached(t) PROVE WithdrawnKeysStopWorking'
  BY <1>0, <1>1, <1>4, <1>6, TaskFields DEF EnterCached, Finish
<1>7. ASSUME NEW t \in Task, EnterSuppressed(t) PROVE WithdrawnKeysStopWorking'
  BY <1>0, <1>1, <1>7, TaskFields DEF EnterSuppressed, Finish
<1>8. ASSUME NEW t \in Task, EnterRefresh(t) PROVE WithdrawnKeysStopWorking'
  <2>1. task[t].kid \in Kid \cup {None}
    BY <1>0, <1>8, TaskFields DEF EnterRefresh
  <2>2. CASE Finish(t, OutageVerdict(task[t].kid))
    BY <1>1, <1>3, <1>8, <2>1, <2>2, Verdicts DEF EnterRefresh, Finish
  <2> QED
    BY <1>2, <1>8, <2>2 DEF EnterRefresh, Silent
<1>9. ASSUME NEW t \in Task, Receive(t) PROVE WithdrawnKeysStopWorking'
  <2>1. task[t].kid \in Kid \cup {None} /\ Recently(task[t].document)
    BY <1>0, <1>9, TaskFields, DocumentIsRecent DEF Receive
  <2> QED
    BY <1>1, <1>9, <2>1 DEF Receive, Finish
<1>10. ASSUME NEW t \in Task, Fail(t) PROVE WithdrawnKeysStopWorking'
  <2>1. task[t].kid \in Kid \cup {None}
    BY <1>0, <1>10, TaskFields DEF Fail
  <2> QED
    BY <1>1, <1>3, <1>10, <2>1, Verdicts DEF Fail, Finish
<1>11. ASSUME \/ \E t \in Task : Healthy(t) \/ Serve(t) \/ Cancel(t)
              \/ \E k \in Signing : Rotate(k)
              \/ Tick
       PROVE  WithdrawnKeysStopWorking'
  BY <1>2, <1>11 DEF Healthy, Serve, Cancel, Rotate, Tick, Silent
<1>12. ASSUME UNCHANGED vars PROVE WithdrawnKeysStopWorking'
  BY <1>12 DEF vars, WithdrawnKeysStopWorking
<1> QED
  BY <1>5, <1>6, <1>7, <1>8, <1>9, <1>10, <1>11, <1>12 DEF Next

(***************************************************************************)
(* A key keyring has withdrawn stops verifying tokens within the cache     *)
(* time and the grace, however fetches, failures and cancellations fall    *)
(* between rotations: what key_for hands out was keyring's own key less    *)
(* than that long ago.                                                     *)
(***************************************************************************)
THEOREM WithdrawnKeysTheorem == Spec => []WithdrawnKeysStopWorking
<1>1. Init => KeyInv /\ WithdrawnKeysStopWorking
  BY InitKeyInv DEF Init, WithdrawnKeysStopWorking
<1>2. KeyInv /\ WithdrawnKeysStopWorking /\ [Next]_vars
        => KeyInv' /\ WithdrawnKeysStopWorking'
  BY NextKeyInv, AnswersAreRecent
<1> QED
  BY <1>1, <1>2, PTL DEF Spec

-----------------------------------------------------------------------------
(* The lock: a line of requests, whose head holds it *)

Elems(s) == {s[i] : i \in 1..Len(s)}

\* Line(s): nobody is in it twice.
Line(s) == s \in Seq(Task) /\ \A i, j \in 1..Len(s) : s[i] = s[j] => i = j

\* Joining, letting go and leaving: who is in the line, and who is at its head.
LEMMA LineJoined ==
    ASSUME NEW s, Line(s), NEW t \in Task, t \notin Elems(s)
    PROVE  /\ Line(Append(s, t)) /\ Elems(Append(s, t)) = Elems(s) \cup {t}
           /\ Append(s, t) # <<>>
           /\ s # <<>> => Head(Append(s, t)) = Head(s)
<1> DEFINE a == Append(s, t)
<1>1. /\ a \in Seq(Task) /\ Len(a) = Len(s) + 1 /\ a[Len(s) + 1] = t
      /\ \A i \in 1..Len(s) : a[i] = s[i]
  BY AppendProperties DEF Line
<1>2. Len(s) \in Nat /\ (s # <<>> => Len(s) >= 1)
  BY LenProperties, EmptySeq DEF Line
<1>3. Head(a) = a[1] /\ Head(s) = s[1]
  OBVIOUS
<1> HIDE DEF a
<1>4. a # <<>>
  <2>1. Len(a) # 0
    BY <1>1, <1>2
  <2> QED
    BY <2>1, EmptySeq
<1>5. Elems(a) = Elems(s) \cup {t}
  <2>1. \A i \in 1..Len(a) : i \in 1..Len(s) \/ i = Len(s) + 1
    BY <1>1, <1>2
  <2>2. Elems(a) \subseteq Elems(s) \cup {t}
    BY <1>1, <2>1 DEF Elems
  <2>3. Elems(s) \cup {t} \subseteq Elems(a)
    BY <1>1, <1>2 DEF Elems
  <2> QED
    BY <2>2, <2>3
<1>6. Line(a)
  <2> SUFFICES ASSUME NEW i \in 1..Len(a), NEW j \in 1..Len(a), a[i] = a[j]
               PROVE  i = j
    BY <1>1 DEF Line
  <2>1. CASE i \in 1..Len(s) /\ j \in 1..Len(s)
    BY <1>1, <2>1 DEF Line
  <2>2. CASE i = Len(s) + 1 /\ j \in 1..Len(s)
    BY <1>1, <2>2 DEF Elems
  <2>3. CASE j = Len(s) + 1 /\ i \in 1..Len(s)
    BY <1>1, <2>3 DEF Elems
  <2> QED
    BY <1>1, <1>2, <2>1, <2>2, <2>3
<1>7. s # <<>> => Head(a) = Head(s)
  BY <1>1, <1>2, <1>3
<1> QED
  BY <1>4, <1>5, <1>6, <1>7 DEF a

LEMMA LineWithout ==
    ASSUME NEW s, Line(s), NEW n \in 1..Len(s)
    PROVE  LET w == [i \in 1..Len(s) - 1 |-> IF i < n THEN s[i] ELSE s[i + 1]] IN
           /\ Line(w) /\ Elems(w) = Elems(s) \ {s[n]}
           /\ n # 1 => w # <<>> /\ Head(w) = Head(s)
<1> DEFINE w == [i \in 1..Len(s) - 1 |-> IF i < n THEN s[i] ELSE s[i + 1]]
           from(i) == IF i < n THEN i ELSE i + 1
<1>1. Len(s) \in Nat /\ n \in Nat /\ n >= 1 /\ n <= Len(s) /\ \A i \in 1..Len(s) : s[i] \in Task
  BY LenProperties, ElementOfSeq DEF Line
<1>2. ASSUME NEW i \in 1..Len(s) - 1
      PROVE  from(i) \in 1..Len(s) /\ from(i) # n /\ w[i] = s[from(i)]
  BY <1>1
<1>3. w \in Seq(Task) /\ Len(w) = Len(s) - 1
  <2>1. Len(s) - 1 \in Nat /\ w \in [1..Len(s) - 1 -> Task]
    BY <1>1, <1>2
  <2> HIDE DEF w
  <2> QED
    BY <2>1
<1>4. Head(w) = w[1] /\ Head(s) = s[1]
  OBVIOUS
<1> HIDE DEF w
<1>5. Line(w)
  <2> SUFFICES ASSUME NEW i \in 1..Len(s) - 1, NEW j \in 1..Len(s) - 1, w[i] = w[j]
               PROVE  i = j
    BY <1>3 DEF Line
  <2>1. from(i) = from(j)
    BY <1>2 DEF Line
  <2> QED
    BY <1>1, <2>1
<1>6. Elems(w) = Elems(s) \ {s[n]}
  <2>1. ASSUME NEW i \in 1..Len(s) - 1
        PROVE  w[i] \in Elems(s) \ {s[n]}
    <3>1. from(i) \in 1..Len(s) /\ from(i) # n /\ w[i] = s[from(i)]
      BY <1>2
    <3> HIDE DEF from
    <3> QED
      BY <3>1 DEF Elems, Line
  <2>2. ASSUME NEW m \in 1..Len(s), s[m] # s[n]
        PROVE  s[m] \in Elems(w)
    <3>1. CASE m < n
      <4>1. m \in 1..Len(s) - 1 /\ from(m) = m
        BY <1>1, <3>1
      <4> QED
        BY <1>2, <1>3, <4>1 DEF Elems
    <3>2. CASE ~ (m < n)
      <4>1. m # n
        BY <2>2
      <4>2. m - 1 \in 1..Len(s) - 1 /\ from(m - 1) = m
        BY <1>1, <3>2, <4>1
      <4> QED
        BY <1>2, <1>3, <4>2 DEF Elems
    <3> QED
      BY <3>1, <3>2
  <2>3. Elems(s) \ {s[n]} \subseteq Elems(w)
    BY <2>2 DEF Elems
  <2>4. Elems(w) = {w[i] : i \in 1..Len(s) - 1}
    BY <1>3 DEF Elems
  <2> QED
    BY <2>1, <2>3, <2>4
<1>7. n # 1 => w # <<>> /\ Head(w) = Head(s)
  <2> SUFFICES ASSUME n # 1 PROVE w # <<>> /\ Head(w) = Head(s)
    OBVIOUS
  <2>1. 1 \in 1..Len(s) - 1 /\ from(1) = 1 /\ Len(w) # 0
    BY <1>1, <1>3
  <2>2. w # <<>>
    BY <2>1, EmptySeq
  <2> QED
    BY <1>2, <1>4, <2>1, <2>2
<1> QED
  BY <1>5, <1>6, <1>7 DEF w

LEMMA LineShortened ==
    ASSUME NEW s, Line(s), s # <<>>
    PROVE  Line(Tail(s)) /\ Elems(Tail(s)) = Elems(s) \ {Head(s)} /\ Head(s) \in Elems(s)
<1> DEFINE w == [i \in 1..Len(s) - 1 |-> IF i < 1 THEN s[i] ELSE s[i + 1]]
<1>1. s \in Seq(Task) /\ Len(s) \in Nat \ {0} /\ Head(s) = s[1]
  BY EmptySeq DEF Line
<1>2. 1 \in 1..Len(s)
  BY <1>1
<1>3. Line(w) /\ Elems(w) = Elems(s) \ {s[1]}
  BY <1>2, LineWithout
<1>4. Tail(s) = w
  <2>1. /\ Tail(s) \in Seq(Task) /\ Len(Tail(s)) = Len(s) - 1
        /\ \A i \in 1..Len(Tail(s)) : Tail(s)[i] = s[i + 1]
    BY <1>1, HeadTailProperties
  <2>2. \A i \in 1..Len(s) - 1 : w[i] = s[i + 1]
    BY <1>1
  <2>3. w \in Seq(Task) /\ Len(w) = Len(s) - 1
    <3>1. Len(s) - 1 \in Nat /\ w = [i \in 1..Len(s) - 1 |-> w[i]]
      BY <1>1
    <3>2. w \in Seq(Task)
      BY <1>3 DEF Line
    <3> HIDE DEF w
    <3> QED
      BY <3>1, <3>2
  <2> HIDE DEF w
  <2> QED
    BY <2>1, <2>2, <2>3, SeqEqual
<1> HIDE DEF w
<1>5. s[1] \in Elems(s)
  BY <1>2 DEF Elems
<1> QED
  BY <1>1, <1>3, <1>4, <1>5

-----------------------------------------------------------------------------
(* Who is in flight is in the line, and the head of the line fetches.      *)

LockOrderly ==
    /\ Line(lock)
    /\ \A t \in Task : task[t] # Idle <=> t \in Elems(lock)
    /\ \A t \in Task : Fetching(t) => Holds(t)

\* key_for and healthy take their place at the end of the line.
LEMMA JoinOrderly ==
    ASSUME TypeOK, LockOrderly, NEW t \in Task, NEW kid, task[t] = Idle, Join(t, kid)
    PROVE  LockOrderly'
<1>1. lock' = Append(lock, t) /\ task' = [task EXCEPT ![t] = [at |-> "waiting", kid |-> kid]]
  BY DEF Join
<1>2. t \notin Elems(lock) /\ Line(lock)
  BY DEF LockOrderly
<1>3. /\ Line(lock') /\ Elems(lock') = Elems(lock) \cup {t}
      /\ lock' # <<>> /\ (lock # <<>> => Head(lock') = Head(lock))
  BY <1>1, <1>2, LineJoined
<1>4. \A u \in Task : task'[u] = IF u = t THEN [at |-> "waiting", kid |-> kid] ELSE task[u]
  BY <1>1 DEF TypeOK
<1>5. ASSUME NEW u \in Task
      PROVE  /\ task'[u] # Idle <=> u \in Elems(lock')
             /\ Fetching(u)' => Holds(u)'
  <2>1. CASE u = t
    <3>1. task'[u].at = "waiting" /\ task'[u] # Idle
      BY <1>4, <2>1 DEF Idle
    <3> QED
      BY <1>3, <2>1, <3>1 DEF Fetching
  <2>2. CASE u # t
    <3>1. task'[u] = task[u]
      BY <1>4, <2>2
    <3>2. task'[u] # Idle <=> u \in Elems(lock')
      BY <1>3, <2>2, <3>1 DEF LockOrderly
    <3>3. Fetching(u)' => Holds(u)'
      BY <1>3, <3>1 DEF LockOrderly, Fetching, Holds
    <3> QED
      BY <3>2, <3>3
  <2> QED
    BY <2>1, <2>2
<1> QED
  BY <1>3, <1>5 DEF LockOrderly

\* The holder ends, and the next in line holds the lock: it waits still.
LEMMA FinishOrderly ==
    ASSUME TypeOK, LockOrderly, NEW t \in Task, Holds(t), NEW verdict, Finish(t, verdict)
    PROVE  LockOrderly'
<1>1. lock' = Tail(lock) /\ task' = [task EXCEPT ![t] = Idle]
  BY DEF Finish
<1>2. lock # <<>> /\ Head(lock) = t /\ Line(lock)
  BY DEF Holds, LockOrderly
<1>3. Line(lock') /\ Elems(lock') = Elems(lock) \ {t}
  BY <1>1, <1>2, LineShortened
<1>4. \A u \in Task : task'[u] = IF u = t THEN Idle ELSE task[u]
  BY <1>1 DEF TypeOK
<1>5. \A u \in Task : ~ Fetching(u)'
  BY <1>2, <1>4 DEF LockOrderly, Fetching, Holds, Idle
<1>6. \A u \in Task : task'[u] # Idle <=> u \in Elems(lock')
  BY <1>3, <1>4 DEF LockOrderly
<1> QED
  BY <1>3, <1>5, <1>6 DEF LockOrderly

\* Whoever is cancelled leaves, wherever in the line.
LEMMA CancelOrderly ==
    ASSUME TypeOK, LockOrderly, NEW t \in Task, Cancel(t)
    PROVE  LockOrderly'
<1> DEFINE n == CHOOSE n \in 1..Len(lock) : lock[n] = t
           w == [i \in 1..Len(lock) - 1 |-> IF i < n THEN lock[i] ELSE lock[i + 1]]
<1>1. lock' = w /\ task[t] # Idle /\ task' = [task EXCEPT ![t] = Idle]
  BY DEF Cancel, Left
<1>2. Line(lock) /\ t \in Elems(lock)
  BY <1>1 DEF LockOrderly
<1>3. n \in 1..Len(lock) /\ lock[n] = t
  BY <1>2 DEF Elems
<1> HIDE DEF n
<1>4. /\ Line(w) /\ Elems(w) = Elems(lock) \ {t}
      /\ n # 1 => w # <<>> /\ Head(w) = Head(lock)
  BY <1>2, <1>3, LineWithout
<1> HIDE DEF w
<1>5. \A u \in Task : task'[u] = IF u = t THEN Idle ELSE task[u]
  BY <1>1 DEF TypeOK
<1>6. \A u \in Task : task'[u] # Idle <=> u \in Elems(lock')
  BY <1>1, <1>4, <1>5 DEF LockOrderly
<1>7. ASSUME NEW u \in Task, Fetching(u)'
      PROVE  Holds(u)'
  <2>1. u # t /\ task'[u] = task[u]
    BY <1>5, <1>7 DEF Fetching, Idle
  <2>2. Holds(u)
    BY <1>7, <2>1 DEF LockOrderly, Fetching
  <2>3. n # 1
    <3>1. Head(lock) = lock[1]
      OBVIOUS
    <3> QED
      BY <1>3, <2>1, <2>2, <3>1 DEF Holds
  <2> QED
    BY <1>1, <1>4, <2>2, <2>3 DEF Holds
<1> QED
  BY <1>1, <1>4, <1>6, <1>7 DEF LockOrderly

Goes(t, r) == task' = [task EXCEPT ![t] = r]

\* The holder goes on with its fetch.
LEMMA FetchOrderly ==
    ASSUME TypeOK, LockOrderly, NEW t \in Task, Holds(t), NEW r, r.at \in {"asking", "answering"},
           task[t].at # "idle", Goes(t, r), lock' = lock
    PROVE  LockOrderly'
<1>1. \A u \in Task : task'[u] = IF u = t THEN r ELSE task[u]
  BY DEF TypeOK, Goes
<1>2. r # Idle /\ task[t] # Idle
  BY DEF Idle
<1>3. \A u \in Task : task'[u] # Idle <=> u \in Elems(lock')
  BY <1>1, <1>2 DEF LockOrderly
<1>4. ASSUME NEW u \in Task, Fetching(u)'
      PROVE  Holds(u)'
  <2>1. CASE u = t
    BY <2>1 DEF Holds
  <2>2. CASE u # t
    BY <1>1, <1>4, <2>2 DEF LockOrderly, Fetching, Holds
  <2> QED
    BY <2>1, <2>2
<1> QED
  BY <1>3, <1>4 DEF LockOrderly

LEMMA NextOrderly ==
    ASSUME TypeOK, LockOrderly, [Next]_vars
    PROVE  LockOrderly'
<1>0. ASSUME UNCHANGED <<task, lock>>
      PROVE  LockOrderly'
  BY <1>0 DEF LockOrderly, Fetching, Holds
<1>1. ASSUME NEW t \in Task, NEW k \in Kid, KeyFor(t, k)
      PROVE  LockOrderly'
  <2>1. CASE Cached(k)
    BY <1>0, <1>1, <2>1 DEF KeyFor
  <2>2. CASE ~ Cached(k)
    BY <1>1, <2>2, JoinOrderly DEF KeyFor
  <2> QED
    BY <2>1, <2>2
<1>2. ASSUME NEW t \in Task, Healthy(t)
      PROVE  LockOrderly'
  BY <1>2, JoinOrderly DEF Healthy
<1>3. ASSUME NEW t \in Task, EnterCached(t) \/ EnterSuppressed(t)
      PROVE  LockOrderly'
  BY <1>3, FinishOrderly DEF EnterCached, EnterSuppressed
<1>4. ASSUME NEW t \in Task, EnterRefresh(t)
      PROVE  LockOrderly'
  <2>1. CASE Recent(failedAt)
    BY <1>4, <2>1, FinishOrderly DEF EnterRefresh
  <2>2. CASE ~ Recent(failedAt)
    <3> DEFINE r == [at |-> "asking", kid |-> task[t].kid, since |-> now]
    <3>1. /\ Holds(t) /\ task[t].at = "waiting" /\ Goes(t, r) /\ lock' = lock
      BY <1>4, <2>2 DEF EnterRefresh, Goes
    <3>2. r.at \in {"asking", "answering"} /\ task[t].at # "idle"
      BY <3>1
    <3> HIDE DEF r
    <3> QED
      BY <3>1, <3>2, FetchOrderly
  <2> QED
    BY <2>1, <2>2
<1>5. ASSUME NEW t \in Task, Serve(t)
      PROVE  LockOrderly'
  <2> DEFINE r == [at |-> "answering", kid |-> task[t].kid, since |-> task[t].since,
                   document |-> published]
  <2>1. task[t].at = "asking" /\ Goes(t, r) /\ lock' = lock
    BY <1>5 DEF Serve, Goes
  <2>2. Holds(t)
    BY <2>1 DEF LockOrderly, Fetching
  <2>3. r.at \in {"asking", "answering"} /\ task[t].at # "idle"
    BY <2>1
  <2> HIDE DEF r
  <2> QED
    BY <2>1, <2>2, <2>3, FetchOrderly
<1>6. ASSUME NEW t \in Task, Receive(t) \/ Fail(t)
      PROVE  LockOrderly'
  <2>1. Holds(t)
    BY <1>6 DEF LockOrderly, Fetching, Receive, Fail
  <2>2. \E verdict : Finish(t, verdict)
    BY <1>6 DEF Receive, Fail
  <2> QED
    BY <2>1, <2>2, FinishOrderly
<1>7. ASSUME NEW t \in Task, Cancel(t)
      PROVE  LockOrderly'
  BY <1>7, CancelOrderly
<1>8. ASSUME (\E k \in Signing : Rotate(k)) \/ Tick \/ UNCHANGED vars
      PROVE  UNCHANGED <<task, lock>>
  BY <1>8 DEF Rotate, Tick, vars
<1> QED
  BY <1>0, <1>1, <1>2, <1>3, <1>4, <1>5, <1>6, <1>7, <1>8 DEF Next

LEMMA OrderlyAlways == Spec => []LockOrderly
<1>1. Init => LockOrderly
  BY EmptySeq DEF Init, LockOrderly, Line, Elems, Fetching, Idle
<1> QED
  BY <1>1, NextOrderly, TypeCorrect, PTL DEF Spec

(***************************************************************************)
(* The lock of key_for and healthy is never lost, however many requests    *)
(* queue for it: answers, failures, timeouts and cancellations of whoever  *)
(* holds it or waits for it let it go on to the next.                      *)
(***************************************************************************)
THEOREM LockTheorem == Spec => []LockIsHeldByTheLiving
<1>1. LockOrderly => LockIsHeldByTheLiving
  BY DEF LockOrderly, Line, Elems, Fetching, LockIsHeldByTheLiving
<1> QED
  BY <1>1, OrderlyAlways, PTL

(***************************************************************************)
(* A key id that key_for refuses as unknown is keyring's own only for a    *)
(* floor or a fetch after a rotation, or while the window is spent on a    *)
(* fetch that brought nothing.  The reason is in KeyInv: the key that      *)
(* stood in the cache, or came in the document, was keyring's no earlier   *)
(* than its fetch began, so it was withdrawn since.                        *)
(***************************************************************************)
THEOREM UnknownKeysTheorem == Spec => UnknownKeysAreNew
<1> DEFINE Excused ==
             \/ \E k \in Signing :
                   /\ gone[k] # None
                   /\ now - gone[k] <= Timeout \/ now - gone[k] < MinRefetchSeconds
             \/ provokedAt # None /\ provokedAt > fetchedAt
           Just == told' = [kid |-> published, verdict |-> "unknown"] => Excused
<1> USE KidAssumption, TimeAssumption
<1>1. ASSUME KeyInv, [Next]_vars
      PROVE  [Just]_vars
  <2> SUFFICES ASSUME told' = [kid |-> published, verdict |-> "unknown"], Next
               PROVE  Excused
    BY <1>1
  <2>0. /\ told' # None /\ told'.kid = published /\ told'.verdict = "unknown"
        /\ published # None
    <3>1. published \in Kid /\ told'.kid = published /\ told'.verdict = "unknown"
      BY <1>1 DEF KeyInv, TypeOK, Kid
    <3>2. told' \in [kid: Kid, verdict: {"key", "unknown", "unreachable"}]
      BY <3>1
    <3> QED
      BY <3>1, <3>2, VerdictAssumption
  <2>1. ASSUME NEW kid, NEW verdict, Tell(kid, verdict)
        PROVE  kid = published /\ verdict = "unknown"
    <3>1. told' = [kid |-> kid, verdict |-> verdict]
      BY <2>0, <2>1 DEF Tell
    <3> QED
      BY <2>0, <3>1
  <2> HIDE DEF Excused
  <2>2. ASSUME NEW t \in Task, EnterSuppressed(t)
        PROVE  Excused
    <3>1. task[t].kid = published
      BY <2>1, <2>2 DEF EnterSuppressed, Finish
    <3>2. /\ keys # None /\ keys # published
          /\ provokedAt # None /\ now - provokedAt < MinRefetchSeconds
      BY <2>2, <3>1 DEF EnterSuppressed, Cached, Provokes, Fresh, Recent
    <3>3. keys \in Signing /\ gone[keys] # None /\ gone[keys] >= fetchedAt
      BY <1>1, <3>2 DEF KeyInv, TypeOK, HeldWasCurrent, CurrentSince
    <3>4. /\ now \in Nat /\ fetchedAt \in Nat /\ provokedAt \in Nat /\ gone[keys] \in Nat
      BY <1>1, <3>2, <3>3 DEF KeyInv, TypeOK
    <3>5. CASE provokedAt > fetchedAt
      BY <3>2, <3>5 DEF Excused
    <3>6. CASE ~ (provokedAt > fetchedAt)
      <4>1. now - gone[keys] < MinRefetchSeconds
        BY <3>2, <3>3, <3>4, <3>6
      <4> QED
        BY <3>3, <4>1 DEF Excused
    <3> QED
      BY <3>5, <3>6
  <2>3. ASSUME NEW t \in Task, Receive(t)
        PROVE  Excused
    <3> DEFINE d == task[t].document
    <3>1. task[t].at = "answering" /\ task[t].kid = published /\ d # published
      BY <2>1, <2>3 DEF Receive, Finish
    <3>2. /\ d \in Signing /\ task[t].since \in 0..now /\ now \in Nat
          /\ now - task[t].since <= Timeout
          /\ gone[d] # None /\ gone[d] >= task[t].since
      BY <1>1, <3>1, TaskFields DEF KeyInv, TypeOK, FetchesAreRecent, Fetching, CurrentSince
    <3>3. gone[d] \in Nat
      BY <1>1, <3>2 DEF KeyInv, TypeOK
    <3>4. now - gone[d] <= Timeout
      BY <3>2, <3>3
    <3> QED
      BY <3>2, <3>4 DEF Excused
  <2>4. ASSUME NEW kid
        PROVE  OutageVerdict(kid) # "unknown"
    BY DEF OutageVerdict
  <2>5. ASSUME NEW t \in Task, NEW k \in Kid, KeyFor(t, k)
        PROVE  FALSE
    BY <2>0, <2>1, <2>5 DEF KeyFor, Silent
  <2>6. ASSUME NEW t \in Task, EnterCached(t) \/ EnterRefresh(t) \/ Fail(t)
        PROVE  FALSE
    BY <2>0, <2>1, <2>4, <2>6 DEF EnterCached, EnterRefresh, Fail, Finish, Silent
  <2>7. ASSUME \/ \E t \in Task : Healthy(t) \/ Serve(t) \/ Cancel(t)
               \/ \E k \in Signing : Rotate(k)
               \/ Tick
        PROVE  FALSE
    BY <2>0, <2>7 DEF Healthy, Serve, Cancel, Rotate, Tick, Silent
  <2> QED
    BY <2>2, <2>3, <2>5, <2>6, <2>7 DEF Next
<1>2. Spec => []KeyInv
  <2>1. KeyInv /\ [Next]_vars => KeyInv'
    BY NextKeyInv
  <2> QED
    BY InitKeyInv, <2>1, PTL DEF Spec
<1> QED
  BY <1>1, <1>2, PTL DEF Spec, UnknownKeysAreNew

-----------------------------------------------------------------------------
(***************************************************************************)
(* The spacing of fetches.  A fetch of key_for either finds the cache run  *)
(* out or claims the window.  What the client remembers, the age of its    *)
(* key or the time of a failure, is no older than any fetch that ended; so *)
(* the first kind finds every earlier fetch past the floor, and the second *)
(* kind every earlier one that claimed the window.                         *)
(***************************************************************************)

\* The client remembers a success or a failure no older than at.
Remembered(at) ==
    \/ keys # None /\ at <= fetchedAt
    \/ failedAt # None /\ at <= failedAt

\* Of two fetches still within the floor, the later one claimed the window.
LogSpaced ==
    /\ fetches \in Seq(Nat)
    /\ Len(fetches) <= 2
    /\ \A i \in 1..Len(fetches) : fetches[i] <= now /\ Remembered(fetches[i])
    /\ Len(fetches) = 2 => /\ fetches[1] <= fetches[2]
                           /\ provokedAt # None /\ fetches[2] <= provokedAt

\* No fetch that ended is later than since, or i of them and on are past the floor.
AllPast(since, i) ==
    \A j \in i..Len(fetches) : since - fetches[j] >= MinRefetchSeconds

\* What the fetch that began at since knows of those before it.
BeginsSpaced(kid, since) ==
    /\ \A i \in 1..Len(fetches) : fetches[i] <= since
    /\ kid # None => \/ AllPast(since, 1)
                     \/ AllPast(since, 2) /\ provokedAt # None /\ since <= provokedAt

Spacing ==
    /\ LogSpaced
    /\ \A t \in Task : Fetching(t) => BeginsSpaced(task[t].kid, task[t].since)

\* Whatever the clock and the window do, a log that stands remains spaced.
LEMMA LogStands ==
    ASSUME TypeOK, TypeOK', LogSpaced,
           UNCHANGED <<keys, fetchedAt, failedAt, fetches>>, now' >= now,
           provokedAt' = provokedAt \/ provokedAt' = now
    PROVE  LogSpaced'
<1>1. /\ now \in Nat /\ now' \in Nat
      /\ \A i \in 1..Len(fetches) : fetches[i] \in Nat
  BY ElementOfSeq DEF LogSpaced, TypeOK
<1>2. Remembered(0)' = Remembered(0) /\ \A at \in Nat : Remembered(at) => Remembered(at)'
  BY DEF Remembered
<1>3. \A i \in 1..Len(fetches) : fetches'[i] <= now' /\ Remembered(fetches[i])'
  BY <1>1, <1>2 DEF LogSpaced
<1>4. ASSUME Len(fetches) = 2
      PROVE  /\ fetches[1] <= fetches[2]
             /\ provokedAt' # None /\ fetches[2] <= provokedAt'
  <2>1. 2 \in 1..Len(fetches)
    BY <1>4
  <2> QED
    BY <1>1, <1>4, <2>1, KidAssumption DEF LogSpaced
<1> QED
  BY <1>3, <1>4 DEF LogSpaced, Remembered

\* A step that touches neither the client nor the log, and begins no fetch.
LEMMA QuietlySpaced ==
    ASSUME TypeOK, TypeOK', Spacing, UNCHANGED <<client, fetches>>, now' >= now,
           \A u \in Task : Fetching(u)' => /\ Fetching(u)
                                           /\ task'[u].kid = task[u].kid
                                           /\ task'[u].since = task[u].since
    PROVE  Spacing'
<1>1. LogSpaced'
  BY LogStands DEF Spacing, client
<1>2. ASSUME NEW u \in Task, Fetching(u)'
      PROVE  BeginsSpaced(task[u].kid, task[u].since)'
  <2>1. BeginsSpaced(task[u].kid, task[u].since)
    BY <1>2 DEF Spacing
  <2> QED
    BY <1>2, <2>1 DEF BeginsSpaced, AllPast, client
<1> QED
  BY <1>1, <1>2 DEF Spacing

\* A fetch of either kind begins spaced from those that ended.
LEMMA EnterSpaced ==
    ASSUME Unhurried, TypeOK, TypeOK', LockOrderly, Spacing, NEW t \in Task, EnterRefresh(t)
    PROVE  Spacing'
<1> USE KidAssumption, TimeAssumption
<1>1. /\ Holds(t) /\ task[t].at = "waiting" /\ provokedAt' = Claimed(t)
      /\ UNCHANGED <<keys, fetchedAt, failedAt, now, fetches>>
      /\ now \in Nat
  BY DEF EnterRefresh, TypeOK
<1>2. LogSpaced'
  BY <1>1, LogStands DEF Spacing, Claimed, TypeOK
<1>3. ASSUME NEW u \in Task
      PROVE  ~ Fetching(u)
  BY <1>1, <1>3 DEF LockOrderly, Holds, Fetching
<1>4. CASE Recent(failedAt)
  <2>1. task' = [task EXCEPT ![t] = Idle]
    BY <1>4 DEF EnterRefresh, Finish
  <2>2. \A u \in Task : ~ Fetching(u)'
    BY <1>3, <2>1 DEF Fetching, Idle, TypeOK
  <2> QED
    BY <1>2, <2>2 DEF Spacing
<1>5. CASE ~ Recent(failedAt)
  <2>1. task' = [task EXCEPT ![t] = [at |-> "asking", kid |-> task[t].kid, since |-> now]]
    BY <1>5 DEF EnterRefresh
  <2>2. \A u \in Task : Fetching(u)' => u = t
    BY <1>3, <2>1 DEF Fetching, TypeOK
  <2>3. task'[t].kid = task[t].kid /\ task'[t].since = now
    BY <2>1 DEF TypeOK
  <2>4. \A i \in 1..Len(fetches) : fetches[i] \in Nat /\ fetches[i] <= now
    BY ElementOfSeq DEF Spacing, LogSpaced
  <2>5. ASSUME task[t].kid # None, ~ Provokes(t)
        PROVE  AllPast(now, 1)
    <3>1. keys = None \/ now - fetchedAt >= CacheSeconds
      BY <2>5 DEF Provokes, Fresh, TypeOK
    <3>2. failedAt = None \/ now - failedAt >= MinRefetchSeconds
      BY <1>5 DEF Recent, TypeOK
    <3>3. ASSUME NEW j \in 1..Len(fetches)
          PROVE  now - fetches[j] >= MinRefetchSeconds
      <4>1. Remembered(fetches[j]) /\ fetches[j] \in Nat
        BY <2>4 DEF Spacing, LogSpaced
      <4>2. CASE keys # None /\ fetches[j] <= fetchedAt
        BY <1>1, <3>1, <4>1, <4>2 DEF Unhurried, TypeOK
      <4>3. CASE failedAt # None /\ fetches[j] <= failedAt
        BY <1>1, <3>2, <4>1, <4>3 DEF TypeOK
      <4> QED
        BY <4>1, <4>2, <4>3 DEF Remembered
    <3> QED
      BY <3>3 DEF AllPast
  <2>6. ASSUME Provokes(t)
        PROVE  AllPast(now, 2) /\ provokedAt' = now
    <3>1. provokedAt' = now /\ ~ Recent(provokedAt)
      BY <1>1, <2>6 DEF EnterRefresh, Claimed
    <3>2. ASSUME NEW j \in 2..Len(fetches)
          PROVE  now - fetches[j] >= MinRefetchSeconds
      <4>1. Len(fetches) \in Nat /\ Len(fetches) <= 2
        BY LenProperties DEF Spacing, LogSpaced
      <4>2. j = 2 /\ Len(fetches) = 2
        <5>1. \A len \in Nat : len <= 2 => \A i \in 2..len : i = 2 /\ len = 2
          OBVIOUS
        <5> QED
          BY <4>1, <5>1
      <4>3. fetches[j] \in Nat
        BY <2>4, <4>2
      <4>4. provokedAt # None /\ fetches[j] <= provokedAt
        BY <4>2 DEF Spacing, LogSpaced
      <4>5. provokedAt \in Nat /\ now - provokedAt >= MinRefetchSeconds
        BY <1>1, <3>1, <4>4 DEF Recent, TypeOK
      <4> QED
        BY <1>1, <4>3, <4>4, <4>5
    <3> QED
      BY <3>1, <3>2 DEF AllPast
  <2>7. BeginsSpaced(task[t].kid, now)'
    BY <1>1, <2>3, <2>4, <2>5, <2>6 DEF BeginsSpaced, AllPast
  <2> QED
    BY <1>1, <1>2, <2>2, <2>3, <2>7 DEF Spacing, BeginsSpaced, AllPast
<1> QED
  BY <1>4, <1>5

\* The log, once the fetch has been added and those past the floor are gone.
LEMMA FetchedSpaced ==
    ASSUME TypeOK, Spacing, NEW t \in Task, Fetching(t)
    PROVE  LET log == Fetched(t) IN
           /\ log \in Seq(Nat) /\ Len(log) <= 2
           /\ \A i \in 1..Len(log) : log[i] <= task[t].since
           /\ Len(log) = 2 => /\ log[1] <= log[2]
                              /\ provokedAt # None /\ log[2] <= provokedAt
<1> DEFINE since  == task[t].since
           old(i) == since - fetches[i] >= MinRefetchSeconds
           Cut(n) == /\ \A i \in 1..n : old(i)
                     /\ n < Len(fetches) => ~ old(n + 1)
           n      == CHOOSE n \in 0..Len(fetches) : Cut(n)
           kept   == SubSeq(fetches, n + 1, Len(fetches))
           log    == Append(kept, since)
<1>1. /\ since \in Nat /\ LogSpaced /\ BeginsSpaced(task[t].kid, since)
      /\ provokedAt # None => provokedAt \in Nat
  BY TaskFields DEF Spacing, Fetching, TypeOK
<1>2. /\ Len(fetches) \in 0..2
      /\ \A i \in 1..Len(fetches) : fetches[i] \in Nat /\ fetches[i] <= since
  <2> HIDE DEF since
  <2>1. fetches \in Seq(Nat) /\ Len(fetches) <= 2
    BY <1>1 DEF LogSpaced
  <2>2. Len(fetches) \in Nat
    BY <2>1, LenProperties
  <2>3. \A i \in 1..Len(fetches) : fetches[i] \in Nat
    BY <2>1, ElementOfSeq
  <2>4. \A i \in 1..Len(fetches) : fetches[i] <= since
    BY <1>1 DEF BeginsSpaced
  <2>5. \A len \in Nat : len <= 2 => len \in 0..2
    OBVIOUS
  <2> QED
    BY <2>1, <2>2, <2>3, <2>4, <2>5
<1>3. CASE task[t].kid = None
  BY <1>1, <1>2, <1>3 DEF Fetched, LogSpaced
<1>4. CASE task[t].kid # None
  <2>1. n \in 0..Len(fetches) /\ Cut(n)
    <3>1. \E m \in 0..Len(fetches) : Cut(m)
      <4>1. CASE Len(fetches) = 0
        BY <4>1
      <4>2. CASE Len(fetches) # 0 /\ ~ old(1)
        <5>1. Cut(0) /\ 0 \in 0..Len(fetches)
          BY <1>2, <4>2
        <5> QED
          BY <5>1
      <4>3. CASE Len(fetches) = 1 /\ old(1)
        <5>1. Cut(1) /\ 1 \in 0..Len(fetches)
          BY <4>3
        <5> QED
          BY <5>1
      <4>4. CASE Len(fetches) = 2 /\ old(1) /\ old(2)
        <5>1. Cut(2) /\ 2 \in 0..Len(fetches)
          BY <4>4
        <5> QED
          BY <5>1
      <4>5. CASE Len(fetches) = 2 /\ old(1) /\ ~ old(2)
        <5>1. Cut(1) /\ 1 \in 0..Len(fetches)
          BY <4>5
        <5> QED
          BY <5>1
      <4> QED
        BY <1>2, <4>1, <4>2, <4>3, <4>4, <4>5
    <3> QED
      BY <3>1
  <2> HIDE DEF n
  <2>2. /\ kept \in Seq(Nat) /\ Len(kept) = Len(fetches) - n
        /\ \A i \in 1..Len(kept) : kept[i] = fetches[n + i]
    <3>1. \A i \in (n + 1)..Len(fetches) : fetches[i] \in Nat
      BY <1>2, <2>1
    <3>2. /\ kept \in Seq(Nat)
          /\ Len(kept) = IF n + 1 <= Len(fetches) THEN Len(fetches) - (n + 1) + 1 ELSE 0
          /\ \A i \in 1..Len(fetches) - (n + 1) + 1 : kept[i] = fetches[n + 1 + i - 1]
      BY <1>2, <2>1, <3>1, SubSeqProperties
    <3> HIDE DEF kept
    <3>3. Len(kept) = Len(fetches) - n
      BY <1>2, <2>1, <3>2
    <3> QED
      BY <1>2, <2>1, <3>2, <3>3
  <2>3. \A i \in 1..Len(kept) : kept[i] \in Nat /\ kept[i] <= since
    BY <1>2, <2>1, <2>2
  <2>4. ASSUME \A j \in 1..Len(fetches) : old(j)
        PROVE  Len(kept) = 0
    <3>1. ~ (n < Len(fetches))
      BY <1>2, <2>1, <2>4
    <3> QED
      BY <1>2, <2>1, <2>2, <3>1
  <2>5. \/ Len(kept) = 0
        \/ Len(kept) = 1 /\ provokedAt # None /\ since <= provokedAt
    <3>1. CASE AllPast(since, 1)
      BY <2>4, <3>1 DEF AllPast
    <3>2. CASE AllPast(since, 2) /\ provokedAt # None /\ since <= provokedAt
      <4>1. CASE Len(fetches) = 2
        <5>1. fetches[1] <= fetches[2] /\ old(2) /\ old(1)
          BY <1>1, <1>2, <3>2, <4>1, TimeAssumption DEF AllPast, LogSpaced
        <5>2. \A j \in 1..Len(fetches) : old(j)
          BY <4>1, <5>1
        <5> QED
          BY <2>4, <5>2, <4>1
      <4>2. CASE Len(fetches) # 2
        BY <1>2, <2>1, <2>2, <3>2, <4>2
      <4> QED
        BY <4>1, <4>2
    <3> QED
      BY <1>1, <1>4, <3>1, <3>2 DEF BeginsSpaced
  <2> HIDE DEF kept
  <2>6. /\ log \in Seq(Nat) /\ Len(log) = Len(kept) + 1 /\ log[Len(kept) + 1] = since
        /\ \A i \in 1..Len(kept) : log[i] = kept[i]
    BY <1>1, <2>2, AppendProperties
  <2>7. Fetched(t) = log
    BY <1>4 DEF Fetched, kept, n
  <2> HIDE DEF log
  <2>8. /\ Len(log) <= 2
        /\ \A i \in 1..Len(log) : log[i] <= since
        /\ Len(log) = 2 => /\ log[1] <= log[2]
                           /\ provokedAt # None /\ log[2] <= provokedAt
    BY <1>1, <2>3, <2>5, <2>6
  <2> QED
    BY <2>6, <2>7, <2>8
<1> QED
  BY <1>3, <1>4

\* The holder's fetch ends, and what the client remembers is no older than it.
LEMMA EndSpaced ==
    ASSUME TypeOK, TypeOK', LockOrderly, Spacing, NEW t \in Task, Receive(t) \/ Fail(t)
    PROVE  Spacing'
<1> USE KidAssumption, TimeAssumption
<1>1. Fetching(t) /\ Holds(t) /\ fetches' = Fetched(t) /\ task' = [task EXCEPT ![t] = Idle]
  BY DEF LockOrderly, Fetching, Receive, Fail, Finish
<1>2. \A u \in Task : ~ Fetching(u)'
  BY <1>1 DEF LockOrderly, Holds, Fetching, Idle, TypeOK
<1>3. /\ task[t].since \in Nat /\ task[t].since <= now /\ now \in Nat
      /\ UNCHANGED <<now, provokedAt>>
  BY <1>1, TaskFields DEF Fetching, Receive, Fail, TypeOK
<1>4. ASSUME NEW at \in Nat, at <= task[t].since
      PROVE  Remembered(at)'
  <2>1. CASE Receive(t)
    <3>1. keys' # None /\ fetchedAt' = task[t].since
      BY <2>1, TaskFields DEF Receive, AgeOf, Kid
    <3> QED
      BY <1>4, <3>1 DEF Remembered
  <2>2. CASE Fail(t)
    <3>1. failedAt' # None /\ failedAt' = now
      BY <1>3, <2>2 DEF Fail
    <3> QED
      BY <1>3, <1>4, <3>1 DEF Remembered
  <2> QED
    BY <2>1, <2>2
<1>5. /\ fetches' \in Seq(Nat) /\ Len(fetches') <= 2
      /\ \A i \in 1..Len(fetches') : fetches'[i] <= task[t].since
      /\ Len(fetches') = 2 => /\ fetches'[1] <= fetches'[2]
                              /\ provokedAt # None /\ fetches'[2] <= provokedAt
  BY <1>1, FetchedSpaced
<1>6. \A i \in 1..Len(fetches') : fetches'[i] \in Nat
  BY <1>5, ElementOfSeq
<1>7. \A i \in 1..Len(fetches') : fetches'[i] <= now' /\ Remembered(fetches[i])'
  BY <1>3, <1>4, <1>5, <1>6
<1>8. LogSpaced'
  BY <1>3, <1>5, <1>7 DEF LogSpaced
<1> QED
  BY <1>2, <1>8 DEF Spacing

LEMMA NextSpaced ==
    ASSUME Unhurried, TypeOK, LockOrderly, Spacing, [Next]_vars
    PROVE  Spacing'
<1>0. TypeOK' /\ (now \in Nat /\ now' \in Nat)
  BY NextTypeOK DEF TypeOK
<1> DEFINE Keeps(u) == Fetching(u)' => /\ Fetching(u)
                                       /\ task'[u].kid = task[u].kid
                                       /\ task'[u].since = task[u].since
<1>1. ASSUME UNCHANGED <<client, fetches>>, now' >= now, \A u \in Task : Keeps(u)
      PROVE  Spacing'
  BY <1>0, <1>1, QuietlySpaced
<1> HIDE DEF Keeps
<1>2. ASSUME NEW t \in Task, NEW r, r.at \in {"idle", "waiting"}, Goes(t, r)
      PROVE  \A u \in Task : Keeps(u)
  BY <1>2 DEF Goes, Keeps, Fetching, TypeOK
<1>3. ASSUME UNCHANGED task
      PROVE  \A u \in Task : Keeps(u)
  BY <1>3 DEF Keeps, Fetching
<1>4. ASSUME NEW t \in Task, NEW k \in Kid, KeyFor(t, k)
      PROVE  Spacing'
  <2>1. UNCHANGED task \/ Goes(t, [at |-> "waiting", kid |-> k])
    BY <1>4 DEF KeyFor, Join, Goes
  <2>2. [at |-> "waiting", kid |-> k].at \in {"idle", "waiting"}
    OBVIOUS
  <2>3. \A u \in Task : Keeps(u)
    BY <1>2, <1>3, <2>1, <2>2
  <2> QED
    BY <1>0, <1>1, <1>4, <2>3 DEF KeyFor
<1>5. ASSUME NEW t \in Task, Healthy(t)
      PROVE  Spacing'
  <2>1. Goes(t, [at |-> "waiting", kid |-> None])
    BY <1>5 DEF Healthy, Join, Goes
  <2>2. [at |-> "waiting", kid |-> None].at \in {"idle", "waiting"}
    OBVIOUS
  <2>3. \A u \in Task : Keeps(u)
    BY <1>2, <2>1, <2>2
  <2> QED
    BY <1>0, <1>1, <1>5, <2>3 DEF Healthy
<1>6. ASSUME NEW t \in Task, EnterCached(t) \/ EnterSuppressed(t) \/ Cancel(t)
      PROVE  Spacing'
  <2>1. Goes(t, Idle) /\ Idle.at \in {"idle", "waiting"}
    BY <1>6 DEF EnterCached, EnterSuppressed, Cancel, Finish, Goes, Idle
  <2>2. \A u \in Task : Keeps(u)
    BY <1>2, <2>1
  <2> QED
    BY <1>0, <1>1, <1>6, <2>2 DEF EnterCached, EnterSuppressed, Cancel
<1>7. ASSUME NEW t \in Task, Serve(t)
      PROVE  Spacing'
  <2>1. \A u \in Task : Keeps(u)
    BY <1>7 DEF Serve, Keeps, Fetching, TypeOK
  <2> QED
    BY <1>0, <1>1, <1>7, <2>1 DEF Serve
<1>8. ASSUME NEW t \in Task, EnterRefresh(t)
      PROVE  Spacing'
  BY <1>0, <1>8, EnterSpaced
<1>9. ASSUME NEW t \in Task, Receive(t) \/ Fail(t)
      PROVE  Spacing'
  BY <1>0, <1>9, EndSpaced
<1>10. ASSUME (\E k \in Signing : Rotate(k)) \/ Tick \/ UNCHANGED vars
       PROVE  Spacing'
  <2>1. UNCHANGED <<task, client, fetches>> /\ now' >= now
    BY <1>0, <1>10 DEF Rotate, Tick, vars, client
  <2> QED
    BY <1>1, <1>3, <2>1
<1> QED
  BY <1>4, <1>5, <1>6, <1>7, <1>8, <1>9, <1>10 DEF Next

(***************************************************************************)
(* Whatever crowd of requests comes, key_for makes at most two fetches     *)
(* within the floor, the ones that were cancelled aside, provided the      *)
(* cache does not run out within the floor (60 seconds against an hour).   *)
(***************************************************************************)
THEOREM FetchesTheorem ==
    ASSUME Unhurried
    PROVE  Spec => []FetchesSpaced
<1>1. Init => Spacing
  BY EmptySeq DEF Init, Spacing, LogSpaced, Fetching, Idle
<1>2. TypeOK /\ LockOrderly /\ Spacing /\ [Next]_vars => Spacing'
  BY NextSpaced
<1>3. Spacing => FetchesSpaced
  BY DEF Spacing, LogSpaced, FetchesSpaced
<1> QED
  BY <1>1, <1>2, <1>3, TypeCorrect, OrderlyAlways, PTL DEF Spec
=============================================================================
