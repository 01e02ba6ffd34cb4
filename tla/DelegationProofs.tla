--------------------------- MODULE DelegationProofs ---------------------------
(***************************************************************************)
(* Proofs about module Delegation, for any services, any configuration and *)
(* any number of requests at once: what is stored is well formed and       *)
(* within the cap, no token exceeds what it was made from, and withdrawing *)
(* a grant or disabling the account takes hold within one token lifetime.  *)
(***************************************************************************)
EXTENDS Delegation, FiniteSetTheorems, TLAPS

-----------------------------------------------------------------------------
(* The states of a request *)

IdleState == [at: {"idle"}]
IssueState == [at: {"issue"}, aud: Service, over: BOOLEAN]
AddState == [at: {"add_grant"}, row: GrantRow, since: Nat]
RevokeState == [at: {"revoke"}, grant: GrantId]
LoadState ==
    [at: {"load_account"}, service: Service, aud: Service, ttl: Nat,
     grant: GrantId \cup {None}, root: GrantId \cup {None}, deadline: Nat, until: Nat,
     late: BOOLEAN]
RecordState == [at: {"record"}, token: Token]

\* What a request has reached says which fields its record has.
LEMMA StateByStep ==
    ASSUME NEW r \in TaskState
    PROVE  /\ r.at = "idle" => r \in IdleState
           /\ r.at = "issue" => r \in IssueState
           /\ r.at = "add_grant" => r \in AddState
           /\ r.at = "revoke" => r \in RevokeState
           /\ r.at = "load_account" => r \in LoadState
           /\ r.at = "record" => r \in RecordState
  BY DEF TaskState, IdleState, IssueState, AddState, RevokeState, LoadState, RecordState

\* Every such record is the state of a request.
LEMMA StepsAreStates ==
    /\ Idle \in IdleState /\ IdleState \subseteq TaskState
    /\ IssueState \subseteq TaskState
    /\ AddState \subseteq TaskState
    /\ RevokeState \subseteq TaskState
    /\ LoadState \subseteq TaskState
    /\ RecordState \subseteq TaskState
  BY DEF TaskState, Idle, IdleState, IssueState, AddState, RevokeState, LoadState, RecordState

-----------------------------------------------------------------------------
(* The inductive invariant of TypeOK.  The cap is on the grants live now,  *)
(* the count of add is of those live when the request came in: it bounds   *)
(* them because a request is never from the future.                        *)

LiveAt(when) == {g \in DOMAIN grants : Live(g, when)}

Working(at) == {t \in Task : task[t].at = at}

CountedBefore ==
    /\ IsFiniteSet(recorded)
    /\ \A t \in Working("add_grant") : task[t].since <= now

Typed == TypeOK /\ CountedBefore

Shape ==
    /\ allowed \in Configs
    /\ status \in {"active", "disabled"}
    /\ profile \in BOOLEAN
    /\ DOMAIN grants \subseteq recorded
    /\ grants \in [DOMAIN grants -> GrantRow]
    /\ ~ profile => DOMAIN grants = {}
    /\ recorded \in SUBSET GrantId
    /\ tokens \in SUBSET Token
    /\ ended \in [GrantId -> Nat \cup {None}]
    /\ disabled \in Nat \cup {None}
    /\ now \in Nat
    /\ task \in [Task -> TaskState]

LEMMA TypedSplit == Typed <=> Shape /\ Cardinality(LiveAt(now)) <= MaxGrants /\ CountedBefore
  BY DEF Typed, TypeOK, Shape, LiveAt

\* The cap outlives whatever leaves the table alone, and the passing of time.
LEMMA LiveOnlyLess ==
    ASSUME Shape, CountedBefore, NEW m \in Nat, NEW n \in Nat, m <= n
    PROVE  /\ IsFiniteSet(LiveAt(m)) /\ IsFiniteSet(LiveAt(n))
           /\ LiveAt(n) \subseteq LiveAt(m)
           /\ Cardinality(LiveAt(n)) <= Cardinality(LiveAt(m))
           /\ Cardinality(LiveAt(m)) \in Nat /\ Cardinality(LiveAt(n)) \in Nat
<1>1. IsFiniteSet(DOMAIN grants)
  BY FS_Subset DEF Shape, CountedBefore
<1>2. LiveAt(m) \subseteq DOMAIN grants /\ LiveAt(n) \subseteq DOMAIN grants
  BY DEF LiveAt
<1>3. \A g \in DOMAIN grants : grants[g].expires \in Nat
  BY DEF Shape, GrantRow
<1>4. LiveAt(n) \subseteq LiveAt(m)
  BY <1>3 DEF LiveAt, Live
<1>5. IsFiniteSet(LiveAt(m)) /\ IsFiniteSet(LiveAt(n))
  BY <1>1, <1>2, FS_Subset
<1> QED
  BY <1>4, <1>5, FS_Subset, FS_CardinalityType

LEMMA InitTyped == Init => Typed
<1> SUFFICES ASSUME Init PROVE Typed
  OBVIOUS
<1> USE DEF Init
<1>1. DOMAIN grants = {}
  OBVIOUS
<1>2. Shape
  BY <1>1, StepsAreStates DEF Shape
<1>3. LiveAt(now) = {}
  BY <1>1 DEF LiveAt
<1>4. Cardinality(LiveAt(now)) = 0 /\ MaxGrants \in Nat
  BY <1>3, FS_EmptySet, TtlAssumption, Zenon
<1>5. CountedBefore
  BY FS_EmptySet DEF CountedBefore, Working, Idle
<1> QED
  BY <1>2, <1>4, <1>5, TypedSplit

\* A step that only moves one request on.
LEMMA OneRequestMoves ==
    ASSUME Typed, NEW t \in Task, NEW r \in TaskState,
           task' = [task EXCEPT ![t] = r],
           r.at = "add_grant" => r.since <= now,
           UNCHANGED <<allowed, status, profile, table, disabled, now>>,
           tokens' \in SUBSET Token
    PROVE  Typed'
<1>1. Shape'
  BY TypedSplit DEF Shape, table
<1>2. LiveAt(now)' = LiveAt(now)
  BY DEF LiveAt, Live, table
<1>3. Cardinality(LiveAt(now))' <= MaxGrants
  BY <1>2, TypedSplit
<1>4. CountedBefore'
  BY TypedSplit DEF CountedBefore, Working, table, Shape
<1> QED
  BY <1>1, <1>3, <1>4 DEF Typed, TypeOK, Shape, LiveAt

\* The records the actions make are of the states they name.
LEMMA NumbersTyped ==
    /\ AccessTtl \in Nat /\ GrantTtl \in Nat /\ MaxGrants \in Nat
    /\ \A m, n \in Nat : Lesser(m, n) \in Nat /\ Lesser(m, n) <= m /\ Lesser(m, n) <= n
  BY TtlAssumption DEF Lesser

LEMMA StartTyped ==
    ASSUME Typed, NEW t \in Task, StartRequest(t)
    PROVE  Typed'
<1> USE NumbersTyped
<1>0. /\ now \in Nat /\ tokens \in SUBSET Token /\ grants \in [DOMAIN grants -> GrantRow]
      /\ task \in [Task -> TaskState]
  BY DEF Typed, TypeOK
<1>1. ASSUME NEW aud \in Visited, RequestServiceToken(t, aud)
      PROVE  Typed'
  <2> DEFINE r == [at |-> "issue", aud |-> aud, over |-> FALSE]
  <2>1. r \in IssueState /\ r.at # "add_grant"
    BY TtlAssumption DEF IssueState
  <2>2. r \in TaskState
    BY <2>1, StepsAreStates
  <2>3. task' = [task EXCEPT ![t] = r]
    BY <1>1 DEF RequestServiceToken, Start
  <2> HIDE DEF r
  <2> QED
    BY <1>0, <1>1, <2>1, <2>2, <2>3, OneRequestMoves DEF RequestServiceToken
<1>2. ASSUME NEW s \in Service, NEW auds \in Asked, NEW ttl \in Ttls, CreateGrant(t, s, auds, ttl)
      PROVE  Typed'
  <2> DEFINE row == NewGrant(s, auds, ttl)
             r == [at |-> "add_grant", row |-> row, since |-> now]
  <2>1. ttl \in Nat /\ auds \in SUBSET Service
    BY TtlAssumption
  <2>2. now + Lesser(ttl, GrantTtl) \in Nat
    BY <1>0, <2>1
  <2>3. row \in GrantRow
    BY <2>1, <2>2 DEF NewGrant, GrantRow
  <2> HIDE DEF row
  <2>4. r \in AddState /\ r.since = now
    BY <1>0, <2>3 DEF AddState
  <2>5. r \in TaskState
    BY <2>4, StepsAreStates
  <2>6. task' = [task EXCEPT ![t] = r]
    BY <1>2 DEF CreateGrant, Start, row
  <2>7. r.since <= now
    BY <1>0, <2>4
  <2> HIDE DEF r
  <2> QED
    BY <1>0, <1>2, <2>5, <2>6, <2>7, OneRequestMoves DEF CreateGrant
<1>3. ASSUME NEW g \in GrantId, AskToRevoke(t, g)
      PROVE  Typed'
  <2> DEFINE r == [at |-> "revoke", grant |-> g]
  <2>1. r \in RevokeState /\ r.at # "add_grant"
    BY DEF RevokeState
  <2>2. r \in TaskState
    BY <2>1, StepsAreStates
  <2>3. task' = [task EXCEPT ![t] = r]
    BY <1>3 DEF AskToRevoke, Start
  <2> HIDE DEF r
  <2> QED
    BY <1>0, <1>3, <2>1, <2>2, <2>3, OneRequestMoves DEF AskToRevoke
<1>4. ASSUME NEW s \in Service, NEW aud \in Service, NEW ttl \in Ttls,
             ExchangeToken(t, s, aud, ttl)
      PROVE  Typed'
  <2> PICK tok \in tokens :
         Start(t, Exchange(s, aud, ttl, None, tok.root, tok.exp, tok.until, tok.late))
    BY <1>4 DEF ExchangeToken
  <2> DEFINE r == Exchange(s, aud, ttl, None, tok.root, tok.exp, tok.until, tok.late)
  <2>1. tok \in Token /\ ttl \in Nat
    BY <1>0, TtlAssumption
  <2>2. r \in LoadState /\ r.at # "add_grant"
    BY <2>1 DEF LoadState, Exchange, Token
  <2>3. r \in TaskState
    BY <2>2, StepsAreStates
  <2>4. task' = [task EXCEPT ![t] = r]
    BY DEF Start
  <2> HIDE DEF r
  <2> QED
    BY <1>0, <1>4, <2>2, <2>3, <2>4, OneRequestMoves DEF ExchangeToken
<1>5. ASSUME NEW s \in Service, NEW aud \in Service, NEW ttl \in Ttls, NEW g \in GrantId,
             ExchangeGrant(t, s, aud, ttl, g)
      PROVE  Typed'
  <2> DEFINE r == Exchange(s, aud, ttl, g, g, grants[g].expires, grants[g].expires, FALSE)
  <2>1. grants[g].expires \in Nat /\ ttl \in Nat
    BY <1>0, <1>5, TtlAssumption DEF ExchangeGrant, GrantRow
  <2>2. r \in LoadState /\ r.at # "add_grant"
    BY <2>1 DEF LoadState, Exchange
  <2>3. r \in TaskState
    BY <2>2, StepsAreStates
  <2>4. task' = [task EXCEPT ![t] = r]
    BY <1>5 DEF ExchangeGrant, Start
  <2> HIDE DEF r
  <2> QED
    BY <1>0, <1>5, <2>2, <2>3, <2>4, OneRequestMoves DEF ExchangeGrant
<1> QED
  BY <1>1, <1>2, <1>3, <1>4, <1>5 DEF StartRequest

\* The token that Mint makes is one, and lives no longer than a token may.
LEMMA MintedToken ==
    ASSUME now \in Nat, allowed \in Configs, NEW r \in LoadState, Lifetime(r) > 0,
           NEW tok, tok = [aud |-> r.aud, exp |-> now + Lifetime(r),
                           permitted |-> r.aud \in allowed[r.service], until |-> r.until,
                           root |-> r.root, late |-> r.late, over |-> FALSE]
    PROVE  /\ tok \in Token
           /\ tok.exp <= now + AccessTtl /\ tok.exp <= r.deadline
           /\ tok.until = r.until /\ tok.root = r.root /\ tok.late = r.late /\ tok.over = FALSE
           /\ tok.permitted <=> r.aud \in allowed[r.service]
<1>1. r.ttl \in Nat /\ r.deadline \in Nat /\ AccessTtl \in Nat
  BY NumbersTyped DEF LoadState
<1>2. /\ Lifetime(r) \in Nat /\ Lifetime(r) <= AccessTtl /\ Lifetime(r) <= r.deadline - now
  BY <1>1 DEF Lifetime, Lesser
<1>3. now + Lifetime(r) \in Nat /\ now + Lifetime(r) <= now + AccessTtl
      /\ now + Lifetime(r) <= r.deadline
  BY <1>1, <1>2
<1> DEFINE e == now + Lifetime(r)
           p == r.aud \in allowed[r.service]
<1>4. p \in BOOLEAN
  OBVIOUS
<1>5. e \in Nat /\ e <= now + AccessTtl /\ e <= r.deadline
  BY <1>3
<1>6. tok = [aud |-> r.aud, exp |-> e, permitted |-> p, until |-> r.until,
             root |-> r.root, late |-> r.late, over |-> FALSE]
  OBVIOUS
<1> HIDE DEF e, p
<1>7. tok \in Token
  BY <1>4, <1>5, <1>6 DEF Token, LoadState
<1>8. /\ tok.permitted = p /\ tok.exp = e /\ tok.until = r.until /\ tok.root = r.root
      /\ tok.late = r.late /\ tok.over = FALSE
  BY <1>6
<1>9. tok.exp <= now + AccessTtl /\ tok.exp <= r.deadline
  BY <1>5, <1>8, Zenon
<1>10. tok.permitted <=> r.aud \in allowed[r.service]
  BY <1>8, Zenon DEF p
<1> QED
  BY <1>7, <1>8, <1>9, <1>10, Zenon

LEMMA ContinueTyped ==
    ASSUME Typed, NEW t \in Task, IssueServiceToken(t) \/ Mint(t) \/ Record(t) \/ Abandon(t)
    PROVE  Typed'
<1> USE NumbersTyped
<1>0. /\ now \in Nat /\ tokens \in SUBSET Token /\ task \in [Task -> TaskState]
      /\ allowed \in Configs /\ task[t] \in TaskState
  BY DEF Typed, TypeOK
<1>i. Idle \in TaskState /\ Idle.at # "add_grant"
  BY StepsAreStates DEF Idle
<1>1. CASE IssueServiceToken(t)
  <2> DEFINE r == task[t]
             tok == [aud |-> r.aud, exp |-> now + AccessTtl, permitted |-> TRUE,
                     until |-> now + AccessTtl, root |-> None, late |-> FALSE, over |-> r.over]
  <2>1. r \in IssueState
    BY <1>0, <1>1, StateByStep DEF IssueServiceToken, Continue
  <2>2. now + AccessTtl \in Nat
    BY <1>0
  <2>3. tok \in Token
    BY <2>1, <2>2 DEF Token, IssueState
  <2>4. tokens' = tokens \cup {tok}
    BY <1>1 DEF IssueServiceToken
  <2> HIDE DEF tok
  <2>5. tokens' \in SUBSET Token
    BY <1>0, <2>3, <2>4
  <2>6. task' = [task EXCEPT ![t] = Idle]
    BY <1>1 DEF IssueServiceToken, Continue
  <2> QED
    BY <1>1, <1>i, <2>5, <2>6, OneRequestMoves DEF IssueServiceToken
<1>2. CASE Mint(t)
  <2> DEFINE r == task[t]
             tok == [aud |-> r.aud, exp |-> now + Lifetime(r),
                     permitted |-> r.aud \in allowed[r.service], until |-> r.until,
                     root |-> r.root, late |-> r.late, over |-> FALSE]
  <2>1. r \in LoadState
    BY <1>0, <1>2, StateByStep DEF Mint
  <2>2. CASE MayAct /\ Lifetime(r) > 0
    <3>1. tok \in Token
      <4>1. now \in Nat /\ allowed \in Configs /\ Lifetime(r) > 0
        BY <1>0, <2>2
      <4>2. tok = [aud |-> r.aud, exp |-> now + Lifetime(r),
                   permitted |-> r.aud \in allowed[r.service], until |-> r.until,
                   root |-> r.root, late |-> r.late, over |-> FALSE]
        OBVIOUS
      <4> HIDE DEF r, tok
      <4> QED
        BY <2>1, <4>1, <4>2, MintedToken, Zenon
    <3>2. task' = [task EXCEPT ![t] = [at |-> "record", token |-> tok]]
      BY <1>2, <2>2 DEF Mint, Continue
    <3> HIDE DEF tok
    <3>3. [at |-> "record", token |-> tok] \in RecordState
      BY <3>1 DEF RecordState
    <3>4. [at |-> "record", token |-> tok].at # "add_grant"
      OBVIOUS
    <3> QED
      BY <1>0, <1>2, <3>2, <3>3, <3>4, StepsAreStates, OneRequestMoves DEF Mint
  <2>3. CASE ~ (MayAct /\ Lifetime(r) > 0)
    <3>1. task' = [task EXCEPT ![t] = Idle]
      BY <1>2, <2>3 DEF Mint, Continue
    <3> QED
      BY <1>0, <1>2, <1>i, <3>1, OneRequestMoves DEF Mint
  <2> QED
    BY <2>2, <2>3
<1>3. CASE Record(t)
  <2>1. task[t] \in RecordState
    BY <1>0, <1>3, StateByStep DEF Record, Continue
  <2>2. tokens' \in SUBSET Token
    BY <1>0, <1>3, <2>1 DEF Record, RecordState
  <2>3. task' = [task EXCEPT ![t] = Idle]
    BY <1>3 DEF Record, Continue
  <2> QED
    BY <1>3, <1>i, <2>2, <2>3, OneRequestMoves DEF Record
<1>4. CASE Abandon(t)
  BY <1>0, <1>4, <1>i, OneRequestMoves DEF Abandon
<1> QED
  BY <1>1, <1>2, <1>3, <1>4

\* The insert and the count are one transaction, so the cap holds.
LEMMA AddGrantTyped ==
    ASSUME Typed, NEW t \in Task, AddGrant(t)
    PROVE  Typed'
<1> DEFINE r == task[t]
<1>0. /\ Shape /\ CountedBefore /\ Cardinality(LiveAt(now)) <= MaxGrants
      /\ now \in Nat /\ task \in [Task -> TaskState]
      /\ tokens \in SUBSET Token /\ MaxGrants \in Nat
  BY TypedSplit, NumbersTyped DEF Shape
<1>1. r \in AddState /\ r.since \in Nat /\ r.row \in GrantRow
  BY <1>0, StateByStep DEF AddGrant, AddState
<1>2. r.since <= now
  BY <1>0, <1>1 DEF CountedBefore, Working, AddGrant
<1>3. task' = [task EXCEPT ![t] = Idle] /\ Idle \in TaskState /\ Idle.at # "add_grant"
  BY StepsAreStates DEF AddGrant, Continue, Idle
<1>4. CASE profile /\ HasRoom(r.since)
  <2> PICK g \in GrantId \ recorded :
        /\ grants' = [x \in DOMAIN grants \cup {g} |-> IF x = g THEN r.row ELSE grants[x]]
        /\ recorded' = recorded \cup {g}
    BY <1>4 DEF AddGrant
  <2>1. DOMAIN grants' = DOMAIN grants \cup {g}
    OBVIOUS
  <2>2. grants' \in [DOMAIN grants' -> GrantRow]
    BY <1>0, <1>1 DEF Shape
  <2>3. Shape'
    BY <1>0, <1>3, <1>4, <2>1, <2>2 DEF Shape, AddGrant
  <2>4. LiveAt(now)' \subseteq LiveAt(now) \cup {g}
    BY <2>1 DEF LiveAt, Live, AddGrant
  <2>5. /\ IsFiniteSet(LiveAt(now))
        /\ Cardinality(LiveAt(now)) \in Nat /\ Cardinality(LiveAt(r.since)) \in Nat
        /\ Cardinality(LiveAt(now)) <= Cardinality(LiveAt(r.since))
    BY <1>0, <1>1, <1>2, LiveOnlyLess
  <2>6. Cardinality(LiveAt(r.since)) < MaxGrants
    BY <1>4 DEF HasRoom, LiveAt
  <2>7. IsFiniteSet(LiveAt(now) \cup {g})
        /\ Cardinality(LiveAt(now) \cup {g}) <= Cardinality(LiveAt(now)) + 1
    <3> DEFINE L == LiveAt(now)
    <3>1. IsFiniteSet(L) /\ Cardinality(L) \in Nat
      BY <2>5
    <3> HIDE DEF L
    <3>2. IsFiniteSet(L \cup {g})
          /\ Cardinality(L \cup {g}) = IF g \in L THEN Cardinality(L) ELSE Cardinality(L) + 1
      BY <3>1, FS_AddElement, Zenon
    <3>3. Cardinality(L \cup {g}) <= Cardinality(L) + 1
      BY <3>1, <3>2
    <3> QED
      BY <3>2, <3>3 DEF L
  <2>8. Cardinality(LiveAt(now)') \in Nat
        /\ Cardinality(LiveAt(now)') <= Cardinality(LiveAt(now) \cup {g})
        /\ Cardinality(LiveAt(now) \cup {g}) \in Nat
    BY <2>4, <2>7, FS_Subset, FS_CardinalityType
  <2>9. Cardinality(LiveAt(now)') <= MaxGrants
    BY <1>0, <2>5, <2>6, <2>7, <2>8
  <2>10. CountedBefore'
    <3>1. IsFiniteSet(recorded')
      BY <1>0, FS_AddElement DEF CountedBefore
    <3> QED
      BY <1>0, <1>3, <3>1 DEF CountedBefore, Working, AddGrant
  <2> QED
    BY <2>3, <2>9, <2>10 DEF Typed, TypeOK, Shape, LiveAt
<1>5. CASE ~ (profile /\ HasRoom(r.since))
  BY <1>0, <1>3, <1>5, OneRequestMoves DEF AddGrant, table
<1> QED
  BY <1>4, <1>5

\* Requests that are told of something stay what they were.
LEMMA OvertakenTyped ==
    ASSUME task \in [Task -> TaskState], NEW gs, NEW t \in Task
    PROVE  /\ Overtaken(gs) \in [Task -> TaskState]
           /\ Overtaken(gs)[t].at = task[t].at
           /\ task[t].at # "load_account" => Overtaken(gs)[t] = task[t]
<1>1. ASSUME NEW u \in Task
      PROVE  /\ Overtaken(gs)[u] \in TaskState
             /\ Overtaken(gs)[u].at = task[u].at
             /\ task[u].at # "load_account" => Overtaken(gs)[u] = task[u]
  <2>1. CASE task[u].at = "load_account" /\ task[u].grant \in gs
    <3>1. task[u] \in LoadState
      BY <2>1, StateByStep
    <3>2. Overtaken(gs)[u] = [task[u] EXCEPT !.late = TRUE]
      BY <2>1 DEF Overtaken
    <3>3. [task[u] EXCEPT !.late = TRUE] \in LoadState
      BY <3>1 DEF LoadState
    <3> QED
      BY <2>1, <3>2, <3>3, StepsAreStates DEF LoadState
  <2>2. CASE ~ (task[u].at = "load_account" /\ task[u].grant \in gs)
    BY <2>2 DEF Overtaken
  <2> QED
    BY <2>1, <2>2
<1>2. Overtaken(gs) \in [Task -> TaskState]
  BY <1>1 DEF Overtaken
<1> QED
  BY <1>1, <1>2

LEMMA EndedTyped ==
    ASSUME now \in Nat, ended \in [GrantId -> Nat \cup {None}], NEW gs
    PROVE  Ended(gs) \in [GrantId -> Nat \cup {None}]
  BY DEF Ended

LEMMA RevokeTyped ==
    ASSUME Typed, NEW t \in Task, Revoke(t)
    PROVE  Typed'
<1> DEFINE r == task[t]
<1>0. /\ Shape /\ CountedBefore /\ Cardinality(LiveAt(now)) <= MaxGrants
      /\ now \in Nat /\ task \in [Task -> TaskState]
      /\ ended \in [GrantId -> Nat \cup {None}] /\ MaxGrants \in Nat
  BY TypedSplit, NumbersTyped DEF Shape
<1>1. r \in RevokeState /\ r.grant \in GrantId
  BY <1>0, StateByStep DEF Revoke, RevokeState
<1>2. task' = [Overtaken({r.grant}) EXCEPT ![t] = Idle]
  BY DEF Revoke
<1>3. task' \in [Task -> TaskState] /\ \A u \in Working("add_grant")' : task'[u] = task[u]
  <2>1. Idle \in TaskState /\ Idle.at # "add_grant"
    BY StepsAreStates DEF Idle
  <2>2. Overtaken({r.grant}) \in [Task -> TaskState]
    BY <1>0, OvertakenTyped
  <2>3. \A u \in Task : u # t => task'[u] = Overtaken({r.grant})[u]
    BY <1>2, <2>2
  <2>4. task'[t] = Idle
    BY <1>2, <2>2
  <2>5. ASSUME NEW u \in Working("add_grant")'
        PROVE  task'[u] = task[u]
    <3>1. u \in Task /\ u # t /\ Overtaken({r.grant})[u].at = "add_grant"
      BY <2>1, <2>3, <2>4 DEF Working
    <3> QED
      BY <1>0, <2>3, <3>1, OvertakenTyped
  <2> QED
    BY <1>2, <2>1, <2>2, <2>5
<1>4. DOMAIN grants' = DOMAIN grants /\ grants' \in [DOMAIN grants -> GrantRow]
  BY <1>0, <1>1 DEF Revoke, Shape, GrantRow
<1>5. ended' \in [GrantId -> Nat \cup {None}]
  BY <1>0, EndedTyped DEF Revoke
<1>6. Shape'
  BY <1>0, <1>3, <1>4, <1>5 DEF Shape, Revoke
<1>7. LiveAt(now)' \subseteq LiveAt(now)
  <2>1. ASSUME NEW g \in LiveAt(now)'
        PROVE  g \in LiveAt(now)
    <3>1. g \in DOMAIN grants /\ ~ grants'[g].revoked /\ grants'[g].expires > now
      BY <1>4 DEF LiveAt, Live, Revoke
    <3>2. grants'[g] = grants[g]
          \/ grants'[g] = [grants[g] EXCEPT !.revoked = TRUE]
      BY <3>1 DEF Revoke
    <3>3. [grants[g] EXCEPT !.revoked = TRUE].revoked
      BY <1>0, <3>1 DEF Shape, GrantRow
    <3> QED
      BY <3>1, <3>2, <3>3 DEF LiveAt, Live
  <2> QED
    BY <2>1
<1>8. Cardinality(LiveAt(now)') <= MaxGrants
  <2>1. IsFiniteSet(LiveAt(now)) /\ Cardinality(LiveAt(now)) \in Nat
    BY <1>0, LiveOnlyLess
  <2>2. Cardinality(LiveAt(now)') <= Cardinality(LiveAt(now)) /\ Cardinality(LiveAt(now)') \in Nat
    BY <1>7, <2>1, FS_Subset, FS_CardinalityType
  <2> QED
    BY <1>0, <2>1, <2>2
<1>9. CountedBefore'
  BY <1>0, <1>3 DEF CountedBefore, Working, Revoke
<1> QED
  BY <1>6, <1>8, <1>9 DEF Typed, TypeOK, Shape, LiveAt

\* What happens to the account and to the process.
LEMMA WorldTyped ==
    ASSUME Typed, Disable \/ Enable \/ DeleteProfile \/ CreateProfile \/ Restart \/ Tick
    PROVE  Typed'
<1>0. /\ Shape /\ CountedBefore /\ Cardinality(LiveAt(now)) <= MaxGrants
      /\ now \in Nat /\ task \in [Task -> TaskState]
      /\ ended \in [GrantId -> Nat \cup {None}] /\ MaxGrants \in Nat
  BY TypedSplit, NumbersTyped DEF Shape
<1>1. ASSUME UNCHANGED <<grants, now>>
      PROVE  Cardinality(LiveAt(now)') <= MaxGrants
  <2>1. LiveAt(now)' = LiveAt(now)
    BY <1>1 DEF LiveAt, Live
  <2> QED
    BY <1>0, <2>1
<1>2. CASE Disable
  <2>1. ASSUME NEW u \in Task
        PROVE  /\ Outlived[u] \in TaskState
               /\ Outlived[u].at = "add_grant" => Outlived[u] = task[u]
    <3>1. CASE task[u].at = "issue"
      <4>1. task[u] \in IssueState
        BY <1>0, <3>1, StateByStep
      <4>2. [task[u] EXCEPT !.over = TRUE] \in IssueState
        BY <4>1 DEF IssueState
      <4> QED
        BY <3>1, <4>2, StepsAreStates DEF Outlived, IssueState
    <3>2. CASE task[u].at # "issue"
      BY <1>0, <3>2 DEF Outlived
    <3> QED
      BY <3>1, <3>2
  <2>2. task' \in [Task -> TaskState]
    BY <1>2, <2>1 DEF Disable, Outlived
  <2>3. Shape'
    BY <1>0, <1>2, <2>2 DEF Shape, Disable, table
  <2>4. CountedBefore'
    BY <1>0, <1>2, <2>1 DEF CountedBefore, Working, Disable, table
  <2> QED
    BY <1>1, <1>2, <2>3, <2>4 DEF Typed, TypeOK, Shape, LiveAt, Disable, table
<1>3. CASE Enable
  <2>1. Shape' /\ CountedBefore'
    BY <1>0, <1>3 DEF Shape, CountedBefore, Working, Enable, table
  <2> QED
    BY <1>1, <1>3, <2>1 DEF Typed, TypeOK, Shape, LiveAt, Enable, table
<1>4. CASE DeleteProfile
  <2>1. DOMAIN grants' = {} /\ grants' \in [DOMAIN grants' -> GrantRow]
    BY <1>4 DEF DeleteProfile
  <2>2. task' = Overtaken(DOMAIN grants) /\ ended' = Ended(DOMAIN grants)
    BY <1>4 DEF DeleteProfile
  <2>3. task' \in [Task -> TaskState]
    BY <1>0, <2>2, OvertakenTyped DEF Overtaken
  <2>4. \A u \in Working("add_grant")' : task'[u] = task[u]
    BY <1>0, <2>2, OvertakenTyped DEF Working
  <2>5. Shape'
    BY <1>0, <1>4, <2>1, <2>2, <2>3, EndedTyped DEF Shape, DeleteProfile
  <2>6. CountedBefore'
    BY <1>0, <1>4, <2>4 DEF CountedBefore, Working, DeleteProfile
  <2>7. LiveAt(now)' = {}
    BY <2>1 DEF LiveAt
  <2>8. Cardinality(LiveAt(now)') = 0
    BY <2>7, FS_EmptySet, Zenon
  <2>9. Cardinality(LiveAt(now)') <= MaxGrants
    BY <1>0, <2>8
  <2> QED
    BY <2>5, <2>6, <2>9 DEF Typed, TypeOK, Shape, LiveAt
<1>5. CASE CreateProfile
  <2>1. Shape' /\ CountedBefore'
    BY <1>0, <1>5 DEF Shape, CountedBefore, Working, CreateProfile, table
  <2> QED
    BY <1>1, <1>5, <2>1 DEF Typed, TypeOK, Shape, LiveAt, CreateProfile, table
<1>6. CASE Restart
  <2>1. task' \in [Task -> TaskState] /\ \A u \in Task : task'[u].at # "add_grant"
    BY <1>6, StepsAreStates DEF Restart, Idle
  <2>2. Shape' /\ CountedBefore'
    BY <1>0, <1>6, <2>1 DEF Shape, CountedBefore, Working, Restart, table
  <2> QED
    BY <1>1, <1>6, <2>2 DEF Typed, TypeOK, Shape, LiveAt, Restart, table
<1>7. CASE Tick
  <2>1. now' \in Nat /\ now <= now' /\ UNCHANGED grants
    BY <1>0, <1>7 DEF Tick, table
  <2>2. tokens' \in SUBSET Token
    BY <1>0, <1>7 DEF Tick, Shape
  <2>3. Shape'
    BY <1>0, <1>7, <2>1, <2>2 DEF Shape, Tick, table
  <2>4. CountedBefore'
    <3>1. ASSUME NEW u \in Working("add_grant")
          PROVE  task[u].since <= now'
      <4>1. u \in Task /\ task[u].at = "add_grant" /\ task[u].since <= now
        BY <1>0 DEF CountedBefore, Working
      <4>2. task[u] \in AddState
        BY <1>0, <4>1, StateByStep
      <4>3. task[u].since \in Nat
        BY <4>2 DEF AddState
      <4> QED
        BY <1>0, <2>1, <4>1, <4>3
    <3> QED
      BY <1>0, <1>7, <3>1 DEF CountedBefore, Working, Tick, table
  <2>5. LiveAt(now)' = LiveAt(now')
    BY <2>1 DEF LiveAt, Live
  <2>6. Cardinality(LiveAt(now')) <= Cardinality(LiveAt(now))
        /\ Cardinality(LiveAt(now)) \in Nat /\ Cardinality(LiveAt(now')) \in Nat
    BY <1>0, <2>1, LiveOnlyLess
  <2>7. Cardinality(LiveAt(now)') <= MaxGrants
    BY <1>0, <2>5, <2>6
  <2> QED
    BY <2>3, <2>4, <2>7 DEF Typed, TypeOK, Shape, LiveAt
<1> QED
  BY <1>2, <1>3, <1>4, <1>5, <1>6, <1>7

LEMMA NextTyped == Typed /\ [Next]_vars => Typed'
<1> SUFFICES ASSUME Typed, [Next]_vars PROVE Typed'
  OBVIOUS
<1>1. CASE UNCHANGED vars
  BY <1>1 DEF Typed, TypeOK, CountedBefore, Working, Live, vars
<1>2. ASSUME NEW t \in Task, StartRequest(t) \/ ContinueRequest(t) \/ Abandon(t)
      PROVE  Typed'
  BY <1>2, StartTyped, ContinueTyped, AddGrantTyped, RevokeTyped DEF ContinueRequest
<1> QED
  BY <1>1, <1>2, WorldTyped DEF Next

(***************************************************************************)
(* TypeOK, for every configuration and any number of requests: what is     *)
(* stored, signed and in flight is well formed, grants go with their       *)
(* profile, and however many are recorded at once no more are live than    *)
(* max_offline_grants_per_profile (SqlDelegationStore.add).                *)
(***************************************************************************)
THEOREM DelegationTypeCorrect == Spec => []TypeOK
<1>1. Typed => TypeOK
  BY DEF Typed
<1> QED
  BY <1>1, InitTyped, NextTyped, PTL DEF Spec

-----------------------------------------------------------------------------
(* The inductive invariant of NoTokenExceedsItsSource: an exchange carries *)
(* the end of its source with it, and the configuration that let it start  *)
(* is still there when it mints, since a new one comes with a new process. *)

Sourced(tok) == tok.exp <= tok.until /\ tok.permitted

RequestSourced(r) ==
    /\ r.at = "load_account" => r.deadline <= r.until /\ r.aud \in allowed[r.service]
    /\ r.at = "record" => Sourced(r.token)

WithinSource ==
    /\ \A tok \in tokens : Sourced(tok)
    /\ \A t \in Task : RequestSourced(task[t])

LEMMA OneRequestSourced ==
    ASSUME Typed, WithinSource, NEW t \in Task, NEW r, RequestSourced(r),
           task' = [task EXCEPT ![t] = r], UNCHANGED allowed,
           \A tok \in tokens' : Sourced(tok)
    PROVE  WithinSource'
<1>1. task \in [Task -> TaskState]
  BY DEF Typed, TypeOK
<1>2. ASSUME NEW u \in Task
      PROVE  RequestSourced(task[u])'
  <2>1. task'[u] = IF u = t THEN r ELSE task[u]
    BY <1>1
  <2>2. RequestSourced(task'[u])
    BY <2>1 DEF WithinSource
  <2> QED
    BY <2>2 DEF RequestSourced, Sourced
<1> QED
  BY <1>2 DEF WithinSource, Sourced

\* What is told to a request changes neither what it made nor from what.
LEMMA OvertakenKeeps ==
    ASSUME task \in [Task -> TaskState], NEW gs, NEW t \in Task
    PROVE  /\ task[t].at # "load_account" => Overtaken(gs)[t] = task[t]
           /\ task[t].at = "load_account" =>
                 /\ Overtaken(gs)[t].at = "load_account"
                 /\ Overtaken(gs)[t].service = task[t].service
                 /\ Overtaken(gs)[t].aud = task[t].aud
                 /\ Overtaken(gs)[t].grant = task[t].grant
                 /\ Overtaken(gs)[t].root = task[t].root
                 /\ Overtaken(gs)[t].deadline = task[t].deadline
                 /\ Overtaken(gs)[t].until = task[t].until
                 /\ Overtaken(gs)[t].late = (task[t].late \/ task[t].grant \in gs)
<1>1. CASE task[t].at # "load_account"
  BY <1>1 DEF Overtaken
<1>2. CASE task[t].at = "load_account"
  <2>1. task[t] \in LoadState
    BY <1>2, StateByStep
  <2>2. CASE task[t].grant \in gs
    <3>1. Overtaken(gs)[t] = [task[t] EXCEPT !.late = TRUE]
      BY <1>2, <2>2 DEF Overtaken
    <3> QED
      BY <1>2, <2>1, <2>2, <3>1 DEF LoadState
  <2>3. CASE task[t].grant \notin gs
    <3>1. Overtaken(gs)[t] = task[t]
      BY <1>2, <2>3 DEF Overtaken
    <3>2. task[t].late \in BOOLEAN
      BY <2>1 DEF LoadState
    <3> QED
      BY <1>2, <2>3, <3>1, <3>2
  <2> QED
    BY <2>2, <2>3
<1> QED
  BY <1>1, <1>2

LEMMA OvertakenSourced ==
    ASSUME task \in [Task -> TaskState], NEW gs, NEW t \in Task, RequestSourced(task[t])
    PROVE  RequestSourced(Overtaken(gs)[t])
<1>1. CASE task[t].at = "load_account"
  BY <1>1, OvertakenKeeps DEF RequestSourced
<1>2. CASE task[t].at # "load_account"
  BY <1>2, OvertakenKeeps DEF RequestSourced
<1> QED
  BY <1>1, <1>2

LEMMA OutlivedKeeps ==
    ASSUME task \in [Task -> TaskState], NEW t \in Task
    PROVE  /\ task[t].at # "issue" => Outlived[t] = task[t]
           /\ task[t].at = "issue" => Outlived[t].at = "issue" /\ Outlived[t].over = TRUE
<1>1. CASE task[t].at # "issue"
  BY <1>1 DEF Outlived
<1>2. CASE task[t].at = "issue"
  <2>1. task[t] \in IssueState
    BY <1>2, StateByStep
  <2>2. Outlived[t] = [task[t] EXCEPT !.over = TRUE]
    BY <1>2 DEF Outlived
  <2> QED
    BY <1>2, <2>1, <2>2 DEF IssueState
<1> QED
  BY <1>1, <1>2

LEMMA InitSourced == Init => WithinSource
  BY DEF Init, WithinSource, RequestSourced, Idle

LEMMA StartSourced ==
    ASSUME Typed, WithinSource, NEW t \in Task, StartRequest(t)
    PROVE  WithinSource'
<1>0. /\ now \in Nat /\ tokens \in SUBSET Token /\ grants \in [DOMAIN grants -> GrantRow]
  BY DEF Typed, TypeOK
<1>s. \A tok \in tokens : Sourced(tok)
  BY DEF WithinSource
<1>1. ASSUME NEW aud \in Visited, RequestServiceToken(t, aud)
      PROVE  WithinSource'
  <2> DEFINE r == [at |-> "issue", aud |-> aud, over |-> FALSE]
  <2>1. RequestSourced(r)
    BY DEF RequestSourced
  <2>2. task' = [task EXCEPT ![t] = r] /\ UNCHANGED <<allowed, tokens>>
    BY <1>1 DEF RequestServiceToken, Start
  <2> HIDE DEF r
  <2> QED
    BY <1>s, <2>1, <2>2, OneRequestSourced
<1>2. ASSUME NEW s \in Service, NEW auds \in Asked, NEW ttl \in Ttls, CreateGrant(t, s, auds, ttl)
      PROVE  WithinSource'
  <2> DEFINE r == [at |-> "add_grant", row |-> NewGrant(s, auds, ttl), since |-> now]
  <2>1. RequestSourced(r)
    BY DEF RequestSourced
  <2>2. task' = [task EXCEPT ![t] = r] /\ UNCHANGED <<allowed, tokens>>
    BY <1>2 DEF CreateGrant, Start
  <2> HIDE DEF r
  <2> QED
    BY <1>s, <2>1, <2>2, OneRequestSourced
<1>3. ASSUME NEW g \in GrantId, AskToRevoke(t, g)
      PROVE  WithinSource'
  <2> DEFINE r == [at |-> "revoke", grant |-> g]
  <2>1. RequestSourced(r)
    BY DEF RequestSourced
  <2>2. task' = [task EXCEPT ![t] = r] /\ UNCHANGED <<allowed, tokens>>
    BY <1>3 DEF AskToRevoke, Start
  <2> HIDE DEF r
  <2> QED
    BY <1>s, <2>1, <2>2, OneRequestSourced
<1>4. ASSUME NEW s \in Service, NEW aud \in Service, NEW ttl \in Ttls,
             ExchangeToken(t, s, aud, ttl)
      PROVE  WithinSource'
  <2> PICK tok \in tokens :
         /\ AllowedTo(s, {aud})
         /\ Start(t, Exchange(s, aud, ttl, None, tok.root, tok.exp, tok.until, tok.late))
    BY <1>4 DEF ExchangeToken
  <2> DEFINE r == Exchange(s, aud, ttl, None, tok.root, tok.exp, tok.until, tok.late)
  <2>1. r.at = "load_account" /\ r.deadline = tok.exp /\ r.until = tok.until
        /\ r.aud = aud /\ r.service = s
    BY DEF Exchange
  <2>2. task' = [task EXCEPT ![t] = r] /\ UNCHANGED <<allowed, tokens>>
    BY <1>4 DEF ExchangeToken, Start
  <2> HIDE DEF r
  <2>3. RequestSourced(r)
    BY <1>s, <2>1 DEF RequestSourced, Sourced, AllowedTo
  <2> QED
    BY <1>s, <2>2, <2>3, OneRequestSourced
<1>5. ASSUME NEW s \in Service, NEW aud \in Service, NEW ttl \in Ttls, NEW g \in GrantId,
             ExchangeGrant(t, s, aud, ttl, g)
      PROVE  WithinSource'
  <2> DEFINE r == Exchange(s, aud, ttl, g, g, grants[g].expires, grants[g].expires, FALSE)
  <2>1. r.at = "load_account" /\ r.deadline = grants[g].expires /\ r.until = grants[g].expires
        /\ r.aud = aud /\ r.service = s
    BY DEF Exchange
  <2>2. task' = [task EXCEPT ![t] = r] /\ UNCHANGED <<allowed, tokens>>
    BY <1>5 DEF ExchangeGrant, Start
  <2>3. grants[g].expires \in Nat
    BY <1>0, <1>5 DEF ExchangeGrant, GrantRow
  <2> HIDE DEF r
  <2>4. RequestSourced(r)
    BY <1>5, <2>1, <2>3 DEF RequestSourced, AllowedTo, ExchangeGrant
  <2> QED
    BY <1>s, <2>2, <2>4, OneRequestSourced
<1> QED
  BY <1>1, <1>2, <1>3, <1>4, <1>5 DEF StartRequest

LEMMA ContinueSourced ==
    ASSUME Typed, WithinSource, NEW t \in Task, ContinueRequest(t) \/ Abandon(t)
    PROVE  WithinSource'
<1>0. /\ now \in Nat /\ tokens \in SUBSET Token /\ task \in [Task -> TaskState]
      /\ allowed \in Configs /\ task[t] \in TaskState /\ AccessTtl \in Nat
  BY NumbersTyped DEF Typed, TypeOK
<1>i. RequestSourced(Idle)
  BY DEF RequestSourced, Idle
<1>s. (\A tok \in tokens : Sourced(tok)) /\ RequestSourced(task[t])
  BY DEF WithinSource
<1>1. CASE IssueServiceToken(t)
  <2> DEFINE r == task[t]
             tok == [aud |-> r.aud, exp |-> now + AccessTtl, permitted |-> TRUE,
                     until |-> now + AccessTtl, root |-> None, late |-> FALSE, over |-> r.over]
  <2>1. Sourced(tok)
    BY <1>0 DEF Sourced
  <2>2. tokens' = tokens \cup {tok} /\ task' = [task EXCEPT ![t] = Idle] /\ UNCHANGED allowed
    BY <1>1 DEF IssueServiceToken, Continue
  <2> HIDE DEF tok
  <2> QED
    BY <1>i, <1>s, <2>1, <2>2, OneRequestSourced
<1>2. CASE Mint(t)
  <2> DEFINE r == task[t]
             tok == [aud |-> r.aud, exp |-> now + Lifetime(r),
                     permitted |-> r.aud \in allowed[r.service], until |-> r.until,
                     root |-> r.root, late |-> r.late, over |-> FALSE]
  <2>1. r \in LoadState
    BY <1>0, <1>2, StateByStep DEF Mint
  <2>2. CASE MayAct /\ Lifetime(r) > 0
    <3>1. /\ tok \in Token /\ tok.exp <= r.deadline /\ tok.until = r.until
          /\ tok.permitted <=> r.aud \in allowed[r.service]
      <4>1. now \in Nat /\ allowed \in Configs /\ Lifetime(r) > 0
        BY <1>0, <2>2
      <4>2. tok = [aud |-> r.aud, exp |-> now + Lifetime(r),
                   permitted |-> r.aud \in allowed[r.service], until |-> r.until,
                   root |-> r.root, late |-> r.late, over |-> FALSE]
        OBVIOUS
      <4> HIDE DEF r, tok
      <4> QED
        BY <2>1, <4>1, <4>2, MintedToken, Zenon
    <3>2. task' = [task EXCEPT ![t] = [at |-> "record", token |-> tok]]
      BY <1>2, <2>2 DEF Mint, Continue
    <3> HIDE DEF tok
    <3>3. r.deadline <= r.until /\ r.aud \in allowed[r.service]
          /\ r.deadline \in Nat /\ r.until \in Nat
      BY <1>2, <1>s, <2>1 DEF Mint, RequestSourced, LoadState
    <3>4. tok.exp \in Nat
      BY <3>1 DEF Token
    <3>5. Sourced(tok)
      BY <3>1, <3>3, <3>4 DEF Sourced
    <3>6. RequestSourced([at |-> "record", token |-> tok])
      BY <3>5 DEF RequestSourced
    <3>7. UNCHANGED <<allowed, tokens>>
      BY <1>2 DEF Mint
    <3> QED
      BY <1>s, <3>2, <3>6, <3>7, OneRequestSourced
  <2>3. CASE ~ (MayAct /\ Lifetime(r) > 0)
    BY <1>2, <1>i, <1>s, <2>3, OneRequestSourced DEF Mint, Continue
  <2> QED
    BY <2>2, <2>3
<1>3. CASE Record(t)
  <2>1. Sourced(task[t].token)
    BY <1>3, <1>s DEF Record, Continue, RequestSourced
  <2>2. \A tok \in tokens' : Sourced(tok)
    BY <1>3, <1>s, <2>1 DEF Record
  <2> QED
    BY <1>3, <1>i, <2>2, OneRequestSourced DEF Record, Continue
<1>4. CASE AddGrant(t)
  BY <1>4, <1>i, <1>s, OneRequestSourced DEF AddGrant, Continue
<1>5. CASE Revoke(t)
  <2>1. task' = [Overtaken({task[t].grant}) EXCEPT ![t] = Idle] /\ UNCHANGED <<allowed, tokens>>
    BY <1>5 DEF Revoke
  <2>2. Overtaken({task[t].grant}) \in [Task -> TaskState]
    BY <1>0, OvertakenTyped
  <2>3. ASSUME NEW u \in Task
        PROVE  RequestSourced(task[u])'
    <3>1. task'[u] = IF u = t THEN Idle ELSE Overtaken({task[t].grant})[u]
      BY <2>1, <2>2
    <3>2. RequestSourced(Overtaken({task[t].grant})[u])
      BY <1>0, OvertakenSourced DEF WithinSource
    <3>3. RequestSourced(task'[u])
      BY <1>i, <3>1, <3>2
    <3> QED
      BY <2>1, <3>3 DEF RequestSourced, Sourced
  <2> QED
    BY <1>s, <2>1, <2>3 DEF WithinSource, Sourced
<1>6. CASE Abandon(t)
  BY <1>6, <1>i, <1>s, OneRequestSourced DEF Abandon
<1> QED
  BY <1>1, <1>2, <1>3, <1>4, <1>5, <1>6 DEF ContinueRequest

LEMMA WorldSourced ==
    ASSUME Typed, WithinSource,
           Disable \/ Enable \/ DeleteProfile \/ CreateProfile \/ Restart \/ Tick
    PROVE  WithinSource'
<1>0. task \in [Task -> TaskState]
  BY DEF Typed, TypeOK
<1>1. CASE Disable
  <2>1. ASSUME NEW u \in Task
        PROVE  RequestSourced(task[u])'
    <3>1. task'[u] = Outlived[u] /\ UNCHANGED allowed
      BY <1>1 DEF Disable
    <3>2. RequestSourced(Outlived[u])
      BY <1>0, OutlivedKeeps DEF WithinSource, RequestSourced
    <3> QED
      BY <3>1, <3>2 DEF RequestSourced, Sourced
  <2> QED
    BY <1>1, <2>1 DEF WithinSource, Sourced, Disable
<1>2. CASE Enable \/ CreateProfile
  BY <1>2 DEF WithinSource, RequestSourced, Sourced, Enable, CreateProfile
<1>3. CASE DeleteProfile
  <2>1. ASSUME NEW u \in Task
        PROVE  RequestSourced(task[u])'
    <3>1. task'[u] = Overtaken(DOMAIN grants)[u] /\ UNCHANGED allowed
      BY <1>3 DEF DeleteProfile
    <3>2. RequestSourced(Overtaken(DOMAIN grants)[u])
      BY <1>0, OvertakenSourced DEF WithinSource
    <3> QED
      BY <3>1, <3>2 DEF RequestSourced, Sourced
  <2> QED
    BY <1>3, <2>1 DEF WithinSource, Sourced, DeleteProfile
<1>4. CASE Restart
  BY <1>4 DEF WithinSource, RequestSourced, Sourced, Restart, Idle
<1>5. CASE Tick
  BY <1>5 DEF WithinSource, RequestSourced, Sourced, Tick
<1> QED
  BY <1>1, <1>2, <1>3, <1>4, <1>5

(***************************************************************************)
(* However often tokens are exchanged for others, none outlives the grant  *)
(* or the session token it goes back to, and none is for an audience the   *)
(* configuration it was exchanged under does not allow (exchange and       *)
(* _allow of delegation.py).                                               *)
(***************************************************************************)
THEOREM NoTokenExceedsTheorem == Spec => []NoTokenExceedsItsSource
<1>1. Typed /\ WithinSource /\ [Next]_vars => WithinSource'
  <2> SUFFICES ASSUME Typed, WithinSource, [Next]_vars PROVE WithinSource'
    OBVIOUS
  <2>1. CASE UNCHANGED vars
    BY <2>1 DEF WithinSource, RequestSourced, Sourced, vars
  <2>2. CASE Next
    BY <2>2, StartSourced, ContinueSourced, WorldSourced DEF Next
  <2> QED
    BY <2>1, <2>2
<1>2. WithinSource => NoTokenExceedsItsSource
  BY DEF WithinSource, NoTokenExceedsItsSource, Sourced
<1> QED
  BY <1>1, <1>2, InitTyped, NextTyped, InitSourced, PTL DEF Spec

-----------------------------------------------------------------------------
(* The inductive invariant of WithdrawalTakesHold.  A token never has more *)
(* than one lifetime left, so the withdrawal itself bounds what is out; it *)
(* is what is still being made that has to be followed: an exchange from a *)
(* grant is told (late), one from a token is bounded by that token, and a  *)
(* grant that is over is not usable again, whoever asks.                   *)

EndsWith(root, late, e) ==
    root # None /\ ended[root] # None => late \/ e <= ended[root] + AccessTtl

StopsWith(over, e) == disabled # None => over \/ e <= disabled + AccessTtl

Bounded(tok) ==
    /\ tok.exp <= now + AccessTtl
    /\ EndsWith(tok.root, tok.late, tok.exp)
    /\ StopsWith(tok.over, tok.exp)

RequestBounded(r) ==
    /\ r.at = "record" => Bounded(r.token)
    /\ r.at = "issue" => (disabled # None => r.over)
    /\ r.at = "load_account" =>
          /\ EndsWith(r.root, r.late, r.deadline)
          /\ r.grant = None => r.deadline <= now + AccessTtl
          /\ r.grant # None => r.grant = r.root

EndsKnown ==
    /\ disabled # None => status = "disabled"
    /\ \A g \in GrantId : ended[g] # None => g \in recorded
    /\ \A g \in DOMAIN grants : ~ grants[g].revoked => ended[g] = None

Withdrawals ==
    /\ EndsKnown
    /\ \A tok \in tokens : Bounded(tok)
    /\ \A t \in Task : RequestBounded(task[t])

LEMMA OneRequestBounded ==
    ASSUME Typed, Withdrawals, NEW t \in Task, NEW r, RequestBounded(r),
           task' = [task EXCEPT ![t] = r],
           UNCHANGED <<ended, disabled, now>>, EndsKnown',
           \A tok \in tokens' : Bounded(tok)
    PROVE  Withdrawals'
<1>1. task \in [Task -> TaskState]
  BY DEF Typed, TypeOK
<1>2. ASSUME NEW u \in Task
      PROVE  RequestBounded(task[u])'
  <2>1. task'[u] = IF u = t THEN r ELSE task[u]
    BY <1>1
  <2>2. RequestBounded(task'[u])
    BY <2>1 DEF Withdrawals
  <2> QED
    BY <2>2 DEF Bounded, RequestBounded, EndsWith, StopsWith
<1>3. \A tok \in tokens' : Bounded(tok)'
  BY DEF Bounded, EndsWith, StopsWith
<1> QED
  BY <1>2, <1>3 DEF Withdrawals

LEMMA InitBounded == Init => Withdrawals
  BY DEF Init, Withdrawals, EndsKnown, RequestBounded, Idle

LEMMA StartBounded ==
    ASSUME Typed, Withdrawals, NEW t \in Task, StartRequest(t)
    PROVE  Withdrawals'
<1>0. /\ now \in Nat /\ tokens \in SUBSET Token /\ grants \in [DOMAIN grants -> GrantRow]
  BY DEF Typed, TypeOK
<1>s. (\A tok \in tokens : Bounded(tok)) /\ EndsKnown
  BY DEF Withdrawals
<1>e. ASSUME UNCHANGED <<status, table, disabled>>
      PROVE  EndsKnown'
  BY <1>e, <1>s DEF EndsKnown, table
<1>1. ASSUME NEW aud \in Visited, RequestServiceToken(t, aud)
      PROVE  Withdrawals'
  <2> DEFINE r == [at |-> "issue", aud |-> aud, over |-> FALSE]
  <2>1. disabled = None
    BY <1>1, <1>s DEF EndsKnown, RequestServiceToken
  <2>2. RequestBounded(r)
    BY <2>1 DEF RequestBounded
  <2>3. task' = [task EXCEPT ![t] = r]
    BY <1>1 DEF RequestServiceToken, Start
  <2> HIDE DEF r
  <2> QED
    BY <1>1, <1>e, <1>s, <2>2, <2>3, OneRequestBounded DEF RequestServiceToken, table
<1>2. ASSUME NEW s \in Service, NEW auds \in Asked, NEW ttl \in Ttls, CreateGrant(t, s, auds, ttl)
      PROVE  Withdrawals'
  <2> DEFINE r == [at |-> "add_grant", row |-> NewGrant(s, auds, ttl), since |-> now]
  <2>1. RequestBounded(r)
    BY DEF RequestBounded
  <2>2. task' = [task EXCEPT ![t] = r]
    BY <1>2 DEF CreateGrant, Start
  <2> HIDE DEF r
  <2> QED
    BY <1>2, <1>e, <1>s, <2>1, <2>2, OneRequestBounded DEF CreateGrant, table
<1>3. ASSUME NEW g \in GrantId, AskToRevoke(t, g)
      PROVE  Withdrawals'
  <2> DEFINE r == [at |-> "revoke", grant |-> g]
  <2>1. RequestBounded(r)
    BY DEF RequestBounded
  <2>2. task' = [task EXCEPT ![t] = r]
    BY <1>3 DEF AskToRevoke, Start
  <2> HIDE DEF r
  <2> QED
    BY <1>3, <1>e, <1>s, <2>1, <2>2, OneRequestBounded DEF AskToRevoke, table
<1>4. ASSUME NEW s \in Service, NEW aud \in Service, NEW ttl \in Ttls,
             ExchangeToken(t, s, aud, ttl)
      PROVE  Withdrawals'
  <2> PICK tok \in tokens :
         Start(t, Exchange(s, aud, ttl, None, tok.root, tok.exp, tok.until, tok.late))
    BY <1>4 DEF ExchangeToken
  <2> DEFINE r == Exchange(s, aud, ttl, None, tok.root, tok.exp, tok.until, tok.late)
  <2>1. r.at = "load_account" /\ r.deadline = tok.exp /\ r.grant = None
        /\ r.root = tok.root /\ r.late = tok.late
    BY DEF Exchange
  <2>2. task' = [task EXCEPT ![t] = r]
    BY DEF Start
  <2> HIDE DEF r
  <2>3. Bounded(tok)
    BY <1>s
  <2>4. RequestBounded(r)
    BY <2>1, <2>3 DEF RequestBounded, Bounded
  <2> QED
    BY <1>4, <1>e, <1>s, <2>2, <2>4, OneRequestBounded DEF ExchangeToken, table
<1>5. ASSUME NEW s \in Service, NEW aud \in Service, NEW ttl \in Ttls, NEW g \in GrantId,
             ExchangeGrant(t, s, aud, ttl, g)
      PROVE  Withdrawals'
  <2> DEFINE r == Exchange(s, aud, ttl, g, g, grants[g].expires, grants[g].expires, FALSE)
  <2>1. r.at = "load_account" /\ r.root = g /\ r.grant = g
    BY DEF Exchange
  <2>2. task' = [task EXCEPT ![t] = r]
    BY <1>5 DEF ExchangeGrant, Start
  <2> HIDE DEF r
  <2>3. g # None /\ ended[g] = None
    BY <1>5, <1>s, NoneAssumption DEF ExchangeGrant, Usable, EndsKnown
  <2>4. RequestBounded(r)
    BY <2>1, <2>3 DEF RequestBounded, EndsWith
  <2> QED
    BY <1>5, <1>e, <1>s, <2>2, <2>4, OneRequestBounded DEF ExchangeGrant, table
<1> QED
  BY <1>1, <1>2, <1>3, <1>4, <1>5 DEF StartRequest

LEMMA ContinueBounded ==
    ASSUME Typed, Withdrawals, NEW t \in Task,
           IssueServiceToken(t) \/ AddGrant(t) \/ Mint(t) \/ Record(t) \/ Abandon(t)
    PROVE  Withdrawals'
<1>0. /\ now \in Nat /\ tokens \in SUBSET Token /\ task \in [Task -> TaskState]
      /\ allowed \in Configs /\ task[t] \in TaskState /\ AccessTtl \in Nat
      /\ ended \in [GrantId -> Nat \cup {None}]
  BY NumbersTyped DEF Typed, TypeOK
<1>i. RequestBounded(Idle)
  BY DEF RequestBounded, Idle
<1>s. (\A tok \in tokens : Bounded(tok)) /\ RequestBounded(task[t]) /\ EndsKnown
  BY DEF Withdrawals
<1>e. ASSUME UNCHANGED <<status, table, disabled>>
      PROVE  EndsKnown'
  BY <1>e, <1>s DEF EndsKnown, table
<1>1. CASE IssueServiceToken(t)
  <2> DEFINE r == task[t]
             tok == [aud |-> r.aud, exp |-> now + AccessTtl, permitted |-> TRUE,
                     until |-> now + AccessTtl, root |-> None, late |-> FALSE, over |-> r.over]
  <2>1. tok.exp = now + AccessTtl /\ tok.root = None /\ tok.over = r.over
    OBVIOUS
  <2>2. tokens' = tokens \cup {tok} /\ task' = [task EXCEPT ![t] = Idle]
    BY <1>1 DEF IssueServiceToken, Continue
  <2> HIDE DEF tok
  <2>3. disabled # None => r.over
    BY <1>1, <1>s DEF RequestBounded, IssueServiceToken, Continue
  <2>4. tok.exp <= now + AccessTtl
    BY <1>0, <2>1
  <2>5. Bounded(tok)
    BY <2>1, <2>3, <2>4, Zenon DEF Bounded, EndsWith, StopsWith
  <2> QED
    BY <1>1, <1>e, <1>i, <1>s, <2>2, <2>5, OneRequestBounded DEF IssueServiceToken, table
<1>2. CASE Mint(t)
  <2> DEFINE r == task[t]
             tok == [aud |-> r.aud, exp |-> now + Lifetime(r),
                     permitted |-> r.aud \in allowed[r.service], until |-> r.until,
                     root |-> r.root, late |-> r.late, over |-> FALSE]
  <2>1. r \in LoadState
    BY <1>0, <1>2, StateByStep DEF Mint
  <2>2. CASE MayAct /\ Lifetime(r) > 0
    <3>1. /\ tok \in Token /\ tok.exp <= r.deadline /\ tok.exp <= now + AccessTtl
          /\ tok.root = r.root /\ tok.late = r.late
      <4>1. now \in Nat /\ allowed \in Configs /\ Lifetime(r) > 0
        BY <1>0, <2>2
      <4>2. tok = [aud |-> r.aud, exp |-> now + Lifetime(r),
                   permitted |-> r.aud \in allowed[r.service], until |-> r.until,
                   root |-> r.root, late |-> r.late, over |-> FALSE]
        OBVIOUS
      <4> HIDE DEF r, tok
      <4> QED
        BY <2>1, <4>1, <4>2, MintedToken, Zenon
    <3>2. task' = [task EXCEPT ![t] = [at |-> "record", token |-> tok]]
      BY <1>2, <2>2 DEF Mint, Continue
    <3> HIDE DEF tok
    <3>3. disabled = None
      BY <1>s, <2>2 DEF MayAct, EndsKnown
    <3>4. EndsWith(r.root, r.late, r.deadline)
      BY <1>2, <1>s DEF Mint, RequestBounded
    <3>5. tok.exp \in Nat /\ r.deadline \in Nat /\ r.root \in GrantId \cup {None}
      BY <2>1, <3>1 DEF Token, LoadState
    <3>6. ASSUME r.root # None, ended[r.root] # None
          PROVE  tok.late \/ tok.exp <= ended[r.root] + AccessTtl
      <4>1. ended[r.root] \in Nat
        BY <1>0, <3>5, <3>6
      <4>2. r.late \/ r.deadline <= ended[r.root] + AccessTtl
        BY <3>4, <3>6 DEF EndsWith
      <4>3. CASE r.late
        BY <3>1, <4>3
      <4>4. CASE r.deadline <= ended[r.root] + AccessTtl
        BY <1>0, <3>1, <3>5, <4>1, <4>4
      <4> QED
        BY <4>2, <4>3, <4>4
    <3>7. Bounded(tok)
      BY <3>1, <3>3, <3>6, Zenon DEF Bounded, EndsWith, StopsWith
    <3>8. RequestBounded([at |-> "record", token |-> tok])
      BY <3>7 DEF RequestBounded
    <3> QED
      BY <1>2, <1>e, <1>s, <3>2, <3>8, OneRequestBounded DEF Mint, table
  <2>3. CASE ~ (MayAct /\ Lifetime(r) > 0)
    BY <1>2, <1>e, <1>i, <1>s, <2>3, OneRequestBounded DEF Mint, Continue, table
  <2> QED
    BY <2>2, <2>3
<1>3. CASE Record(t)
  <2>1. Bounded(task[t].token)
    BY <1>3, <1>s DEF Record, Continue, RequestBounded
  <2>2. \A tok \in tokens' : Bounded(tok)
    BY <1>3, <1>s, <2>1 DEF Record
  <2> QED
    BY <1>3, <1>e, <1>i, <2>2, OneRequestBounded DEF Record, Continue, table
<1>4. CASE AddGrant(t)
  <2>1. EndsKnown'
    <3>1. CASE UNCHANGED <<grants, recorded>>
      BY <1>4, <1>e, <3>1 DEF AddGrant, table
    <3>2. ASSUME NEW g \in GrantId \ recorded,
                 grants' = [x \in DOMAIN grants \cup {g} |->
                                IF x = g THEN task[t].row ELSE grants[x]],
                 recorded' = recorded \cup {g}
          PROVE  EndsKnown'
      <4>1. ended[g] = None
        BY <1>s DEF EndsKnown
      <4> QED
        BY <1>4, <1>s, <3>2, <4>1 DEF EndsKnown, AddGrant
    <3> QED
      BY <1>4, <3>1, <3>2 DEF AddGrant
  <2> QED
    BY <1>4, <1>i, <1>s, <2>1, OneRequestBounded DEF AddGrant, Continue
<1>5. CASE Abandon(t)
  BY <1>5, <1>e, <1>i, <1>s, OneRequestBounded DEF Abandon, table
<1> QED
  BY <1>1, <1>2, <1>3, <1>4, <1>5

\* A grant that ends now leaves every token one lifetime at most, and the
\* exchanges that have read it are told.
LEMMA EndingBounds ==
    ASSUME Typed, NEW gs, NEW hs \in SUBSET gs, ended' = Ended(hs), UNCHANGED <<disabled, now>>
    PROVE  /\ \A tok \in Token : Bounded(tok) => Bounded(tok)'
           /\ \A t \in Task : \A r : RequestBounded(task[t]) /\ r = Overtaken(gs)[t]
                                     => RequestBounded(r)'
<1>0. /\ now \in Nat /\ ended \in [GrantId -> Nat \cup {None}] /\ task \in [Task -> TaskState]
      /\ AccessTtl \in Nat
  BY NumbersTyped DEF Typed, TypeOK
<1>1. ASSUME NEW root \in GrantId, NEW late, NEW e \in Nat,
             EndsWith(root, late, e), e <= now + AccessTtl
      PROVE  EndsWith(root, late, e)'
  BY <1>0, <1>1 DEF EndsWith, Ended
<1>2. ASSUME NEW tok \in Token, Bounded(tok)
      PROVE  Bounded(tok)'
  <2>1. tok.exp \in Nat /\ tok.root \in GrantId \cup {None}
    BY DEF Token
  <2>2. EndsWith(tok.root, tok.late, tok.exp)'
    <3>1. CASE tok.root = None
      BY <3>1 DEF EndsWith
    <3>2. CASE tok.root \in GrantId
      BY <1>1, <1>2, <2>1, <3>2 DEF Bounded
    <3> QED
      BY <2>1, <3>1, <3>2
  <2> QED
    BY <1>2, <2>2 DEF Bounded, StopsWith
<1>3. ASSUME NEW t \in Task, NEW r, RequestBounded(task[t]), r = Overtaken(gs)[t]
      PROVE  RequestBounded(r)'
  <2>1. CASE task[t].at # "load_account"
    <3>1. r = task[t]
      BY <1>0, <1>3, <2>1, OvertakenKeeps
    <3>2. r.at = "record" => Bounded(r.token)'
      <4> SUFFICES ASSUME r.at = "record" PROVE Bounded(r.token)'
        OBVIOUS
      <4>1. r.token \in Token
        BY <1>0, <3>1, StateByStep DEF RecordState
      <4>2. Bounded(r.token)
        BY <1>3, <3>1 DEF RequestBounded
      <4> QED
        BY <1>2, <4>1, <4>2
    <3> QED
      BY <1>3, <2>1, <3>1, <3>2 DEF RequestBounded
  <2>2. CASE task[t].at = "load_account"
    <3>1. /\ r.at = "load_account" /\ r.root = task[t].root /\ r.grant = task[t].grant
          /\ r.deadline = task[t].deadline
          /\ r.late = (task[t].late \/ task[t].grant \in gs)
      BY <1>0, <1>3, <2>2, OvertakenKeeps
    <3>2. /\ task[t].deadline \in Nat /\ task[t].root \in GrantId \cup {None}
      BY <1>0, <2>2, StateByStep DEF LoadState
    <3>3. /\ EndsWith(r.root, task[t].late, r.deadline)
          /\ r.grant = None => r.deadline <= now + AccessTtl
          /\ r.grant # None => r.grant = r.root
      BY <1>3, <2>2, <3>1 DEF RequestBounded
    <3>4. EndsWith(r.root, r.late, r.deadline)'
      <4>1. CASE r.root = None
        BY <4>1 DEF EndsWith
      <4>2. CASE r.root # None /\ r.grant = None
        <5>1. EndsWith(r.root, task[t].late, r.deadline)
          BY <3>3
        <5>2. EndsWith(r.root, r.late, r.deadline)
          BY <3>1, <5>1, Zenon DEF EndsWith
        <5> QED
          BY <1>1, <3>1, <3>2, <3>3, <4>2, <5>2
      <4>3. CASE r.root # None /\ r.grant # None /\ r.root \in gs
        <5>1. r.late
          BY <3>1, <3>3, <4>3
        <5> QED
          BY <5>1 DEF EndsWith
      <4>4. CASE r.root # None /\ r.root \notin gs
        <5>1. ended'[r.root] = ended[r.root]
          BY <3>1, <3>2, <4>4 DEF Ended
        <5>2. EndsWith(r.root, r.late, r.deadline)
          BY <3>1, <3>3, Zenon DEF EndsWith
        <5> QED
          BY <5>1, <5>2 DEF EndsWith
      <4> QED
        BY <4>1, <4>2, <4>3, <4>4
    <3> QED
      BY <3>1, <3>3, <3>4 DEF RequestBounded
  <2> QED
    BY <2>1, <2>2
<1> QED
  BY <1>2, <1>3

LEMMA RevokeBounded ==
    ASSUME Typed, Withdrawals, NEW t \in Task, Revoke(t)
    PROVE  Withdrawals'
<1> DEFINE g == task[t].grant
           hs == IF g \in DOMAIN grants THEN {g} ELSE {}
<1>0. /\ task \in [Task -> TaskState] /\ tokens \in SUBSET Token
      /\ ended \in [GrantId -> Nat \cup {None}] /\ DOMAIN grants \subseteq recorded
      /\ grants \in [DOMAIN grants -> GrantRow] /\ now \in Nat
  BY DEF Typed, TypeOK
<1>1. g \in GrantId
  BY <1>0, StateByStep DEF Revoke, RevokeState
<1>2. ended' = Ended(hs) /\ hs \in SUBSET {g}
  BY <1>0 DEF Revoke, Ended
<1>3. /\ task' = [Overtaken({g}) EXCEPT ![t] = Idle]
      /\ UNCHANGED <<status, recorded, tokens, disabled, now>>
  BY DEF Revoke
<1>4. /\ \A tok \in Token : Bounded(tok) => Bounded(tok)'
      /\ \A u \in Task : \A r : RequestBounded(task[u]) /\ r = Overtaken({g})[u] => RequestBounded(r)'
  <2> HIDE DEF g, hs
  <2> QED
    BY <1>2, <1>3, EndingBounds
<1>5. ASSUME NEW u \in Task
      PROVE  RequestBounded(task[u])'
  <2>1. task'[u] = IF u = t THEN Idle ELSE Overtaken({g})[u]
    BY <1>0, <1>3, OvertakenTyped
  <2>2. CASE u = t
    BY <2>1, <2>2 DEF RequestBounded, Idle
  <2>3. CASE u # t
    BY <1>4, <2>1, <2>3 DEF Withdrawals
  <2> QED
    BY <2>2, <2>3
<1>6. EndsKnown'
  <2>1. EndsKnown
    BY DEF Withdrawals
  <2>2. CASE g \in DOMAIN grants
    <3>1. /\ grants' = [grants EXCEPT ![g].revoked = TRUE]
          /\ \A x \in GrantId : ended'[x] # None => ended[x] # None \/ x = g
          /\ \A x \in GrantId : x # g => ended'[x] = ended[x]
      BY <1>2, <2>2 DEF Revoke, Ended
    <3>2. grants'[g].revoked /\ DOMAIN grants' = DOMAIN grants
          /\ \A x \in DOMAIN grants : x # g => grants'[x] = grants[x]
      BY <1>0, <2>2, <3>1 DEF GrantRow
    <3>3. DOMAIN grants \subseteq GrantId
      BY <1>0 DEF Typed, TypeOK
    <3> HIDE DEF g
    <3> QED
      BY <1>0, <1>3, <2>1, <2>2, <3>1, <3>2, <3>3 DEF EndsKnown
  <2>3. CASE g \notin DOMAIN grants
    BY <1>3, <2>1, <2>3 DEF EndsKnown, Revoke
  <2> QED
    BY <2>2, <2>3
<1>7. \A tok \in tokens' : Bounded(tok)'
  BY <1>0, <1>3, <1>4 DEF Withdrawals
<1> QED
  BY <1>5, <1>6, <1>7 DEF Withdrawals

LEMMA WorldBounded ==
    ASSUME Typed, Withdrawals,
           Disable \/ Enable \/ DeleteProfile \/ CreateProfile \/ Restart \/ Tick
    PROVE  Withdrawals'
<1>0. /\ task \in [Task -> TaskState] /\ tokens \in SUBSET Token
      /\ ended \in [GrantId -> Nat \cup {None}] /\ DOMAIN grants \subseteq recorded
      /\ recorded \in SUBSET GrantId
      /\ now \in Nat /\ AccessTtl \in Nat
  BY NumbersTyped DEF Typed, TypeOK
<1>s. /\ \A tok \in tokens : Bounded(tok)
      /\ \A u \in Task : RequestBounded(task[u])
      /\ EndsKnown
  BY DEF Withdrawals
<1>1. CASE Disable
  <2>1. UNCHANGED <<ended, now, tokens, grants, recorded>> /\ disabled' = now
        /\ status' = "disabled" /\ task' = Outlived
    BY <1>1 DEF Disable, table
  <2>2. ASSUME NEW tok, Bounded(tok)
        PROVE  Bounded(tok)'
    BY <2>1, <2>2 DEF Bounded, EndsWith, StopsWith
  <2>3. ASSUME NEW u \in Task
        PROVE  RequestBounded(task[u])'
    <3>1. RequestBounded(task[u]) /\ task'[u] = Outlived[u]
      BY <1>s, <2>1
    <3>2. CASE task[u].at = "issue"
      <4>1. task'[u].at = "issue" /\ task'[u].over = TRUE
        BY <1>0, <3>1, <3>2, OutlivedKeeps
      <4> QED
        BY <4>1 DEF RequestBounded
    <3>3. CASE task[u].at # "issue"
      <4>1. task'[u] = task[u]
        BY <1>0, <3>1, <3>3, OutlivedKeeps
      <4>2. task[u].at = "record" => Bounded(task[u].token)'
        <5>1. task[u].at = "record" => Bounded(task[u].token)
          BY <3>1 DEF RequestBounded
        <5>2. \A tok : Bounded(tok) => Bounded(tok)'
          BY <2>2
        <5> QED
          BY <4>1, <5>1, <5>2 DEF Bounded, EndsWith, StopsWith
      <4> QED
        BY <2>1, <3>1, <3>3, <4>1, <4>2 DEF RequestBounded, EndsWith
    <3> QED
      BY <3>2, <3>3
  <2>4. EndsKnown'
    BY <1>s, <2>1 DEF EndsKnown
  <2> QED
    BY <1>s, <2>1, <2>2, <2>3, <2>4 DEF Withdrawals
<1>2. CASE Enable
  <2>1. UNCHANGED <<ended, now, tokens, grants, recorded, task>> /\ disabled' = None
    BY <1>2 DEF Enable, table
  <2> QED
    BY <1>s, <2>1 DEF Withdrawals, EndsKnown, RequestBounded, Bounded, EndsWith, StopsWith
<1>3. CASE DeleteProfile
  <2> DEFINE gs == DOMAIN grants
  <2>1. /\ ended' = Ended(gs) /\ task' = Overtaken(gs) /\ DOMAIN grants' = {}
        /\ UNCHANGED <<status, recorded, tokens, disabled, now>>
    BY <1>3 DEF DeleteProfile
  <2>2. /\ \A tok \in Token : Bounded(tok) => Bounded(tok)'
        /\ \A u \in Task : \A r : RequestBounded(task[u]) /\ r = Overtaken(gs)[u] => RequestBounded(r)'
    <3> HIDE DEF gs
    <3> QED
      BY <2>1, EndingBounds
  <2>3. \A u \in Task : RequestBounded(task[u])'
    BY <1>s, <2>1, <2>2
  <2>4. EndsKnown'
    BY <1>0, <1>s, <2>1 DEF EndsKnown, Ended
  <2> QED
    BY <1>0, <1>s, <2>1, <2>2, <2>3, <2>4 DEF Withdrawals
<1>4. CASE CreateProfile
  BY <1>4, <1>s DEF CreateProfile, table, Withdrawals, EndsKnown, RequestBounded, Bounded, EndsWith,
                   StopsWith
<1>5. CASE Restart
  <2>1. \A u \in Task : RequestBounded(task[u])'
    BY <1>5 DEF Restart, RequestBounded, Idle
  <2> QED
    BY <1>5, <1>s, <2>1 DEF Restart, table, Withdrawals, EndsKnown, Bounded, EndsWith, StopsWith
<1>6. CASE Tick
  <2>1. /\ now' = now + 1 /\ tokens' \subseteq tokens
        /\ UNCHANGED <<ended, disabled, status, grants, recorded, task>>
    BY <1>6 DEF Tick, table
  <2>2. ASSUME NEW tok \in Token, Bounded(tok)
        PROVE  Bounded(tok)'
    <3>1. tok.exp \in Nat /\ tok.exp <= now + AccessTtl
      BY <2>2 DEF Bounded, Token
    <3>2. tok.exp <= now' + AccessTtl
      BY <1>0, <2>1, <3>1
    <3> QED
      BY <2>1, <2>2, <3>2 DEF Bounded, EndsWith, StopsWith
  <2>3. ASSUME NEW u \in Task
        PROVE  RequestBounded(task[u])'
    <3>1. RequestBounded(task[u]) /\ task'[u] = task[u]
      BY <1>s, <2>1
    <3>2. task[u].at = "record" => Bounded(task[u].token)'
      <4>1. task[u].at = "record" => task[u].token \in Token /\ Bounded(task[u].token)
        BY <1>0, <3>1, StateByStep DEF RecordState, RequestBounded
      <4>2. \A tok \in Token : Bounded(tok) => Bounded(tok)'
        BY <2>2
      <4> QED
        BY <3>1, <4>1, <4>2 DEF Bounded, EndsWith, StopsWith
    <3>3. task[u].at = "load_account" /\ task[u].grant = None => task[u].deadline <= now' + AccessTtl
      <4> SUFFICES ASSUME task[u].at = "load_account", task[u].grant = None
                   PROVE  task[u].deadline <= now' + AccessTtl
        OBVIOUS
      <4>1. task[u].deadline \in Nat
        BY <1>0, StateByStep DEF LoadState
      <4>2. task[u].deadline <= now + AccessTtl
        BY <3>1 DEF RequestBounded
      <4> QED
        BY <1>0, <2>1, <4>1, <4>2
    <3> QED
      BY <2>1, <3>1, <3>2, <3>3 DEF RequestBounded, EndsWith
  <2>4. EndsKnown'
    BY <1>s, <2>1 DEF EndsKnown
  <2> QED
    BY <1>0, <1>s, <2>1, <2>2, <2>3, <2>4 DEF Withdrawals
<1> QED
  BY <1>1, <1>2, <1>3, <1>4, <1>5, <1>6

(***************************************************************************)
(* One token lifetime after a grant is revoked or deleted nothing that     *)
(* goes back to it works, through however many services it was exchanged,  *)
(* except what an exchange was making that had read the grant before; and  *)
(* the same of disabling the account (revoke, for_exchange and exchange of *)
(* delegation.py, issue_service_token of auth.py).                         *)
(***************************************************************************)
THEOREM WithdrawalTheorem == Spec => []WithdrawalTakesHold
<1>1. Typed /\ Withdrawals /\ [Next]_vars => Withdrawals'
  <2> SUFFICES ASSUME Typed, Withdrawals, [Next]_vars PROVE Withdrawals'
    OBVIOUS
  <2>1. CASE UNCHANGED vars
    BY <2>1 DEF Withdrawals, EndsKnown, RequestBounded, Bounded, EndsWith, StopsWith, vars
  <2>2. CASE Next
    BY <2>2, StartBounded, ContinueBounded, RevokeBounded, WorldBounded DEF Next, ContinueRequest
  <2> QED
    BY <2>1, <2>2
<1>2. Withdrawals => WithdrawalTakesHold
  BY DEF Withdrawals, WithdrawalTakesHold, Bounded, EndsWith, StopsWith
<1> QED
  BY <1>1, <1>2, InitTyped, NextTyped, InitBounded, PTL DEF Spec
=============================================================================
