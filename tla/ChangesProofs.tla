---------------------------- MODULE ChangesProofs ----------------------------
(***************************************************************************)
(* Proofs about modules Preferences and Changes, for any deployment, any   *)
(* choices and any answers of settings-api, and any number of requests:    *)
(* what a login is stamped with, who may change a credential, and that its *)
(* owner hears of it once.                                                 *)
(***************************************************************************)
EXTENDS Changes, FiniteSetTheorems, TLAPS

-----------------------------------------------------------------------------
(* Preferences: what keyring makes of an answer *)

LEMMA NarrowTtlBounds ==
    ASSUME NEW d \in Nat \ {0}, NEW days \in Number, NEW most \in Nat \ {0}
    PROVE  NarrowTtl(d, days, most) \in 1..d
<1>1. CASE ~ Given(days)
  BY <1>1 DEF NarrowTtl
<1>2. CASE Given(days)
  <2> DEFINE k == Greater(1, Lesser(days, most))
  <2>1. days \in Nat
    BY <1>2 DEF Given, Number
  <2>2. k \in Nat /\ k >= 1
    BY <2>1 DEF Greater, Lesser
  <2>3. Day \in Nat /\ Day >= 1
    BY CatalogueAssumption
  <2> HIDE DEF k
  <2>4. k * Day \in Nat /\ k * Day >= 1
    BY <2>2, <2>3
  <2>5. NarrowTtl(d, days, most) = Lesser(d, k * Day)
    BY <1>2 DEF NarrowTtl, k
  <2> QED
    BY <2>4, <2>5 DEF Lesser
<1> QED
  BY <1>1, <1>2

LEMMA NarrowCountBounds ==
    ASSUME NEW d \in Nat \ {0}, NEW n \in Number, NEW most \in Nat \ {0}
    PROVE  NarrowCount(d, n, most) \in 1..d
<1>1. CASE ~ Given(n)
  BY <1>1 DEF NarrowCount
<1>2. CASE Given(n)
  <2>1. n \in Nat
    BY <1>2 DEF Given, Number
  <2> QED
    BY <1>2, <2>1 DEF NarrowCount, Lesser, Greater
<1> QED
  BY <1>1, <1>2

\* A stamp that a session can live with and the deployment allows.
Usable(s) ==
    /\ s.idle \in 1 .. Idle
    /\ s.absolute \in s.idle .. Absolute
    /\ s.cap \in 1 .. Cap

\* _apply: whatever was chosen, the lifetimes and the cap are usable.
LEMMA ApplyUsable ==
    ASSUME NEW r \in Resolved
    PROVE  Usable(Stamp(Apply(r)))
<1> DEFINE i == NarrowTtl(Idle, r.idle, IdleDaysMax)
           a == NarrowTtl(Absolute, r.absolute, AbsoluteDaysMax)
           c == NarrowCount(Cap, r.sessions, SessionsMax)
<1>1. r.idle \in Number /\ r.absolute \in Number /\ r.sessions \in Number
  BY DEF Resolved
<1>2. i \in 1 .. Idle /\ a \in 1 .. Absolute /\ c \in 1 .. Cap
  BY <1>1, NarrowTtlBounds, NarrowCountBounds, DeploymentAssumption, CatalogueAssumption
<1>3. Stamp(Apply(r)) = [idle |-> i, absolute |-> Greater(i, a), cap |-> c]
  BY DEF Stamp, Apply
<1> HIDE DEF i, a, c
<1>4. Greater(i, a) \in i .. Absolute
  BY <1>2, DeploymentAssumption DEF Greater
<1> QED
  BY <1>2, <1>3, <1>4 DEF Usable

LEMMA DeploymentUsable == Usable(Stamp(Deployment))
  BY DeploymentAssumption DEF Usable, Stamp, Deployment

\* Every answer that is no refusal, the missing one included.
LEMMA ForAccountUsable ==
    ASSUME chosen \in Choices, NEW answer \in Answers, ~ Rejected(answer)
    PROVE  Usable(Stamp(ForAccount(answer)))
<1>1. CASE answer.outcome = "resolved"
  <2>1. answer.values \in Resolved
    <3>1. CASE answer = [outcome |-> "resolved", values |-> chosen]
      BY <3>1, ChoicesAssumption
    <3>2. ASSUME NEW c \in Choices,
                 answer = [outcome |-> "resolved", values |-> [c EXCEPT !.reauth = Refused]]
          PROVE  answer.values \in Resolved
      <4>1. c \in Resolved
        BY ChoicesAssumption
      <4> QED
        BY <3>2, <4>1 DEF Resolved
    <3>3. ASSUME NEW d \in Damaged, answer = [outcome |-> "resolved", values |-> d]
          PROVE  answer.values \in Resolved
      BY <3>3, ChoicesAssumption
    <3>4. CASE answer = [outcome |-> "unavailable"] \/ answer = [outcome |-> "rejected"]
      BY <1>1, <3>4
    <3> QED
      BY <3>1, <3>2, <3>3, <3>4 DEF Answers
  <2> QED
    BY <1>1, <2>1, ApplyUsable DEF ForAccount
<1>2. CASE answer.outcome # "resolved"
  <2>1. Stamp(ForAccount(answer)) = Stamp(Deployment)
    BY <1>2 DEF ForAccount, Stamp, Deployment
  <2> QED
    BY <2>1, DeploymentUsable
<1> QED
  BY <1>1, <1>2

\* _reauthentication: nothing but the switch being off, or no switch, is off.
LEMMA OffOnlyWhereItIsOff ==
    ASSUME NEW v \in Switched \cup {Refused}, Reauthentication(v) = FALSE
    PROVE  v \in {FALSE, Missing}
<1>1. CASE v = Missing
  BY <1>1
<1>2. CASE v # Missing /\ v \in {Garbage, Refused}
  <2>1. Reauthentication(v) = Unknown
    BY <1>2 DEF Reauthentication
  <2>2. Unknown \notin BOOLEAN
    BY DistinctAssumption
  <2> QED
    BY <2>1, <2>2
<1>3. CASE v # Missing /\ v \notin {Garbage, Refused}
  <2>1. Reauthentication(v) = v
    BY <1>3 DEF Reauthentication
  <2> QED
    BY <2>1
<1> QED
  BY <1>1, <1>2, <1>3

\* An answer on which a request is let through without a password is true.
LEMMA AllowedMeansOff ==
    ASSUME chosen \in Choices, NEW answer \in Answers, ~ Rejected(answer),
           Allowed(ForAccount(answer))
    PROVE  chosen.reauth # TRUE
<1>1. ForAccount(answer).reauth = FALSE
  BY DEF Allowed
<1>2. Unknown \notin BOOLEAN
  BY DistinctAssumption
<1>3. CASE answer = [outcome |-> "resolved", values |-> chosen]
  <2>1. chosen \in Resolved /\ chosen.reauth \in Switched \cup {Refused}
    BY ChoicesAssumption DEF Resolved
  <2>2. Reauthentication(chosen.reauth) = FALSE
    BY <1>1, <1>3 DEF ForAccount, Apply
  <2>3. chosen.reauth \in {FALSE, Missing}
    BY <2>1, <2>2, OffOnlyWhereItIsOff
  <2> QED
    BY <2>3, DistinctAssumption
<1>4. ASSUME NEW c \in Choices,
             answer = [outcome |-> "resolved", values |-> [c EXCEPT !.reauth = Refused]]
      PROVE  FALSE
  <2>1. c \in Resolved
    BY ChoicesAssumption
  <2>2. [c EXCEPT !.reauth = Refused].reauth = Refused
    BY <2>1 DEF Resolved
  <2>3. Reauthentication(Refused) = FALSE
    BY <1>1, <1>4, <2>2 DEF ForAccount, Apply
  <2>4. Refused \in {FALSE, Missing}
    BY <2>3, OffOnlyWhereItIsOff
  <2> QED
    BY <2>4, DistinctAssumption
<1>5. ASSUME NEW d \in Damaged, answer = [outcome |-> "resolved", values |-> d]
      PROVE  FALSE
  <2>1. d \in Resolved /\ d.reauth \in Switched \cup {Refused}
    BY ChoicesAssumption DEF Resolved
  <2>2. Reauthentication(d.reauth) = FALSE
    BY <1>1, <1>5 DEF ForAccount, Apply
  <2>3. d.reauth \in {FALSE, Missing}
    BY <2>1, <2>2, OffOnlyWhereItIsOff
  <2> QED
    BY <2>3, DamageAssumption
<1>6. CASE answer = [outcome |-> "unavailable"] \/ answer = [outcome |-> "rejected"]
  <2>1. ForAccount(answer).reauth = Unknown
    BY <1>6 DEF ForAccount, Deployment
  <2> QED
    BY <1>1, <1>2, <2>1
<1> QED
  BY <1>3, <1>4, <1>5, <1>6 DEF Answers

-----------------------------------------------------------------------------
(* What a request in flight may have come to *)

\* Where a request is still to be let through, or was not.
Asking == {"admit", "confirm", "record_failure", "read_settings"}

\* An administrator only removes; a provider calls back for a warranted consent.
Rightful(r) ==
    /\ r.who = "administrator" => r.does = "remove"
    /\ r.who = "provider" => r.does = "store" /\ r.warranted

\* Past _admit, and past the password where it was sent, there is a warrant.
LetThrough(r) ==
    /\ r.at \notin Asking => Warranted(r)
    /\ r.at = "read_settings" => r.who = "provider"
    /\ r.at = "confirm" => r.sent # "nothing"
    /\ r.at = "clear_failures" => r.proved
    /\ r.at = "issue_state" => r.does = "authorize"

\* The switch is not off now unless the request has lived through it.
Aware(r) == chosen.reauth # TRUE => r.off

Fit(r) == r \in RequestState /\ Rightful(r) /\ LetThrough(r) /\ Aware(r)

RequestsFit ==
    /\ task \in [Task -> {AtRest} \cup RequestState]
    /\ \A t \in Task : task[t] = AtRest \/ Fit(task[t])

LEMMA RestIsNoRequest ==
    ASSUME NEW r \in RequestState
    PROVE  r # AtRest /\ r.at # AtRest.at /\ AtRest.at = "idle" /\ r.at \in Step
  BY DEF RequestState, AtRest, Step

LEMMA AtAStep ==
    ASSUME RequestsFit, NEW t \in Task, task[t].at \in Step
    PROVE  Fit(task[t])
<1>1. task[t] # AtRest
  BY DEF AtRest, Step
<1> QED
  BY <1>1 DEF RequestsFit

\* What Then leaves alone.
LEMMA ThenFields ==
    ASSUME NEW r \in RequestState, NEW step \in Step
    PROVE  /\ Then(r, step) \in RequestState
           /\ Then(r, step).at = step
           /\ Then(r, step).does = r.does /\ Then(r, step).who = r.who
           /\ Then(r, step).sent = r.sent /\ Then(r, step).service = r.service
           /\ Then(r, step).announces = r.announces /\ Then(r, step).empty = r.empty
           /\ Then(r, step).off = r.off /\ Then(r, step).proved = r.proved
           /\ Then(r, step).warranted = r.warranted
  BY DEF Then, RequestState

\* A request that was let through may go on to any step of its change.
LEMMA MoveFit ==
    ASSUME NEW r, Fit(r), r.at \notin Asking,
           NEW step \in Step \ (Asking \cup {"issue_state", "clear_failures"})
    PROVE  Fit(Then(r, step))
<1>1. r \in RequestState /\ step \in Step
  BY DEF Fit
<1> QED
  BY <1>1, ThenFields
     DEF Fit, Rightful, LetThrough, Aware, Warranted, Warrant, Asking

LEMMA AdmittedFit ==
    ASSUME NEW r \in RequestState, Rightful(r), Aware(r), Warranted(r)
    PROVE  Fit(Admitted(r))
<1>1. /\ First[r.does] \in {"read_profile", "issue_state", "read_connection", "delete_profile"}
      /\ First[r.does] = "issue_state" => r.does = "authorize"
  BY DEF First, RequestState
<1>2. First[r.does] \in Step
  BY <1>1 DEF Step
<1> QED
  BY <1>1, <1>2, ThenFields
     DEF Admitted, Fit, Rightful, LetThrough, Aware, Warranted, Warrant, Asking

\* A request with one of its steps done.
LEMMA PutFit ==
    ASSUME RequestsFit, NEW t \in Task, NEW r, r = AtRest \/ Fit(r),
           task' = [task EXCEPT ![t] = r], chosen' = chosen
    PROVE  RequestsFit'
<1>1. task' \in [Task -> {AtRest} \cup RequestState]
  BY DEF RequestsFit, Fit
<1>2. \A u \in Task : task'[u] = AtRest \/ Fit(task'[u])
  BY DEF RequestsFit
<1>3. \A x : Fit(x) => /\ x \in RequestState /\ Rightful(x) /\ LetThrough(x)
                       /\ chosen'.reauth # TRUE => x.off
  BY DEF Fit, Aware
<1> QED
  BY <1>1, <1>2, <1>3 DEF RequestsFit, Fit, Aware, Rightful, LetThrough, Warranted, Warrant

\* A request as it begins.
LEMMA GoingFit ==
    ASSUME NEW r \in Requests, NEW s \in Service
    PROVE  Fit(Going("admit", r, s))
<1>1. /\ r.does \in {"store", "authorize", "revoke", "remove"}
      /\ r.who \in {"person", "service", "administrator"}
      /\ r.sent \in {"nothing", "right", "wrong"}
      /\ r.who = "administrator" => r.does = "remove"
  BY DEF Requests, PersonRequests, ServiceRequests, AdministratorRequests
<1>2. Going("admit", r, s) \in RequestState
  BY <1>1 DEF Going, RequestState, Step
<1> QED
  BY <1>1, <1>2 DEF Fit, Rightful, LetThrough, Aware, Going, Asking

LEMMA RemovalFit ==
    ASSUME NEW r \in Requests, NEW s \in Service, r.does = "remove"
    PROVE  Fit([Going("admit", r, s) EXCEPT !.at = "delete_profile", !.empty = TRUE])
<1> DEFINE g == Going("admit", r, s)
           h == [g EXCEPT !.at = "delete_profile", !.empty = TRUE]
<1>1. Fit(g) /\ g.does = "remove"
  BY GoingFit DEF Going
<1>2. "delete_profile" \in Step
  BY DEF Step
<1> HIDE DEF g
<1>3. /\ h \in RequestState /\ h.at = "delete_profile" /\ h.empty = TRUE
      /\ h.does = g.does /\ h.who = g.who /\ h.off = g.off /\ h.warranted = g.warranted
  BY <1>1, <1>2 DEF Fit, RequestState
<1> HIDE DEF h
<1>4. Fit(h)
  BY <1>1, <1>3 DEF Fit, Rightful, LetThrough, Aware, Warranted, Asking
<1> QED
  BY <1>4 DEF h, g

\* What a callback starts as.
Callback(s, w) ==
    [Going("read_settings", [does |-> "store", who |-> "provider", sent |-> "nothing"], s)
       EXCEPT !.warranted = w]

LEMMA CallbackFit ==
    ASSUME NEW s \in Service
    PROVE  Fit(Callback(s, TRUE))
<1> DEFINE h == Callback(s, TRUE)
<1>1. /\ h \in RequestState /\ h.at = "read_settings" /\ h.who = "provider"
      /\ h.does = "store" /\ h.warranted = TRUE /\ h.off = (chosen.reauth # TRUE)
  BY DEF Callback, Going, RequestState, Step
<1> HIDE DEF h
<1>2. Fit(h)
  BY <1>1 DEF Fit, Rightful, LetThrough, Aware, Asking
<1> QED
  BY <1>2 DEF h

FlowsWarranted ==
    /\ issued \in SUBSET State
    /\ DOMAIN flows \subseteq issued
    /\ flows \in [DOMAIN flows -> [service: Service, warranted: BOOLEAN]]
    /\ \A st \in DOMAIN flows : flows[st].warranted = TRUE

AccountKept == account \in SUBSET AccountRow

-----------------------------------------------------------------------------
(* Every step of a request leaves it fit *)

LEMMA RequestChangeFit ==
    ASSUME RequestsFit, NEW t \in Task, NEW r \in Requests, NEW s \in Service,
           RequestChange(t, r, s)
    PROVE  RequestsFit'
<1>1. task' = [task EXCEPT ![t] = Going("admit", r, s)] /\ chosen' = chosen
  BY DEF RequestChange, Start
<1> QED
  BY <1>1, GoingFit, PutFit

LEMMA RequestRemovalFit ==
    ASSUME RequestsFit, NEW t \in Task, NEW r \in Requests, RequestRemoval(t, r)
    PROVE  RequestsFit'
<1>1. PICK s \in Service :
         task' = [task EXCEPT ![t] =
                    IF HoldsNothing
                    THEN [Going("admit", r, s) EXCEPT !.at = "delete_profile", !.empty = TRUE]
                    ELSE Going("admit", r, s)]
  BY DEF RequestRemoval, Start
<1>2. r.does = "remove" /\ chosen' = chosen
  BY DEF RequestRemoval
<1>3. CASE HoldsNothing
  BY <1>1, <1>2, <1>3, RemovalFit, PutFit
<1>4. CASE ~ HoldsNothing
  BY <1>1, <1>2, <1>4, GoingFit, PutFit
<1> QED
  BY <1>3, <1>4

LEMMA RedeemStateFit ==
    ASSUME RequestsFit, FlowsWarranted, NEW t \in Task, NEW st \in State, RedeemState(t, st)
    PROVE  RequestsFit'
<1>1. st \in DOMAIN flows /\ chosen' = chosen
      /\ task' = [task EXCEPT ![t] = Callback(flows[st].service, flows[st].warranted)]
  BY DEF RedeemState, Start, Callback
<1>2. flows[st].service \in Service /\ flows[st].warranted = TRUE
  BY <1>1 DEF FlowsWarranted
<1> QED
  BY <1>1, <1>2, CallbackFit, PutFit

\* A request to which settings-api answered, with what it announces noted.
Noted(r, p) == [r EXCEPT !.announces = AnnouncesCredentialChanges(p)]

LEMMA NotedFields ==
    ASSUME NEW r \in RequestState, NEW p
    PROVE  /\ Noted(r, p) \in RequestState
           /\ Noted(r, p).at = r.at /\ Noted(r, p).does = r.does /\ Noted(r, p).who = r.who
           /\ Noted(r, p).sent = r.sent /\ Noted(r, p).empty = r.empty
           /\ Noted(r, p).off = r.off /\ Noted(r, p).proved = r.proved
           /\ Noted(r, p).warranted = r.warranted
<1>1. AnnouncesCredentialChanges(p) \in BOOLEAN
  BY DEF AnnouncesCredentialChanges
<1> QED
  BY <1>1 DEF Noted, RequestState

LEMMA AdmitFit ==
    ASSUME RequestsFit, chosen \in Choices, NEW t \in Task, Admit(t)
    PROVE  RequestsFit'
<1> DEFINE r == task[t]
<1>1. PICK answer \in Answers :
         IF Rejected(answer) THEN Continue(t, "admit", AtRest)
         ELSE Continue(t, "admit",
                  IF r.who = "administrator" THEN Admitted(Noted(r, ForAccount(answer)))
                  ELSE IF r.sent # "nothing" THEN Then(Noted(r, ForAccount(answer)), "confirm")
                  ELSE IF Allowed(ForAccount(answer))
                  THEN Admitted(Noted(r, ForAccount(answer))) ELSE AtRest)
  BY DEF Admit, Noted
<1>2. chosen' = chosen
  BY DEF Admit
<1>3. r.at = "admit"
  BY <1>1 DEF Continue
<1>4. Fit(r)
  BY <1>3, AtAStep DEF Step
<1> DEFINE p == ForAccount(answer)
           g == Noted(r, p)
<1>5. /\ g \in RequestState /\ Rightful(g) /\ Aware(g) /\ g.at = "admit"
      /\ g.who = r.who /\ g.does = r.does /\ g.sent = r.sent /\ g.off = r.off
  BY <1>3, <1>4, NotedFields DEF Fit, Rightful, Aware
<1> HIDE DEF r, g, p
<1>6. CASE Rejected(answer)
  <2>1. task' = [task EXCEPT ![t] = AtRest]
    BY <1>1, <1>6 DEF Continue
  <2> QED
    BY <1>2, <2>1, PutFit
<1>7. CASE ~ Rejected(answer) /\ r.who = "administrator"
  <2>1. task' = [task EXCEPT ![t] = Admitted(g)]
    BY <1>1, <1>7 DEF Continue, g, p
  <2>2. Fit(Admitted(g))
    BY <1>5, <1>7, AdmittedFit DEF Warranted
  <2> QED
    BY <1>2, <2>1, <2>2, PutFit
<1>8. CASE ~ Rejected(answer) /\ r.who # "administrator" /\ r.sent # "nothing"
  <2>1. task' = [task EXCEPT ![t] = Then(g, "confirm")]
    BY <1>1, <1>8 DEF Continue, g, p
  <2>2. "confirm" \in Step
    BY DEF Step
  <2>3. Fit(Then(g, "confirm"))
    <3> DEFINE h == Then(g, "confirm")
    <3>1. /\ h \in RequestState /\ h.at = "confirm" /\ h.sent # "nothing"
          /\ h.who = g.who /\ h.does = g.does /\ h.warranted = g.warranted /\ h.off = g.off
      BY <1>5, <1>8, <2>2, ThenFields
    <3> HIDE DEF h
    <3>2. Fit(h)
      BY <1>5, <3>1 DEF Fit, Rightful, LetThrough, Aware, Asking
    <3> QED
      BY <3>2 DEF h
  <2> QED
    BY <1>2, <2>1, <2>3, PutFit
<1>9. CASE ~ Rejected(answer) /\ r.who # "administrator" /\ r.sent = "nothing" /\ Allowed(p)
  <2>1. task' = [task EXCEPT ![t] = Admitted(g)]
    BY <1>1, <1>9 DEF Continue, g, p
  <2>2. chosen.reauth # TRUE
    BY <1>9, AllowedMeansOff DEF p
  <2>3. g.off
    BY <1>5, <2>2 DEF Aware
  <2>4. Fit(Admitted(g))
    BY <1>5, <2>3, AdmittedFit DEF Warranted, Warrant
  <2> QED
    BY <1>2, <2>1, <2>4, PutFit
<1>10. CASE ~ Rejected(answer) /\ r.who # "administrator" /\ r.sent = "nothing" /\ ~ Allowed(p)
  <2>1. task' = [task EXCEPT ![t] = AtRest]
    BY <1>1, <1>10 DEF Continue, g, p
  <2> QED
    BY <1>2, <2>1, PutFit
<1> QED
  BY <1>6, <1>7, <1>8, <1>9, <1>10

\* The rows that confirm_password writes back are rows of the table.
LEMMA RowsKept ==
    ASSUME NEW row \in AccountRow
    PROVE  WithFailure(row) \in AccountRow /\ WithSuccess(row) \in AccountRow
<1>1. Threshold \in Nat /\ 0 \in 0 .. Threshold
  BY BoundAssumption
<1>2. row.failed \in 0 .. Threshold
  BY DEF AccountRow
<1>3. (IF row.failed < Threshold THEN row.failed + 1 ELSE row.failed) \in 0 .. Threshold
  BY <1>1, <1>2
<1>4. (row.failed + 1 >= Threshold) \in BOOLEAN
  OBVIOUS
<1>5. WithFailure(row) \in AccountRow
  BY <1>3, <1>4 DEF AccountRow, WithFailure
<1>6. WithSuccess(row) \in AccountRow
  BY <1>1 DEF AccountRow, WithSuccess
<1> QED
  BY <1>5, <1>6

LEMMA ConfirmFit ==
    ASSUME RequestsFit, AccountKept, NEW t \in Task, Confirm(t)
    PROVE  RequestsFit'
<1> DEFINE r == task[t]
           row == CHOOSE row \in account : TRUE
           g == [r EXCEPT !.proved = TRUE]
           fails == [r EXCEPT !.at = "record_failure", !.row = {WithFailure(row)}]
           clears == [g EXCEPT !.at = "clear_failures", !.row = {WithSuccess(row)}]
           next == IF r.sent = "wrong" THEN fails
                   ELSE IF row.failed > 0 THEN clears ELSE Admitted(g)
<1>1. chosen' = chosen
  BY DEF Confirm
<1>2. CASE ~ \E x \in account : MayAuthenticate(x)
  <2>1. task' = [task EXCEPT ![t] = AtRest]
    BY <1>2 DEF Confirm, Continue
  <2> QED
    BY <1>1, <2>1, PutFit
<1>3. CASE \E x \in account : MayAuthenticate(x)
  <2>1. r.at = "confirm" /\ task' = [task EXCEPT ![t] = next]
    BY <1>3 DEF Confirm, Continue
  <2>2. Fit(r)
    BY <2>1, AtAStep DEF Step
  <2>3. row \in AccountRow
    BY <1>3 DEF AccountKept
  <2>4. WithFailure(row) \in AccountRow /\ WithSuccess(row) \in AccountRow
    BY <2>3, RowsKept
  <2> HIDE DEF row
  <2>5. "record_failure" \in Step /\ "clear_failures" \in Step
    BY DEF Step
  <2>6. r \in RequestState /\ Rightful(r) /\ Aware(r)
    BY <2>2 DEF Fit
  <2> HIDE DEF r
  <2>7. /\ g \in RequestState /\ g.proved = TRUE /\ g.who = r.who /\ g.does = r.does
        /\ g.warranted = r.warranted /\ g.off = r.off
    BY <2>6 DEF RequestState
  <2>8. Fit(fails)
    <3>1. /\ fails \in RequestState /\ fails.at = "record_failure" /\ fails.who = r.who
          /\ fails.does = r.does /\ fails.warranted = r.warranted /\ fails.off = r.off
      BY <2>4, <2>5, <2>6 DEF RequestState
    <3> HIDE DEF fails
    <3> QED
      BY <2>6, <3>1 DEF Fit, Rightful, Aware, LetThrough, Asking
  <2> HIDE DEF g
  <2>9. Fit(clears)
    <3>1. /\ clears \in RequestState /\ clears.at = "clear_failures" /\ clears.who = g.who
          /\ clears.does = g.does /\ clears.warranted = g.warranted /\ clears.off = g.off
          /\ clears.proved = TRUE
      BY <2>4, <2>5, <2>7 DEF RequestState
    <3> HIDE DEF clears
    <3> QED
      BY <2>6, <2>7, <3>1 DEF Fit, Rightful, Aware, LetThrough, Asking, Warranted, Warrant
  <2>10. Fit(Admitted(g))
    BY <2>6, <2>7, AdmittedFit DEF Rightful, Aware, Warranted, Warrant
  <2> HIDE DEF fails, clears
  <2>11. Fit(next)
    BY <2>8, <2>9, <2>10
  <2> HIDE DEF next
  <2> QED
    BY <1>1, <2>1, <2>11, PutFit
<1> QED
  BY <1>2, <1>3

LEMMA RecordFailureFit ==
    ASSUME RequestsFit, NEW t \in Task, RecordFailure(t)
    PROVE  RequestsFit'
<1>1. task' = [task EXCEPT ![t] = AtRest] /\ chosen' = chosen
  BY DEF RecordFailure, Save, Continue
<1> QED
  BY <1>1, PutFit

LEMMA ClearFailuresFit ==
    ASSUME RequestsFit, NEW t \in Task, ClearFailures(t)
    PROVE  RequestsFit'
<1>1. /\ task[t].at = "clear_failures" /\ chosen' = chosen
      /\ task' = [task EXCEPT ![t] = IF account = {} THEN AtRest ELSE Admitted(task[t])]
  BY DEF ClearFailures, Save, Continue
<1>2. Fit(task[t])
  BY <1>1, AtAStep DEF Step
<1>3. Fit(Admitted(task[t]))
  BY <1>1, <1>2, AdmittedFit DEF Fit, LetThrough, Warranted, Warrant
<1> QED
  BY <1>1, <1>3, PutFit

\* A request that was let through, with its next step or none.
LEMMA GoOnFit ==
    ASSUME RequestsFit, NEW t \in Task, NEW step \in Step \ Asking, task[t].at = step,
           NEW next \in Step \ (Asking \cup {"issue_state", "clear_failures"}),
           \/ task' = [task EXCEPT ![t] = AtRest]
           \/ task' = [task EXCEPT ![t] = Then(task[t], next)],
           chosen' = chosen
    PROVE  RequestsFit'
<1>1. Fit(task[t])
  BY AtAStep
<1>2. Fit(Then(task[t], next))
  BY <1>1, MoveFit
<1> QED
  BY <1>2, PutFit

LEMMA ChangeFit ==
    ASSUME RequestsFit, NEW t \in Task,
           \/ Announce(t) \/ ReadProfile(t) \/ ExchangeCode(t) \/ PutConnection(t)
           \/ PutSecret(t) \/ PutPending(t) \/ ReadConnection(t) \/ DeleteSecret(t)
           \/ RemoveConnection(t) \/ DeleteProfile(t) \/ DeleteSecrets(t)
           \/ \E st \in State : IssueState(t, st)
    PROVE  RequestsFit'
<1> DEFINE Later == Step \ (Asking \cup {"issue_state", "clear_failures"})
           Goes(step, next) ==
               /\ task[t].at = step /\ chosen' = chosen
               /\ \/ task' = [task EXCEPT ![t] = AtRest]
                  \/ task' = [task EXCEPT ![t] = Then(task[t], next)]
<1>0. ASSUME NEW step \in Step \ Asking, NEW next \in Later, Goes(step, next)
      PROVE  RequestsFit'
  BY <1>0, GoOnFit
<1>1. /\ {"announce", "read_profile", "exchange", "put_connection", "put_secret", "put_pending",
          "issue_state", "read_connection", "delete_secret", "remove_connection",
          "delete_profile", "delete_secrets"} \subseteq Step \ Asking
      /\ {"announce", "exchange", "put_connection", "put_secret", "put_pending", "delete_secret",
          "remove_connection", "delete_secrets"} \subseteq Later
  BY DEF Step, Asking
<1> HIDE DEF Later
<1>2. CASE Announce(t)
  <2>1. Goes("announce", "announce")
    BY <1>2 DEF Announce, Continue
  <2> QED
    BY <1>0, <1>1, <2>1
<1>3. CASE ReadProfile(t)
  <2>1. Goes("read_profile", "exchange") \/ Goes("read_profile", "put_connection")
    BY <1>3 DEF ReadProfile, Continue
  <2> QED
    BY <1>0, <1>1, <2>1
<1>4. CASE ExchangeCode(t)
  <2>1. Goes("exchange", "put_connection")
    BY <1>4 DEF ExchangeCode, Continue
  <2> QED
    BY <1>0, <1>1, <2>1
<1>5. CASE PutConnection(t)
  <2>1. Goes("put_connection", "put_secret")
    BY <1>5 DEF PutConnection, Continue
  <2> QED
    BY <1>0, <1>1, <2>1
<1>6. CASE PutSecret(t)
  <2>1. Goes("put_secret", "announce")
    BY <1>6 DEF PutSecret, Made, Continue
  <2> QED
    BY <1>0, <1>1, <2>1
<1>7. CASE PutPending(t)
  <2>1. Goes("put_pending", "announce")
    BY <1>7 DEF PutPending, Continue
  <2> QED
    BY <1>0, <1>1, <2>1
<1>8. CASE ReadConnection(t)
  <2>1. Goes("read_connection", "delete_secret")
    BY <1>8 DEF ReadConnection, Continue
  <2> QED
    BY <1>0, <1>1, <2>1
<1>9. CASE DeleteSecret(t)
  <2>1. Goes("delete_secret", "remove_connection")
    BY <1>9 DEF DeleteSecret, Continue
  <2> QED
    BY <1>0, <1>1, <2>1
<1>10. CASE RemoveConnection(t)
  <2>1. Goes("remove_connection", "announce")
    BY <1>10 DEF RemoveConnection, Made, Continue
  <2> QED
    BY <1>0, <1>1, <2>1
<1>11. CASE DeleteProfile(t)
  <2>1. Goes("delete_profile", "delete_secrets")
    BY <1>11 DEF DeleteProfile, Continue
  <2> QED
    BY <1>0, <1>1, <2>1
<1>12. CASE DeleteSecrets(t)
  <2>1. Goes("delete_secrets", "announce")
    BY <1>12 DEF DeleteSecrets, Made, Continue
  <2> QED
    BY <1>0, <1>1, <2>1
<1>13. ASSUME NEW st \in State, IssueState(t, st)
       PROVE  RequestsFit'
  <2>1. Goes("issue_state", "put_pending")
    BY <1>13 DEF IssueState, Continue
  <2> QED
    BY <1>0, <1>1, <2>1
<1> QED
  BY <1>2, <1>3, <1>4, <1>5, <1>6, <1>7, <1>8, <1>9, <1>10, <1>11, <1>12, <1>13

LEMMA ReadSettingsFit ==
    ASSUME RequestsFit, NEW t \in Task, ReadSettings(t)
    PROVE  RequestsFit'
<1> DEFINE r == task[t]
<1>1. PICK answer \in Answers :
         Continue(t, "read_settings",
             IF Rejected(answer) THEN AtRest
             ELSE [r EXCEPT !.at = "read_profile",
                       !.announces = AnnouncesCredentialChanges(ForAccount(answer))])
  BY DEF ReadSettings
<1> DEFINE a == AnnouncesCredentialChanges(ForAccount(answer))
           h == [r EXCEPT !.at = "read_profile", !.announces = a]
<1>2. /\ chosen' = chosen /\ r.at = "read_settings"
      /\ task' = [task EXCEPT ![t] = IF Rejected(answer) THEN AtRest ELSE h]
  BY <1>1 DEF ReadSettings, Continue
<1>3. Fit(r)
  BY <1>2, AtAStep DEF Step
<1>4. a \in BOOLEAN /\ "read_profile" \in Step
  BY DEF AnnouncesCredentialChanges, Step
<1> HIDE DEF r, a
<1>5. /\ h \in RequestState /\ h.at = "read_profile" /\ h.who = r.who /\ h.does = r.does
      /\ h.warranted = r.warranted /\ h.off = r.off
  BY <1>3, <1>4 DEF Fit, RequestState
<1> HIDE DEF h
<1>6. Fit(h)
  BY <1>2, <1>3, <1>5 DEF Fit, Rightful, LetThrough, Aware, Warranted, Asking
<1> QED
  BY <1>2, <1>6, PutFit

\* The owner turns the switch: whoever is in flight has lived through it.
LEMMA ChooseFit ==
    ASSUME RequestsFit, chosen \in Choices, NEW c \in Choices, Choose(c)
    PROVE  RequestsFit'
<1> DEFINE off(r) == [r EXCEPT !.off = TRUE]
<1>1. chosen' = c
  BY DEF Choose
<1>2. task' = [t \in Task |-> IF task[t] # AtRest /\ c.reauth # TRUE
                              THEN off(task[t]) ELSE task[t]]
  BY DEF Choose
<1>3. ASSUME NEW t \in Task
      PROVE  task'[t] = AtRest \/ Fit(task[t])'
  <2>1. CASE task[t] = AtRest
    BY <1>2, <2>1
  <2>2. CASE task[t] # AtRest
    <3>1. Fit(task[t])
      BY <2>2 DEF RequestsFit
    <3>2. CASE c.reauth = TRUE
      <4>1. task'[t] = task[t]
        BY <1>2, <3>2
      <4> QED
        BY <1>1, <3>1, <3>2, <4>1
           DEF Fit, Rightful, LetThrough, Aware, Warranted, Warrant
    <3>3. CASE c.reauth # TRUE
      <4> DEFINE r == task[t]
                 h == off(r)
      <4>1. task'[t] = h
        BY <1>2, <2>2, <3>3
      <4>2. /\ h \in RequestState /\ h.at = r.at /\ h.who = r.who /\ h.does = r.does
            /\ h.warranted = r.warranted /\ h.off = TRUE /\ h.proved = r.proved /\ h.sent = r.sent
        BY <3>1 DEF Fit, RequestState
      <4> HIDE DEF h
      <4> QED
        BY <3>1, <4>1, <4>2 DEF Fit, Rightful, LetThrough, Aware, Warranted, Warrant
    <3> QED
      BY <3>2, <3>3
  <2> QED
    BY <2>1, <2>2
<1>4. task' \in [Task -> {AtRest} \cup RequestState]
  <2>1. \A t \in Task : task'[t] \in {AtRest} \cup RequestState
    BY <1>3 DEF Fit
  <2> QED
    BY <1>2, <2>1
<1> QED
  BY <1>3, <1>4 DEF RequestsFit

\* Nobody's request is touched.
LEMMA UntouchedFit ==
    ASSUME RequestsFit, UNCHANGED <<task, chosen>>
    PROVE  RequestsFit'
  BY DEF RequestsFit, Fit, Rightful, LetThrough, Aware, Warranted, Warrant

LEMMA ContinueFit ==
    ASSUME RequestsFit, chosen \in Choices, AccountKept, NEW t \in Task, ContinueRequest(t)
    PROVE  RequestsFit'
  BY AdmitFit, ConfirmFit, RecordFailureFit, ClearFailuresFit, ChangeFit, ReadSettingsFit
     DEF ContinueRequest

LEMMA NextFit ==
    ASSUME RequestsFit, chosen \in Choices, AccountKept, FlowsWarranted, Next
    PROVE  RequestsFit'
<1>1. ASSUME NEW t \in Task, NEW r \in Requests, NEW s \in Service, RequestChange(t, r, s)
      PROVE  RequestsFit'
  BY <1>1, RequestChangeFit
<1>2. ASSUME NEW t \in Task, NEW r \in Requests, RequestRemoval(t, r)
      PROVE  RequestsFit'
  BY <1>2, RequestRemovalFit
<1>3. ASSUME NEW t \in Task, NEW st \in State, RedeemState(t, st)
      PROVE  RequestsFit'
  BY <1>3, RedeemStateFit
<1>4. ASSUME NEW t \in Task, ContinueRequest(t)
      PROVE  RequestsFit'
  BY <1>4, ContinueFit
<1>5. ASSUME NEW t \in Task, Abandon(t)
      PROVE  RequestsFit'
  BY <1>5, PutFit DEF Abandon
<1>6. ASSUME NEW c \in Choices, Choose(c)
      PROVE  RequestsFit'
  BY <1>6, ChooseFit
<1>7. CASE Delivered \/ CreateProfile \/ OpenSession \/ Unlock \/ Disable \/ DeleteAccount
  <2>1. UNCHANGED <<task, chosen>>
    BY <1>7 DEF Delivered, CreateProfile, OpenSession, Unlock, Disable, DeleteAccount
  <2> QED
    BY <2>1, UntouchedFit
<1> QED
  BY <1>1, <1>2, <1>3, <1>4, <1>5, <1>6, <1>7 DEF Next

-----------------------------------------------------------------------------
(* The flows: nobody gets as far as a consent without a warrant *)

LEMMA IssueWarrants ==
    ASSUME RequestsFit, NEW t \in Task, task[t].at = "issue_state"
    PROVE  Warrant(task[t]) /\ task[t].service \in Service
<1>1. Fit(task[t])
  BY AtAStep DEF Step
<1> QED
  BY <1>1 DEF Fit, RequestState, Rightful, LetThrough, Warranted, Asking

LEMMA IssueStateFlows ==
    ASSUME RequestsFit, FlowsWarranted, NEW t \in Task, NEW st \in State, IssueState(t, st)
    PROVE  FlowsWarranted'
<1>1. CASE ~ profile
  BY <1>1 DEF IssueState, FlowsWarranted
<1>2. CASE profile
  <2> DEFINE f == [service |-> task[t].service, warranted |-> Warrant(task[t])]
  <2>1. /\ task[t].at = "issue_state" /\ issued' = issued \cup {st}
        /\ flows' = [x \in DOMAIN flows \cup {st} |-> IF x = st THEN f ELSE flows[x]]
    BY <1>2 DEF IssueState, Continue
  <2>2. f = [service |-> task[t].service, warranted |-> TRUE] /\ task[t].service \in Service
    BY <2>1, IssueWarrants
  <2> HIDE DEF f
  <2>3. f \in [service: Service, warranted: BOOLEAN] /\ f.warranted = TRUE
    BY <2>2
  <2>4. DOMAIN flows' = DOMAIN flows \cup {st}
    BY <2>1
  <2> QED
    BY <2>1, <2>3, <2>4 DEF FlowsWarranted
<1> QED
  BY <1>1, <1>2

LEMMA RedeemStateFlows ==
    ASSUME FlowsWarranted, NEW t \in Task, NEW st \in State, RedeemState(t, st)
    PROVE  FlowsWarranted'
<1>1. flows' = [x \in DOMAIN flows \ {st} |-> flows[x]] /\ issued' = issued
  BY DEF RedeemState
<1>2. DOMAIN flows' = DOMAIN flows \ {st}
  BY <1>1
<1> QED
  BY <1>1, <1>2 DEF FlowsWarranted

LEMMA NextFlows ==
    ASSUME RequestsFit, FlowsWarranted, Next
    PROVE  FlowsWarranted'
<1>1. ASSUME NEW t \in Task, NEW st \in State, IssueState(t, st)
      PROVE  FlowsWarranted'
  BY <1>1, IssueStateFlows
<1>2. ASSUME NEW t \in Task, NEW st \in State, RedeemState(t, st)
      PROVE  FlowsWarranted'
  BY <1>2, RedeemStateFlows
<1>3. ASSUME UNCHANGED <<flows, issued>>
      PROVE  FlowsWarranted'
  BY <1>3 DEF FlowsWarranted
<1>4. ASSUME NEW t \in Task, ContinueRequest(t), ~ \E st \in State : IssueState(t, st)
      PROVE  UNCHANGED <<flows, issued>>
  BY <1>4 DEF ContinueRequest, Admit, Confirm, RecordFailure, ClearFailures, Save, Announce,
     ReadProfile, ExchangeCode, PutConnection, PutSecret, PutPending, ReadSettings,
     ReadConnection, DeleteSecret, RemoveConnection, DeleteProfile, DeleteSecrets
<1>5. ASSUME NEW t \in Task,
             \/ \E r \in Requests, s \in Service : RequestChange(t, r, s)
             \/ \E r \in Requests : RequestRemoval(t, r)
             \/ Abandon(t)
      PROVE  UNCHANGED <<flows, issued>>
  BY <1>5 DEF RequestChange, RequestRemoval, Abandon
<1>6. CASE \/ \E c \in Choices : Choose(c)
           \/ Delivered \/ CreateProfile \/ OpenSession \/ Unlock \/ Disable \/ DeleteAccount
  <2>1. UNCHANGED <<flows, issued>>
    BY <1>6 DEF Choose, Delivered, CreateProfile, OpenSession, Unlock, Disable, DeleteAccount
  <2> QED
    BY <1>3, <2>1
<1> QED
  BY <1>1, <1>2, <1>3, <1>4, <1>5, <1>6 DEF Next

-----------------------------------------------------------------------------
(* The tables *)

TablesKept ==
    /\ profile \in BOOLEAN
    /\ connections \in [Service -> {"none", "pending", "active"}]
    /\ ~ profile => connections = NoConnections
    /\ secrets \in SUBSET Service

LEMMA NextAccount ==
    ASSUME RequestsFit, AccountKept, Next
    PROVE  AccountKept'
<1>1. ASSUME NEW t \in Task, NEW step \in Step, NEW r, Save(t, step, r)
      PROVE  AccountKept'
  <2>1. task[t].at = step /\ account' = IF account = {} THEN {} ELSE task[t].row
    BY <1>1 DEF Save, Continue
  <2>2. task[t].row \in SUBSET AccountRow
    BY <2>1, AtAStep DEF Fit, RequestState
  <2> QED
    BY <2>1, <2>2 DEF AccountKept
<1>2. ASSUME NEW t \in Task, RecordFailure(t) \/ ClearFailures(t)
      PROVE  AccountKept'
  <2>1. "record_failure" \in Step /\ "clear_failures" \in Step
    BY DEF Step
  <2> QED
    BY <1>1, <1>2, <2>1 DEF RecordFailure, ClearFailures
<1>3. CASE Unlock \/ Disable
  <2>1. PICK row \in account :
           \/ account' = {[row EXCEPT !.locked = FALSE]}
           \/ account' = {[row EXCEPT !.status = "disabled"]}
    BY <1>3 DEF Unlock, Disable
  <2>2. row \in AccountRow
    BY DEF AccountKept
  <2>3. [row EXCEPT !.locked = FALSE] \in AccountRow /\ [row EXCEPT !.status = "disabled"] \in AccountRow
    BY <2>2 DEF AccountRow
  <2> QED
    BY <2>1, <2>3 DEF AccountKept
<1>4. CASE DeleteAccount
  BY <1>4 DEF DeleteAccount, AccountKept
<1>5. ASSUME UNCHANGED account
      PROVE  AccountKept'
  BY <1>5 DEF AccountKept
<1>6. ASSUME NEW t \in Task, ContinueRequest(t), ~ (RecordFailure(t) \/ ClearFailures(t))
      PROVE  UNCHANGED account
  BY <1>6 DEF ContinueRequest, Admit, Confirm, Announce,
     ReadProfile, ExchangeCode, PutConnection, PutSecret, IssueState, PutPending, ReadSettings,
     ReadConnection, DeleteSecret, RemoveConnection, DeleteProfile, DeleteSecrets
<1>7. ASSUME NEW t \in Task,
             \/ \E r \in Requests, s \in Service : RequestChange(t, r, s)
             \/ \E r \in Requests : RequestRemoval(t, r)
             \/ \E st \in State : RedeemState(t, st)
             \/ Abandon(t)
      PROVE  UNCHANGED account
  BY <1>7 DEF RequestChange, RequestRemoval, RedeemState, Abandon
<1>8. CASE (\E c \in Choices : Choose(c)) \/ Delivered \/ CreateProfile \/ OpenSession
  BY <1>5, <1>8 DEF Choose, Delivered, CreateProfile, OpenSession
<1> QED
  BY <1>2, <1>3, <1>4, <1>5, <1>6, <1>7, <1>8 DEF Next

\* The steps of a request that write to the tables of its owner.
LEMMA ContinueTables ==
    ASSUME RequestsFit, TablesKept, NEW t \in Task, ContinueRequest(t)
    PROVE  TablesKept'
<1> DEFINE s == task[t].service
<1>1. ASSUME task[t].at \in Step
      PROVE  s \in Service
  BY <1>1, AtAStep DEF Fit, RequestState
<1>2. /\ {"put_connection", "put_secret", "put_pending", "delete_secret", "remove_connection"}
          \subseteq Step
      /\ NoConnections \in [Service -> {"none", "pending", "active"}]
  BY DEF Step, NoConnections
<1>3. CASE PutConnection(t) \/ PutPending(t)
  <2>1. s \in Service
    BY <1>1, <1>2, <1>3 DEF PutConnection, PutPending, Continue
  <2>2. /\ \E status \in {"active", "pending"} : connections' = Stored(s, status)
        /\ profile' = profile /\ secrets' = secrets
    BY <1>3 DEF PutConnection, PutPending
  <2> QED
    BY <2>1, <2>2 DEF TablesKept, Stored
<1>4. CASE PutSecret(t)
  <2>1. s \in Service
    BY <1>1, <1>2, <1>4 DEF PutSecret, Made, Continue
  <2>2. profile' = profile /\ connections' = connections /\ secrets' \subseteq secrets \cup {s}
    BY <1>4 DEF PutSecret
  <2> QED
    BY <2>1, <2>2 DEF TablesKept
<1>5. CASE DeleteSecret(t)
  BY <1>5 DEF DeleteSecret, TablesKept
<1>6. CASE RemoveConnection(t)
  <2>1. s \in Service
    BY <1>1, <1>2, <1>6 DEF RemoveConnection, Made, Continue
  <2>2. /\ profile' = profile /\ secrets' = secrets
        /\ connections' = [connections EXCEPT ![s] = "none"]
    BY <1>6 DEF RemoveConnection
  <2>3. connections = NoConnections => connections' = NoConnections
    BY <2>1, <2>2 DEF NoConnections
  <2> QED
    BY <2>1, <2>2, <2>3 DEF TablesKept
<1>7. CASE DeleteProfile(t)
  BY <1>2, <1>7 DEF DeleteProfile, TablesKept
<1>8. CASE DeleteSecrets(t)
  BY <1>8 DEF DeleteSecrets, TablesKept
<1>9. CASE \/ Admit(t) \/ Confirm(t) \/ RecordFailure(t) \/ ClearFailures(t) \/ Announce(t)
           \/ ReadProfile(t) \/ ExchangeCode(t) \/ ReadSettings(t) \/ ReadConnection(t)
           \/ \E st \in State : IssueState(t, st)
  <2>1. UNCHANGED tables
    BY <1>9 DEF Admit, Confirm, RecordFailure, ClearFailures, Save, Announce, ReadProfile,
       ExchangeCode, ReadSettings, ReadConnection, IssueState
  <2> QED
    BY <2>1 DEF tables, TablesKept
<1> QED
  BY <1>3, <1>4, <1>5, <1>6, <1>7, <1>8, <1>9 DEF ContinueRequest

LEMMA NextTables ==
    ASSUME RequestsFit, TablesKept, Next
    PROVE  TablesKept'
<1>1. ASSUME NEW t \in Task, ContinueRequest(t)
      PROVE  TablesKept'
  BY <1>1, ContinueTables
<1>2. ASSUME UNCHANGED tables
      PROVE  TablesKept'
  BY <1>2 DEF tables, TablesKept
<1>3. ASSUME NEW t \in Task,
             \/ \E r \in Requests, s \in Service : RequestChange(t, r, s)
             \/ \E r \in Requests : RequestRemoval(t, r)
             \/ \E st \in State : RedeemState(t, st)
             \/ Abandon(t)
      PROVE  UNCHANGED tables
  BY <1>3 DEF RequestChange, RequestRemoval, RedeemState, Abandon
<1>4. CASE (\E c \in Choices : Choose(c)) \/ Delivered \/ OpenSession \/ Unlock \/ Disable
  <2>1. UNCHANGED tables
    BY <1>4 DEF Choose, Delivered, OpenSession, Unlock, Disable, tables
  <2> QED
    BY <1>2, <2>1
<1>5. CASE CreateProfile
  BY <1>5 DEF CreateProfile, TablesKept
<1>6. CASE DeleteAccount
  BY <1>6 DEF DeleteAccount, TablesKept, NoConnections
<1> QED
  BY <1>1, <1>2, <1>3, <1>4, <1>5, <1>6 DEF Next

-----------------------------------------------------------------------------
(* Who has still to announce a change *)

Announcing == {t \in Task : task[t].at = "announce"}

LEMMA AnnouncingFinite ==
    IsFiniteSet(Announcing) /\ Cardinality(Announcing) \in Nat
<1>1. IsFiniteSet(Announcing)
  BY BoundAssumption, FS_Subset DEF Announcing
<1> QED
  BY <1>1, FS_CardinalityType

LEMMA AnnouncingPut ==
    ASSUME RequestsFit, NEW t \in Task, NEW r, task' = [task EXCEPT ![t] = r]
    PROVE  Announcing' = IF r.at = "announce" THEN Announcing \cup {t} ELSE Announcing \ {t}
<1>1. \A u \in Task : task'[u] = IF u = t THEN r ELSE task[u]
  BY DEF RequestsFit
<1> QED
  BY <1>1 DEF Announcing

LEMMA AnnouncingEnter ==
    ASSUME RequestsFit, NEW t \in Task, NEW r, task' = [task EXCEPT ![t] = r],
           task[t].at # "announce", r.at = "announce"
    PROVE  Cardinality(Announcing)' = Cardinality(Announcing) + 1
<1>1. Announcing' = Announcing \cup {t}
  BY AnnouncingPut
<1>2. t \notin Announcing
  BY DEF Announcing
<1> HIDE DEF Announcing
<1> QED
  BY <1>1, <1>2, AnnouncingFinite, FS_AddElement

LEMMA AnnouncingLeave ==
    ASSUME RequestsFit, NEW t \in Task, NEW r, task' = [task EXCEPT ![t] = r],
           task[t].at = "announce", r.at # "announce"
    PROVE  Cardinality(Announcing)' = Cardinality(Announcing) - 1
<1>1. Announcing' = Announcing \ {t}
  BY AnnouncingPut
<1>2. t \in Announcing
  BY DEF Announcing
<1> HIDE DEF Announcing
<1> QED
  BY <1>1, <1>2, AnnouncingFinite, FS_RemoveElement

LEMMA AnnouncingStay ==
    ASSUME RequestsFit, NEW t \in Task, NEW r, task' = [task EXCEPT ![t] = r],
           task[t].at # "announce", r.at # "announce"
    PROVE  Announcing' = Announcing
<1>1. Announcing' = Announcing \ {t}
  BY AnnouncingPut
<1>2. t \notin Announcing
  BY DEF Announcing
<1> QED
  BY <1>1, <1>2

\* What is owed, and what became of it.
Counts ==
    /\ owed \in Nat /\ told \in Nat /\ missed \in Nat
    /\ owed = told + missed + Cardinality(Announcing)

ledger == <<owed, told, missed>>

LEMMA CountsStay ==
    ASSUME Counts, UNCHANGED ledger, Announcing' = Announcing
    PROVE  Counts'
<1> HIDE DEF Announcing
<1> QED
  BY DEF Counts, ledger

\* A request that neither begins nor ends announcing.
LEMMA CountsPut ==
    ASSUME RequestsFit, Counts, UNCHANGED ledger, NEW t \in Task, NEW r,
           task' = [task EXCEPT ![t] = r], task[t].at # "announce", r.at # "announce"
    PROVE  Counts'
  BY AnnouncingStay, CountsStay

LEMMA RestIsQuiet == AtRest.at # "announce"
  BY DEF AtRest

LEMMA ThenIsQuiet ==
    ASSUME NEW r, Fit(r), NEW step \in Step \ {"announce"}
    PROVE  Then(r, step).at # "announce"
<1>1. r \in RequestState
  BY DEF Fit
<1> QED
  BY <1>1, ThenFields

LEMMA AdmittedIsQuiet ==
    ASSUME NEW r \in RequestState
    PROVE  Admitted(r).at # "announce"
<1>1. First[r.does] \in {"read_profile", "issue_state", "read_connection", "delete_profile"}
  BY DEF First, RequestState
<1>2. First[r.does] \in Step
  BY <1>1 DEF Step
<1>3. Admitted(r).at = First[r.does]
  BY <1>2, ThenFields DEF Admitted
<1> QED
  BY <1>1, <1>3

\* The change is made: one more is owed, and one more request announces.
LEMMA MadeCounts ==
    ASSUME RequestsFit, Counts, NEW t \in Task, NEW step \in Step \ {"announce"},
           NEW announces \in BOOLEAN, Made(t, step, task[t], announces)
    PROVE  Counts'
<1>1. task[t].at = step /\ Fit(task[t]) /\ UNCHANGED <<told, missed>>
  BY AtAStep DEF Made, Continue
<1>2. CASE announces
  <2>1. task' = [task EXCEPT ![t] = Then(task[t], "announce")] /\ owed' = owed + 1
    BY <1>2 DEF Made, Continue
  <2>2. Then(task[t], "announce").at = "announce"
    BY <1>1, ThenFields DEF Step, Fit
  <2>3. Cardinality(Announcing)' = Cardinality(Announcing) + 1
    BY <1>1, <2>1, <2>2, AnnouncingEnter
  <2> HIDE DEF Announcing
  <2> QED
    BY <1>1, <2>1, <2>3, AnnouncingFinite DEF Counts
<1>3. CASE ~ announces
  <2>1. task' = [task EXCEPT ![t] = AtRest] /\ UNCHANGED ledger
    BY <1>1, <1>3 DEF Made, Continue, ledger
  <2> QED
    BY <1>1, <2>1, RestIsQuiet, CountsPut
<1> QED
  BY <1>2, <1>3

LEMMA AnnounceCounts ==
    ASSUME RequestsFit, Counts, NEW t \in Task, Announce(t)
    PROVE  Counts'
<1>1. task[t].at = "announce" /\ task' = [task EXCEPT ![t] = AtRest] /\ owed' = owed
  BY DEF Announce, Continue
<1>2. Cardinality(Announcing)' = Cardinality(Announcing) - 1
  BY <1>1, RestIsQuiet, AnnouncingLeave
<1>3. (told' = told + 1 /\ missed' = missed) \/ (told' = told /\ missed' = missed + 1)
  <2>1. CASE account # {} /\ outbox < MaxPending
    BY <2>1 DEF Announce
  <2>2. CASE ~ (account # {} /\ outbox < MaxPending)
    BY <2>2 DEF Announce
  <2> QED
    BY <2>1, <2>2
<1> HIDE DEF Announcing
<1> QED
  BY <1>1, <1>2, <1>3, AnnouncingFinite DEF Counts

LEMMA AbandonCounts ==
    ASSUME RequestsFit, Counts, NEW t \in Task, Abandon(t)
    PROVE  Counts'
<1>1. task' = [task EXCEPT ![t] = AtRest] /\ owed' = owed /\ told' = told
  BY DEF Abandon
<1>2. CASE task[t].at = "announce"
  <2>1. missed' = missed + 1
    BY <1>2 DEF Abandon
  <2>2. Cardinality(Announcing)' = Cardinality(Announcing) - 1
    BY <1>1, <1>2, RestIsQuiet, AnnouncingLeave
  <2> HIDE DEF Announcing
  <2> QED
    BY <1>1, <2>1, <2>2, AnnouncingFinite DEF Counts
<1>3. CASE task[t].at # "announce"
  <2>1. UNCHANGED ledger
    BY <1>1, <1>3 DEF Abandon, ledger
  <2> QED
    BY <1>1, <1>3, <2>1, RestIsQuiet, CountsPut
<1> QED
  BY <1>2, <1>3

LEMMA ChooseCounts ==
    ASSUME RequestsFit, Counts, NEW c \in Choices, Choose(c)
    PROVE  Counts'
<1>1. UNCHANGED ledger
  BY DEF Choose, notices, ledger
<1>2. ASSUME NEW t \in Task
      PROVE  task'[t].at = task[t].at
  <2>1. task[t] = AtRest \/ task[t] \in RequestState
    BY DEF RequestsFit
  <2>2. task'[t] = task[t] \/ (task[t] # AtRest /\ task'[t] = [task[t] EXCEPT !.off = TRUE])
    BY DEF Choose
  <2> QED
    BY <2>1, <2>2 DEF RequestState
<1>3. Announcing' = Announcing
  BY <1>2 DEF Announcing
<1> QED
  BY <1>1, <1>3, CountsStay

\* Admission announces nothing.
LEMMA AdmissionCounts ==
    ASSUME RequestsFit, Counts, NEW t \in Task,
           Admit(t) \/ Confirm(t) \/ RecordFailure(t) \/ ClearFailures(t) \/ ReadSettings(t)
    PROVE  Counts'
<1> DEFINE r == task[t]
<1>1. UNCHANGED ledger
  BY DEF Admit, Confirm, RecordFailure, ClearFailures, Save, ReadSettings, notices, ledger
<1>2. r.at \in {"admit", "confirm", "record_failure", "clear_failures", "read_settings"}
  BY DEF Admit, Confirm, RecordFailure, ClearFailures, Save, ReadSettings, Continue
<1>3. Fit(r) /\ r \in RequestState
  BY <1>2, AtAStep DEF Step, Fit
<1>4. "confirm" \in Step /\ "record_failure" \in Step /\ "clear_failures" \in Step
      /\ "read_profile" \in Step
  BY DEF Step
<1>5. PICK next : task' = [task EXCEPT ![t] = next] /\ next.at # "announce"
  <2>1. CASE Admit(t)
    <3>1. PICK p :
             \/ task' = [task EXCEPT ![t] = AtRest]
             \/ task' = [task EXCEPT ![t] = Admitted(Noted(r, p))]
             \/ task' = [task EXCEPT ![t] = Then(Noted(r, p), "confirm")]
      BY <2>1 DEF Admit, Noted, Continue
    <3>2. Noted(r, p) \in RequestState
      BY <1>3, NotedFields
    <3>3. Admitted(Noted(r, p)).at # "announce"
      BY <3>2, AdmittedIsQuiet
    <3>4. Then(Noted(r, p), "confirm").at = "confirm"
      <4> HIDE DEF r
      <4> QED
        BY <1>4, <3>2, ThenFields, Zenon
    <3> HIDE DEF r
    <3> QED
      BY <3>1, <3>2, <3>3, <3>4, RestIsQuiet
  <2>2. CASE Confirm(t)
    <3> DEFINE g == [r EXCEPT !.proved = TRUE]
    <3>1. PICK x, y :
             \/ task' = [task EXCEPT ![t] = AtRest]
             \/ task' = [task EXCEPT ![t] = [r EXCEPT !.at = "record_failure", !.row = x]]
             \/ task' = [task EXCEPT ![t] = [g EXCEPT !.at = "clear_failures", !.row = y]]
             \/ task' = [task EXCEPT ![t] = Admitted(g)]
      BY <2>2 DEF Confirm, Continue
    <3>2. g \in RequestState
      BY <1>3 DEF RequestState
    <3>3. Admitted(g).at # "announce"
      BY <3>2, AdmittedIsQuiet
    <3> HIDE DEF r, g
    <3>4. /\ [r EXCEPT !.at = "record_failure", !.row = x].at # "announce"
          /\ [g EXCEPT !.at = "clear_failures", !.row = y].at # "announce"
      BY <1>3, <3>2 DEF RequestState
    <3> QED
      BY <3>1, <3>3, <3>4, RestIsQuiet
  <2>3. CASE RecordFailure(t)
    BY <2>3, RestIsQuiet DEF RecordFailure, Save, Continue
  <2>4. CASE ClearFailures(t)
    <3>1. task' = [task EXCEPT ![t] = AtRest] \/ task' = [task EXCEPT ![t] = Admitted(r)]
      BY <2>4 DEF ClearFailures, Save, Continue
    <3> QED
      BY <1>3, <3>1, AdmittedIsQuiet, RestIsQuiet
  <2>5. CASE ReadSettings(t)
    <3>1. PICK a :
             \/ task' = [task EXCEPT ![t] = AtRest]
             \/ task' = [task EXCEPT ![t] = [r EXCEPT !.at = "read_profile", !.announces = a]]
      BY <2>5 DEF ReadSettings, Continue
    <3> HIDE DEF r
    <3>2. [r EXCEPT !.at = "read_profile", !.announces = a].at # "announce"
      BY <1>3 DEF RequestState
    <3> QED
      BY <3>1, <3>2, RestIsQuiet
  <2> QED
    BY <2>1, <2>2, <2>3, <2>4, <2>5
<1> QED
  BY <1>1, <1>2, <1>5, CountsPut

\* The steps on the way to a change.
LEMMA OnTheWayCounts ==
    ASSUME RequestsFit, Counts, NEW t \in Task,
           \/ ReadProfile(t) \/ ExchangeCode(t) \/ PutConnection(t) \/ PutPending(t)
           \/ ReadConnection(t) \/ DeleteSecret(t) \/ DeleteProfile(t)
           \/ \E st \in State : IssueState(t, st)
    PROVE  Counts'
<1> DEFINE steps == {"read_profile", "exchange", "put_connection", "put_pending", "issue_state",
                     "read_connection", "delete_secret", "delete_profile"}
           nexts == {"exchange", "put_connection", "put_secret", "put_pending", "delete_secret",
                     "remove_connection", "delete_secrets"}
<1>1. UNCHANGED ledger
  BY DEF ReadProfile, ExchangeCode, PutConnection, PutPending, ReadConnection, DeleteSecret,
     DeleteProfile, IssueState, notices, ledger
<1>2. /\ task[t].at \in steps
      /\ \/ task' = [task EXCEPT ![t] = AtRest]
         \/ \E next \in nexts : task' = [task EXCEPT ![t] = Then(task[t], next)]
  BY DEF ReadProfile, ExchangeCode, PutConnection, PutPending, ReadConnection, DeleteSecret,
     DeleteProfile, IssueState, Continue
<1>3. /\ steps \subseteq Step /\ nexts \subseteq Step \ {"announce"} /\ "announce" \notin steps
  BY DEF Step
<1> HIDE DEF steps, nexts
<1>4. Fit(task[t]) /\ task[t].at # "announce"
  BY <1>2, <1>3, AtAStep
<1>5. CASE task' = [task EXCEPT ![t] = AtRest]
  BY <1>1, <1>4, <1>5, RestIsQuiet, CountsPut
<1>6. ASSUME NEW next \in nexts, task' = [task EXCEPT ![t] = Then(task[t], next)]
      PROVE  Counts'
  <2>1. Then(task[t], next).at # "announce"
    BY <1>3, <1>4, ThenIsQuiet
  <2> QED
    BY <1>1, <1>4, <1>6, <2>1, CountsPut
<1> QED
  BY <1>2, <1>5, <1>6

\* The counts are right after every step.
LEMMA NextCounts ==
    ASSUME RequestsFit, Counts, Next
    PROVE  Counts'
<1>1. ASSUME NEW t \in Task,
             \/ \E r \in Requests, s \in Service : RequestChange(t, r, s)
             \/ \E r \in Requests : RequestRemoval(t, r)
             \/ \E st \in State : RedeemState(t, st)
      PROVE  Counts'
  <2>1. UNCHANGED ledger /\ task[t] = AtRest
    BY <1>1 DEF RequestChange, RequestRemoval, RedeemState, Start, notices, ledger
  <2>2. PICK next : task' = [task EXCEPT ![t] = next] /\ next.at # "announce"
    <3>1. CASE \E r \in Requests, s \in Service : RequestChange(t, r, s)
      <4>1. PICK r \in Requests, s \in Service : RequestChange(t, r, s)
        BY <3>1
      <4>2. task' = [task EXCEPT ![t] = Going("admit", r, s)]
        BY <4>1 DEF RequestChange, Start
      <4>3. Going("admit", r, s).at # "announce"
        BY DEF Going
      <4> QED
        BY <4>2, <4>3
    <3>2. CASE \E r \in Requests : RequestRemoval(t, r)
      <4>1. PICK r \in Requests : RequestRemoval(t, r)
        BY <3>2
      <4>2. PICK s \in Service :
               \/ task' = [task EXCEPT ![t] = [Going("admit", r, s) EXCEPT
                                                 !.at = "delete_profile", !.empty = TRUE]]
               \/ task' = [task EXCEPT ![t] = Going("admit", r, s)]
        BY <4>1 DEF RequestRemoval, Start
      <4>3. /\ Going("admit", r, s).at # "announce"
            /\ [Going("admit", r, s) EXCEPT !.at = "delete_profile", !.empty = TRUE].at # "announce"
        BY DEF Going
      <4> QED
        BY <4>2, <4>3
    <3>3. CASE \E st \in State : RedeemState(t, st)
      <4>1. PICK st \in State : RedeemState(t, st)
        BY <3>3
      <4>2. task' = [task EXCEPT ![t] = Callback(flows[st].service, flows[st].warranted)]
        BY <4>1 DEF RedeemState, Start, Callback
      <4>3. Callback(flows[st].service, flows[st].warranted).at # "announce"
        BY DEF Callback, Going
      <4> QED
        BY <4>2, <4>3
    <3> QED
      BY <1>1, <3>1, <3>2, <3>3
  <2> QED
    BY <2>1, <2>2, RestIsQuiet, CountsPut
<1>2. ASSUME NEW t \in Task, PutSecret(t) \/ RemoveConnection(t) \/ DeleteSecrets(t)
      PROVE  Counts'
  <2> DEFINE r == task[t]
  <2>0. {"put_secret", "remove_connection", "delete_secrets"} \subseteq Step \ {"announce"}
    BY DEF Step
  <2>1. PICK step \in {"put_secret", "remove_connection", "delete_secrets"} :
           \/ Made(t, step, r, r.announces)
           \/ Continue(t, step, AtRest) /\ UNCHANGED notices
    BY <1>2 DEF PutSecret, RemoveConnection, DeleteSecrets
  <2>2. r.at = step /\ Fit(r) /\ r.announces \in BOOLEAN
    BY <2>0, <2>1, AtAStep DEF Made, Continue, Fit, RequestState
  <2>3. CASE Made(t, step, r, r.announces)
    BY <2>0, <2>2, <2>3, MadeCounts
  <2>4. CASE Continue(t, step, AtRest) /\ UNCHANGED notices
    <3>1. task' = [task EXCEPT ![t] = AtRest] /\ UNCHANGED ledger
      BY <2>4 DEF Continue, notices, ledger
    <3> QED
      BY <2>0, <2>2, <3>1, RestIsQuiet, CountsPut
  <2> QED
    BY <2>1, <2>3, <2>4
<1>3. ASSUME NEW t \in Task, ContinueRequest(t)
      PROVE  Counts'
  BY <1>2, <1>3, AnnounceCounts, AdmissionCounts, OnTheWayCounts DEF ContinueRequest
<1>4. ASSUME NEW t \in Task, Abandon(t)
      PROVE  Counts'
  BY <1>4, AbandonCounts
<1>5. ASSUME NEW c \in Choices, Choose(c)
      PROVE  Counts'
  BY <1>5, ChooseCounts
<1>6. CASE Delivered \/ CreateProfile \/ OpenSession \/ Unlock \/ Disable \/ DeleteAccount
  <2>1. UNCHANGED <<ledger, task>>
    BY <1>6 DEF Delivered, CreateProfile, OpenSession, Unlock, Disable, DeleteAccount,
       notices, ledger
  <2>2. Announcing' = Announcing
    BY <2>1 DEF Announcing
  <2> QED
    BY <2>1, <2>2, CountsStay
<1> QED
  BY <1>1, <1>3, <1>4, <1>5, <1>6 DEF Next

-----------------------------------------------------------------------------
(* What else is counted, and the stamp of the latest session *)

Bounded == outbox \in Nat /\ requests \in Nat

LEMMA NextBounded ==
    ASSUME Bounded, Next
    PROVE  Bounded'
<1>1. requests' = requests \/ requests' = requests + 1
  <2>1. ASSUME NEW t \in Task, ContinueRequest(t)
        PROVE  requests' = requests
    BY <2>1 DEF ContinueRequest, Admit, Confirm, RecordFailure, ClearFailures, Save, Announce,
       ReadProfile, ExchangeCode, PutConnection, PutSecret, IssueState, PutPending, ReadSettings,
       ReadConnection, DeleteSecret, RemoveConnection, DeleteProfile, DeleteSecrets
  <2>2. ASSUME ~ \E t \in Task : ContinueRequest(t)
        PROVE  requests' = requests \/ requests' = requests + 1
    BY <2>2 DEF Next, RequestChange, RequestRemoval, RedeemState, Start, Abandon, Choose, Delivered,
       CreateProfile, OpenSession, Unlock, Disable, DeleteAccount
  <2> QED
    BY <2>1, <2>2
<1>2. CASE Delivered \/ OpenSession
  <2>1. outbox' = outbox \/ outbox' = outbox + 1 \/ (outbox > 0 /\ outbox' = outbox - 1)
    BY <1>2 DEF Delivered, OpenSession
  <2> QED
    BY <1>1, <2>1 DEF Bounded
<1>3. CASE \E t \in Task : Announce(t)
  <2>1. outbox' = outbox \/ outbox' = outbox + 1
    BY <1>3 DEF Announce
  <2> QED
    BY <1>1, <2>1 DEF Bounded
<1>4. CASE ~ (Delivered \/ OpenSession \/ \E t \in Task : Announce(t))
  <2>1. ASSUME NEW t \in Task, ContinueRequest(t)
        PROVE  outbox' = outbox
    BY <1>4, <2>1 DEF ContinueRequest, Admit, Confirm, RecordFailure, ClearFailures, Save,
       ReadProfile, ExchangeCode, PutConnection, PutSecret, IssueState, PutPending, ReadSettings,
       ReadConnection, DeleteSecret, RemoveConnection, DeleteProfile, DeleteSecrets, Made, notices
  <2>2. ASSUME ~ \E t \in Task : ContinueRequest(t)
        PROVE  outbox' = outbox
    BY <1>4, <2>2 DEF Next, RequestChange, RequestRemoval, RedeemState, Abandon, Choose,
       CreateProfile, Unlock, Disable, DeleteAccount, notices
  <2> QED
    BY <1>1, <2>1, <2>2 DEF Bounded
<1> QED
  BY <1>2, <1>3, <1>4

Stamped == stamp \in [idle: Nat, absolute: Nat, cap: Nat] /\ Usable(stamp)

LEMMA UsableStamped ==
    ASSUME NEW p, Usable(Stamp(p))
    PROVE  Stamp(p) \in [idle: Nat, absolute: Nat, cap: Nat]
<1>1. p.idle \in 1 .. Idle /\ p.absolute \in p.idle .. Absolute /\ p.cap \in 1 .. Cap
  BY DEF Usable, Stamp
<1>2. p.idle \in Nat /\ p.absolute \in Nat /\ p.cap \in Nat
  BY <1>1
<1> QED
  BY <1>2 DEF Stamp

LEMMA NextStamp ==
    ASSUME chosen \in Choices, Stamped, Next
    PROVE  Stamped'
<1>1. CASE OpenSession
  <2>1. PICK answer \in Answers : ~ Rejected(answer) /\ stamp' = Stamp(ForAccount(answer))
    BY <1>1 DEF OpenSession
  <2>2. Usable(Stamp(ForAccount(answer)))
    BY <2>1, ForAccountUsable
  <2> QED
    BY <2>1, <2>2, UsableStamped DEF Stamped, Usable
<1>2. CASE ~ OpenSession
  <2>1. stamp' = stamp
    BY <1>2 DEF Next, ContinueRequest, RequestChange, RequestRemoval, RedeemState, Abandon, Choose,
       Delivered, CreateProfile, Unlock, Disable, DeleteAccount, Admit, Confirm, RecordFailure,
       ClearFailures, Save, Announce, ReadProfile, ExchangeCode, PutConnection, PutSecret,
       IssueState, PutPending, ReadSettings, ReadConnection, DeleteSecret, RemoveConnection,
       DeleteProfile, DeleteSecrets
  <2> QED
    BY <2>1 DEF Stamped, Usable
<1> QED
  BY <1>1, <1>2

LEMMA NextChosen ==
    ASSUME chosen \in Choices, Next
    PROVE  chosen' \in Choices
<1>1. chosen' = chosen \/ \E c \in Choices : Choose(c)
  BY DEF Next, ContinueRequest, RequestChange, RequestRemoval, RedeemState, Abandon,
     Delivered, CreateProfile, OpenSession, Unlock, Disable, DeleteAccount, Admit, Confirm,
     RecordFailure, ClearFailures, Save, Announce, ReadProfile, ExchangeCode, PutConnection,
     PutSecret, IssueState, PutPending, ReadSettings, ReadConnection, DeleteSecret,
     RemoveConnection, DeleteProfile, DeleteSecrets
<1> QED
  BY <1>1 DEF Choose

-----------------------------------------------------------------------------
(* The theorems *)

Settled ==
    /\ chosen \in Choices
    /\ AccountKept /\ TablesKept /\ FlowsWarranted /\ Bounded /\ Stamped
    /\ RequestsFit
    /\ Counts

LEMMA InitSettled == Init => Settled
<1> SUFFICES ASSUME Init PROVE Settled
  OBVIOUS
<1>1. AccountKept
  <2>1. 0 \in 0 .. Threshold
    BY BoundAssumption
  <2> QED
    BY <2>1 DEF Init, AccountKept, AccountRow
<1>2. TablesKept
  BY DEF Init, TablesKept, NoConnections
<1>3. FlowsWarranted
  BY DEF Init, FlowsWarranted
<1>4. Stamped
  BY DeploymentUsable, UsableStamped DEF Init, Stamped, Usable
<1>5. RequestsFit
  BY DEF Init, RequestsFit
<1>6. Counts
  <2>1. Announcing = {}
    BY RestIsQuiet DEF Init, Announcing
  <2>2. Cardinality(Announcing) = 0
    BY <2>1, FS_EmptySet
  <2> HIDE DEF Announcing
  <2> QED
    BY <2>2 DEF Init, Counts
<1> QED
  BY <1>1, <1>2, <1>3, <1>4, <1>5, <1>6 DEF Init, Settled, Bounded

LEMMA NextSettled == Settled /\ [Next]_vars => Settled'
<1> SUFFICES ASSUME Settled, [Next]_vars PROVE Settled'
  OBVIOUS
<1>1. CASE Next
  BY <1>1, NextChosen, NextAccount, NextTables, NextFlows, NextBounded, NextStamp, NextFit,
     NextCounts DEF Settled
<1>2. CASE UNCHANGED vars
  <2>1. UNCHANGED <<chosen, account, profile, connections, secrets, flows, issued, outbox, stamp,
                    requests, owed, told, missed, task>>
    BY <1>2 DEF vars, tables, notices
  <2>2. RequestsFit'
    BY <2>1, UntouchedFit DEF Settled
  <2>3. Counts'
    <3>1. Announcing' = Announcing /\ UNCHANGED ledger
      BY <2>1 DEF Announcing, ledger
    <3> QED
      BY <3>1, CountsStay DEF Settled
  <2>4. AccountKept' /\ TablesKept' /\ FlowsWarranted' /\ Bounded' /\ Stamped'
    BY <2>1 DEF Settled, AccountKept, TablesKept, FlowsWarranted, Bounded, Stamped, Usable,
       NoConnections
  <2> QED
    BY <2>1, <2>2, <2>3, <2>4 DEF Settled
<1> QED
  BY <1>1, <1>2

LEMMA SettledAlways == Spec => []Settled
  BY InitSettled, NextSettled, PTL DEF Spec

(***************************************************************************)
(* The settings, the tables, the flows and every request stay well formed  *)
(* whatever settings-api answers and wherever a request dies.              *)
(***************************************************************************)
THEOREM TypeCorrect == Spec => []TypeOK
<1>1. Settled => TypeOK
  BY DEF Settled, TypeOK, AccountKept, TablesKept, FlowsWarranted, Bounded, Stamped, RequestsFit,
     Counts
<1> QED
  BY <1>1, SettledAlways, PTL

(***************************************************************************)
(* Whatever settings-api answers, login stamps a session with lifetimes    *)
(* and a cap that are usable and no more than the deployment's             *)
(* (SettingsApiPreferences.for_account and _apply).                        *)
(***************************************************************************)
THEOREM StampTheorem == Spec => []StampWithinDeployment
<1>1. Settled => StampWithinDeployment
  BY DEF Settled, Stamped, Usable, StampWithinDeployment
<1> QED
  BY <1>1, SettledAlways, PTL

(***************************************************************************)
(* Every change that an owner asked to hear of was announced once, is      *)
(* about to be, or is known to be lost (CredentialChanges._announce).      *)
(***************************************************************************)
THEOREM AnnouncedOnceTheorem == Spec => []EachChangeAnnouncedOnce
<1>1. Settled => EachChangeAnnouncedOnce
  BY DEF Settled, Counts, Announcing, EachChangeAnnouncedOnce
<1> QED
  BY <1>1, SettledAlways, PTL

-----------------------------------------------------------------------------
(* Who writes *)

Writes == <<connections, secrets>>' # <<connections, secrets>> \/ DOMAIN flows' \ DOMAIN flows # {}

OwnerMeantIt == account' = {} \/ \E t \in Task : task'[t] # task[t] /\ Warranted(task[t])

\* A request past admission that takes its next step is one the owner meant.
LEMMA StepIsMeant ==
    ASSUME RequestsFit, NEW t \in Task, NEW step \in Step \ Asking,
           NEW next \in Step \ {step}, task[t].at = step,
           \/ task' = [task EXCEPT ![t] = AtRest]
           \/ task' = [task EXCEPT ![t] = Then(task[t], next)]
    PROVE  OwnerMeantIt
<1>1. Fit(task[t])
  BY AtAStep
<1>2. Warranted(task[t])
  BY <1>1 DEF Fit, LetThrough
<1>3. Then(task[t], next).at = next /\ AtRest.at = "idle" /\ "idle" \notin Step
  BY <1>1, ThenFields DEF Fit, AtRest, Step
<1>4. task'[t] = AtRest \/ task'[t] = Then(task[t], next)
  BY DEF RequestsFit
<1>5. task'[t].at # task[t].at
  BY <1>3, <1>4
<1> QED
  BY <1>2, <1>5 DEF OwnerMeantIt

LEMMA ContinueMeant ==
    ASSUME RequestsFit, NEW t \in Task, ContinueRequest(t), Writes
    PROVE  OwnerMeantIt
<1> DEFINE Goes(step, next) ==
               /\ task[t].at = step
               /\ \/ task' = [task EXCEPT ![t] = AtRest]
                  \/ task' = [task EXCEPT ![t] = Then(task[t], next)]
<1>0. ASSUME NEW step \in Step \ Asking, NEW next \in Step \ {step}, Goes(step, next)
      PROVE  OwnerMeantIt
  BY <1>0, StepIsMeant
<1>1. /\ {"put_connection", "put_secret", "put_pending", "issue_state", "delete_secret",
          "remove_connection", "delete_profile", "delete_secrets"} \subseteq Step \ Asking
      /\ {"announce", "put_secret", "put_pending", "remove_connection", "delete_secrets"}
          \subseteq Step
  BY DEF Step, Asking
<1>2. CASE PutConnection(t)
  <2>1. Goes("put_connection", "put_secret")
    BY <1>2 DEF PutConnection, Continue
  <2> QED
    BY <1>0, <1>1, <2>1
<1>3. CASE PutSecret(t)
  <2>1. Goes("put_secret", "announce")
    BY <1>3 DEF PutSecret, Made, Continue
  <2> QED
    BY <1>0, <1>1, <2>1
<1>4. CASE PutPending(t)
  <2>1. Goes("put_pending", "announce")
    BY <1>4 DEF PutPending, Continue
  <2> QED
    BY <1>0, <1>1, <2>1
<1>5. CASE \E st \in State : IssueState(t, st)
  <2>1. Goes("issue_state", "put_pending")
    BY <1>5 DEF IssueState, Continue
  <2> QED
    BY <1>0, <1>1, <2>1
<1>6. CASE DeleteSecret(t)
  <2>1. Goes("delete_secret", "remove_connection")
    BY <1>6 DEF DeleteSecret, Continue
  <2> QED
    BY <1>0, <1>1, <2>1
<1>7. CASE RemoveConnection(t)
  <2>1. Goes("remove_connection", "announce")
    BY <1>7 DEF RemoveConnection, Made, Continue
  <2> QED
    BY <1>0, <1>1, <2>1
<1>8. CASE DeleteProfile(t)
  <2>1. Goes("delete_profile", "delete_secrets")
    BY <1>8 DEF DeleteProfile, Continue
  <2> QED
    BY <1>0, <1>1, <2>1
<1>9. CASE DeleteSecrets(t)
  <2>1. Goes("delete_secrets", "announce")
    BY <1>9 DEF DeleteSecrets, Made, Continue
  <2> QED
    BY <1>0, <1>1, <2>1
<1>10. CASE \/ Admit(t) \/ Confirm(t) \/ RecordFailure(t) \/ ClearFailures(t) \/ Announce(t)
            \/ ReadProfile(t) \/ ExchangeCode(t) \/ ReadSettings(t) \/ ReadConnection(t)
  <2>1. UNCHANGED <<tables, flows>>
    BY <1>10 DEF Admit, Confirm, RecordFailure, ClearFailures, Save, Announce, ReadProfile,
       ExchangeCode, ReadSettings, ReadConnection
  <2> QED
    BY <2>1 DEF tables, Writes
<1> QED
  BY <1>2, <1>3, <1>4, <1>5, <1>6, <1>7, <1>8, <1>9, <1>10 DEF ContinueRequest

LEMMA NextMeant ==
    ASSUME RequestsFit, Next, Writes
    PROVE  OwnerMeantIt
<1>1. ASSUME NEW t \in Task, ContinueRequest(t)
      PROVE  OwnerMeantIt
  BY <1>1, ContinueMeant
<1>2. ASSUME NEW t \in Task,
             \/ \E r \in Requests, s \in Service : RequestChange(t, r, s)
             \/ \E r \in Requests : RequestRemoval(t, r)
             \/ Abandon(t)
      PROVE  UNCHANGED <<tables, flows>>
  BY <1>2 DEF RequestChange, RequestRemoval, Abandon
<1>3. ASSUME NEW t \in Task, NEW st \in State, RedeemState(t, st)
      PROVE  UNCHANGED tables /\ DOMAIN flows' \subseteq DOMAIN flows
  BY <1>3 DEF RedeemState
<1>4. CASE \/ \E c \in Choices : Choose(c)
           \/ Delivered \/ CreateProfile \/ OpenSession \/ Unlock \/ Disable
  <2>1. UNCHANGED <<connections, secrets, flows>>
    BY <1>4 DEF Choose, Delivered, CreateProfile, OpenSession, Unlock, Disable, tables
  <2> QED
    BY <2>1 DEF Writes
<1>5. CASE DeleteAccount
  BY <1>5 DEF DeleteAccount, OwnerMeantIt
<1>6. ASSUME UNCHANGED tables, DOMAIN flows' \subseteq DOMAIN flows
      PROVE  FALSE
  BY <1>6 DEF tables, Writes
<1> QED
  BY <1>1, <1>2, <1>3, <1>4, <1>5, <1>6 DEF Next

(***************************************************************************)
(* With require_reauth_for_credential_changes on, no request without the   *)
(* password changes a credential or begins a consent, however it is        *)
(* interleaved with others and with the owner's own choices                *)
(* (CredentialChanges._admit, AuthService.confirm_password, OAuth states). *)
(***************************************************************************)
THEOREM NoUnprovenChangeTheorem == Spec => NoUnprovenChange
<1> DEFINE Meant == Writes => OwnerMeantIt
<1>1. ASSUME Settled, [Next]_vars
      PROVE  [Meant]_vars
  BY <1>1, NextMeant DEF Settled
<1>2. NoUnprovenChange <=> [][Meant]_vars
  BY DEF NoUnprovenChange, Writes, OwnerMeantIt
<1> HIDE DEF Meant
<1> QED
  BY <1>1, <1>2, SettledAlways, PTL DEF Spec
=============================================================================
