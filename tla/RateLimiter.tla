----------------------------- MODULE RateLimiter -----------------------------
(***************************************************************************)
(* accounts/ratelimit.py: a sliding window of attempt times per scope and  *)
(* caller, and the sweep that keeps the map from growing for ever.  Each   *)
(* operation reads the clock and runs its critical section without giving  *)
(* way, so it is one step.  Times are whole seconds of a clock that never  *)
(* goes back.                                                              *)
(***************************************************************************)
EXTENDS Integers, Sequences, FiniteSets

CONSTANTS
    Scope,          \* the endpoints with a budget of their own
    Caller,         \* who is counted: a client, or the hash of an address
    Limit, Window,  \* the settings, per scope
    SweptScope,     \* the scopes whose windows sweep_once takes the widest of
    ResetScope,     \* the scopes a success wipes: login and invite
    HistoryCap,     \* MAX_TIMESTAMPS_PER_CALLER
    MaxTime,        \* bound: the last second at which anybody tries
    MaxAttempts     \* bound on the attempts of a caller between resets

ASSUME ScopeAssumption == SweptScope \subseteq Scope /\ SweptScope # {} /\ ResetScope \subseteq Scope
ASSUME LimitAssumption == Limit \in [Scope -> Nat \ {0}] /\ Window \in [Scope -> Nat \ {0}]
ASSUME BoundAssumption == HistoryCap \in Nat \ {0} /\ MaxTime \in Nat /\ MaxAttempts \in Nat

Key == Scope \X Caller

VARIABLES
    attempts,   \* _attempts: for every tracked key its times, oldest first
    now,        \* Clock.monotonic()
    answers     \* not in the code: what each caller was told since its last reset

vars == <<attempts, now, answers>>

Answer == [at: Nat, allowed: BOOLEAN]

Init ==
    /\ attempts = [k \in {} |-> <<>>]
    /\ now = 0
    /\ answers = [k \in Key |-> <<>>]

-----------------------------------------------------------------------------
TimesOf(k) == IF k \in DOMAIN attempts THEN attempts[k] ELSE <<>>

\* Mutation of EvictBefore: the time on the boundary is kept.
EvictBeforeLate(times, cutoff) ==
    LET n == CHOOSE n \in 0 .. Len(times) :
                /\ \A i \in 1 .. n : times[i] < cutoff
                /\ n < Len(times) => times[n + 1] >= cutoff
    IN  SubSeq(times, n + 1, Len(times))

\* _evict_before: the oldest goes as long as it is past the cutoff.
EvictBefore(times, cutoff) ==
    LET n == CHOOSE n \in 0 .. Len(times) :
                /\ \A i \in 1 .. n : times[i] <= cutoff
                /\ n < Len(times) => times[n + 1] > cutoff
    IN  SubSeq(times, n + 1, Len(times))

\* Mutation of Recorded: the history is not capped.
RecordedUncapped(k) == Append(EvictBefore(TimesOf(k), now - Window[k[1]]), now)

\* A refused attempt is recorded too, and the cap forgets the oldest one.
Recorded(k) ==
    LET times == Append(EvictBefore(TimesOf(k), now - Window[k[1]]), now)
    IN  IF Len(times) > HistoryCap THEN Tail(times) ELSE times

\* check; how long a refused caller is told to wait is left out.
Check(k) ==
    LET times == Recorded(k)
        ok    == Len(times) <= Limit[k[1]]
    IN  /\ now <= MaxTime
        /\ Len(answers[k]) < MaxAttempts
        /\ attempts' = [j \in DOMAIN attempts \cup {k} |->
                           IF j = k THEN times ELSE attempts[j]]
        /\ answers' = [answers EXCEPT ![k] =
                          Append(@, [at |-> now, allowed |-> ok])]
        /\ UNCHANGED now

\* reset, after a success that shows the caller is not guessing.
Reset(k) ==
    /\ k[1] \in ResetScope
    /\ k \in DOMAIN attempts
    /\ attempts' = [j \in DOMAIN attempts \ {k} |-> attempts[j]]
    /\ answers' = [answers EXCEPT ![k] = <<>>]
    /\ UNCHANGED now

\* The window AccountService.sweep_once passes.
WidestWindow ==
    CHOOSE w \in {Window[s] : s \in SweptScope} : \A s \in SweptScope : Window[s] <= w

\* Mutation of Doomed: only keys without any time are forgotten.
DoomedWhenEmpty == {k \in DOMAIN attempts : attempts[k] = <<>>}

Doomed ==
    {k \in DOMAIN attempts : attempts[k][Len(attempts[k])] <= now - WidestWindow}

\* purge_expired
Sweep ==
    /\ attempts' = [k \in DOMAIN attempts \ Doomed |-> attempts[k]]
    /\ UNCHANGED <<now, answers>>

Tick ==
    /\ now < MaxTime + WidestWindow
    /\ now' = now + 1
    /\ UNCHANGED <<attempts, answers>>

Next ==
    \/ \E k \in Key : Check(k) \/ Reset(k)
    \/ Sweep
    \/ Tick

Spec == Init /\ [][Next]_vars

(***************************************************************************)
(* Time passes, and Container._sweep_forever sweeps again and again.       *)
(***************************************************************************)
FairSpec == Spec /\ WF_vars(Tick) /\ WF_vars(Sweep)

-----------------------------------------------------------------------------
(* Properties *)

(***************************************************************************)
(* What is remembered of a caller is in order, from the past and never     *)
(* more than the cap: MAX_TIMESTAMPS_PER_CALLER bounds the memory a        *)
(* stranger can make the process keep.                                     *)
(***************************************************************************)
TypeOK ==
    /\ now \in Nat
    /\ DOMAIN attempts \subseteq Key
    /\ \A k \in DOMAIN attempts :
          /\ Len(attempts[k]) \in 1 .. HistoryCap
          /\ \A i \in 1 .. Len(attempts[k]) : attempts[k][i] \in 0 .. now
          /\ \A i \in 1 .. Len(attempts[k]) - 1 : attempts[k][i] <= attempts[k][i + 1]
    /\ answers \in [Key -> Seq(Answer)]

\* The answers of a key that fall in the window ending with its i-th.
InWindow(k, i) ==
    {j \in 1 .. i : answers[k][j].at > answers[k][i].at - Window[k[1]]}

\* The sweep's window is no shorter than anybody's, and no limit reaches the cap.
Ample ==
    /\ \E w \in SweptScope : \A s \in Scope : Window[s] <= Window[w]
    /\ \A s \in Scope : Limit[s] < HistoryCap

(***************************************************************************)
(* Evicting, capping and sweeping never change a verdict: an attempt is    *)
(* allowed exactly when the attempts of the sliding window that ends with  *)
(* it, refused ones included, number at most the limit.                    *)
(***************************************************************************)
ExactVerdicts ==
    \A k \in Key : \A i \in 1 .. Len(answers[k]) :
        answers[k][i].allowed <=> Cardinality(InWindow(k, i)) <= Limit[k[1]]

(***************************************************************************)
(* Nobody is remembered for ever: a caller that has stopped trying is      *)
(* forgotten, or the map would grow with every name a stranger makes up    *)
(* (AccountService.sweep_once).                                            *)
(***************************************************************************)
CallersAreForgotten ==
    \A k \in Key : k \in DOMAIN attempts ~> k \notin DOMAIN attempts
=============================================================================
