-------------------------- MODULE RateLimiterProofs --------------------------
(***************************************************************************)
(* Proofs about module RateLimiter, for any scopes, callers, limits and    *)
(* windows, and however long the attempts go on: the history of a caller   *)
(* is bounded, and its verdicts are those of a history that is not.        *)
(***************************************************************************)
EXTENDS RateLimiter, FiniteSetTheorems, SequenceTheorems, WellFoundedInduction, TLAPS

-----------------------------------------------------------------------------
(* Numbers and sequences *)

\* Of some numbers, one is the least.
LEMMA LeastOf ==
    ASSUME NEW T, T \subseteq Nat, T # {}
    PROVE  \E x \in T : \A y \in T : x <= y
<1>1. PICK x \in T : \A y \in T : ~ (<<y, x>> \in OpToRel(<, Nat))
  BY WFMin, NatLessThanWellFounded, Zenon
<1>2. ASSUME NEW y \in T
      PROVE  x <= y
  <2>1. ~ (y < x)
    BY <1>1 DEF OpToRel
  <2> QED
    BY <2>1
<1> QED
  BY <1>2

\* The times from the n-th on, the n-th left out.
LEMMA DropProperties ==
    ASSUME NEW S, NEW s \in Seq(S), NEW n \in 0..Len(s)
    PROVE  LET t == SubSeq(s, n + 1, Len(s)) IN
           /\ t \in Seq(S)
           /\ Len(t) = Len(s) - n
           /\ \A i \in 1 .. Len(t) : t[i] = s[n + i]
<1> DEFINE t == SubSeq(s, n + 1, Len(s))
<1>1. Len(s) \in Nat /\ n \in Nat /\ n <= Len(s)
  BY LenProperties
<1>2. \A i \in (n + 1) .. Len(s) : s[i] \in S
  BY <1>1, ElementOfSeq
<1>3. /\ t \in Seq(S)
      /\ Len(t) = IF n + 1 <= Len(s) THEN Len(s) - (n + 1) + 1 ELSE 0
      /\ \A i \in 1 .. Len(s) - (n + 1) + 1 : t[i] = s[n + 1 + i - 1]
  BY <1>1, <1>2, SubSeqProperties
<1> HIDE DEF t
<1>4. Len(t) = Len(s) - n
  BY <1>1, <1>3
<1>5. ASSUME NEW i \in 1 .. Len(t)
      PROVE  t[i] = s[n + i]
  <2>1. i \in 1 .. Len(s) - (n + 1) + 1 /\ n + 1 + i - 1 = n + i
    BY <1>1, <1>4
  <2> QED
    BY <1>3, <2>1
<1> QED
  BY <1>3, <1>4, <1>5 DEF t

\* _evict_before stops at the first time that is within the window.
LEMMA EvictProperties ==
    ASSUME NEW times \in Seq(Nat), NEW cutoff \in Int
    PROVE  \E e \in 0 .. Len(times) :
              /\ EvictBefore(times, cutoff) = SubSeq(times, e + 1, Len(times))
              /\ \A i \in 1 .. e : times[i] <= cutoff
              /\ e < Len(times) => times[e + 1] > cutoff
<1> DEFINE P(n) == /\ \A i \in 1 .. n : times[i] <= cutoff
                   /\ n < Len(times) => times[n + 1] > cutoff
           T == {i \in 1 .. Len(times) : times[i] > cutoff}
<1>1. Len(times) \in Nat /\ \A i \in 1 .. Len(times) : times[i] \in Nat
  BY LenProperties, ElementOfSeq
<1>2. \E n \in 0 .. Len(times) : P(n)
  <2>1. CASE T = {}
    <3>1. P(Len(times)) /\ Len(times) \in 0 .. Len(times)
      BY <1>1, <2>1
    <3> QED
      BY <3>1
  <2>2. CASE T # {}
    <3>0. T \subseteq Nat
      BY <1>1
    <3>1. PICK x \in T : \A y \in T : x <= y
      <4> HIDE DEF T
      <4> QED
        BY <2>2, <3>0, LeastOf
    <3>2. x - 1 \in 0 .. Len(times) /\ (x - 1) + 1 = x /\ times[x] > cutoff
      BY <1>1
    <3>3. \A i \in 1 .. x - 1 : times[i] <= cutoff
      BY <1>1, <3>1
    <3>4. P(x - 1)
      BY <3>2, <3>3
    <3> QED
      BY <3>2, <3>4
  <2> QED
    BY <2>1, <2>2
<1> DEFINE e == CHOOSE n \in 0 .. Len(times) : P(n)
<1>3. e \in 0 .. Len(times) /\ P(e)
  BY <1>2
<1>4. EvictBefore(times, cutoff) = SubSeq(times, e + 1, Len(times))
  BY DEF EvictBefore
<1> QED
  BY <1>3, <1>4

-----------------------------------------------------------------------------
(* What check records *)

KeyTyped(k) ==
    /\ attempts[k] \in Seq(Nat)
    /\ Len(attempts[k]) \in 1 .. HistoryCap
    /\ \A i \in 1 .. Len(attempts[k]) : attempts[k][i] \in 0 .. now
    /\ \A i \in 1 .. Len(attempts[k]) - 1 : attempts[k][i] <= attempts[k][i + 1]

Typed ==
    /\ now \in Nat
    /\ attempts = [k \in DOMAIN attempts |-> attempts[k]]
    /\ DOMAIN attempts \subseteq Key
    /\ \A k \in DOMAIN attempts : KeyTyped(k)
    /\ answers \in [Key -> Seq(Answer)]

LEMMA TimesTyped ==
    ASSUME Typed, NEW k \in Key
    PROVE  /\ TimesOf(k) \in Seq(Nat)
           /\ Len(TimesOf(k)) \in 0 .. HistoryCap
           /\ \A i \in 1 .. Len(TimesOf(k)) : TimesOf(k)[i] \in 0 .. now
           /\ \A i \in 1 .. Len(TimesOf(k)) - 1 : TimesOf(k)[i] <= TimesOf(k)[i + 1]
<1>1. CASE k \in DOMAIN attempts
  BY <1>1 DEF Typed, KeyTyped, TimesOf
<1>2. CASE k \notin DOMAIN attempts
  <2>1. TimesOf(k) = <<>> /\ 0 \in 0 .. HistoryCap
    BY <1>2, BoundAssumption DEF TimesOf
  <2> QED
    BY <2>1
<1> QED
  BY <1>1, <1>2

LEMMA WindowTyped ==
    ASSUME NEW k \in Key
    PROVE  k[1] \in Scope /\ Window[k[1]] \in Nat \ {0} /\ Limit[k[1]] \in Nat \ {0}
  BY LimitAssumption DEF Key

\* The history with the attempt on its end, less the d oldest: those before the
\* window, and one more where it would be longer than the cap.
LEMMA RecordedProperties ==
    ASSUME Typed, NEW k \in Key
    PROVE  \E e \in 0 .. Len(TimesOf(k)), d \in Nat :
              LET s == TimesOf(k)
                  m == Len(s)
                  r == Recorded(k)
              IN  /\ d = IF m - e + 1 > HistoryCap THEN e + 1 ELSE e
                  /\ \A i \in 1 .. e : s[i] <= now - Window[k[1]]
                  /\ e < m => s[e + 1] > now - Window[k[1]]
                  /\ r \in Seq(Nat)
                  /\ Len(r) = m + 1 - d
                  /\ \A i \in 1 .. Len(r) : r[i] = IF d + i <= m THEN s[d + i] ELSE now
<1> DEFINE s == TimesOf(k)
           m == Len(s)
           cutoff == now - Window[k[1]]
<1>1. s \in Seq(Nat) /\ m \in Nat /\ m <= HistoryCap /\ HistoryCap \in Nat \ {0}
  BY TimesTyped, BoundAssumption
<1>2. cutoff \in Int /\ now \in Nat
  BY WindowTyped DEF Typed
<1> HIDE DEF s, cutoff
<1>3. PICK e \in 0 .. m :
         /\ EvictBefore(s, cutoff) = SubSeq(s, e + 1, m)
         /\ \A i \in 1 .. e : s[i] <= cutoff
         /\ e < m => s[e + 1] > cutoff
  BY <1>1, <1>2, EvictProperties
<1> DEFINE f == EvictBefore(s, cutoff)
           a == Append(f, now)
<1>4. f \in Seq(Nat) /\ Len(f) = m - e /\ \A i \in 1 .. Len(f) : f[i] = s[e + i]
  <2>1. e \in 0 .. Len(s) /\ f = SubSeq(s, e + 1, Len(s))
    BY <1>3
  <2> HIDE DEF f
  <2> DEFINE t == SubSeq(s, e + 1, Len(s))
  <2>2. t \in Seq(Nat) /\ Len(t) = Len(s) - e /\ \A i \in 1 .. Len(t) : t[i] = s[e + i]
    BY <1>1, <2>1, DropProperties
  <2> QED
    BY <2>1, <2>2
<1> HIDE DEF m
<1>5. /\ a \in Seq(Nat) /\ Len(a) = m - e + 1
      /\ \A i \in 1 .. Len(a) : a[i] = IF e + i <= m THEN s[e + i] ELSE now
  <2> HIDE DEF f
  <2>1. /\ a \in Seq(Nat) /\ Len(a) = Len(f) + 1 /\ a[Len(f) + 1] = now
        /\ \A i \in 1 .. Len(f) : a[i] = f[i]
    BY <1>2, <1>4, AppendProperties
  <2> HIDE DEF a
  <2>2. ASSUME NEW i \in 1 .. Len(a)
        PROVE  a[i] = IF e + i <= m THEN s[e + i] ELSE now
    <3>1. CASE i = Len(f) + 1
      BY <1>1, <1>4, <2>1, <3>1
    <3>2. CASE i # Len(f) + 1
      <4>1. i \in 1 .. Len(f) /\ e + i <= m
        BY <1>1, <1>4, <2>1, <3>2
      <4> QED
        BY <1>4, <2>1, <4>1
    <3> QED
      BY <3>1, <3>2
  <2> QED
    BY <1>4, <2>1, <2>2
<1> DEFINE r == Recorded(k)
<1>6. r = IF Len(a) > HistoryCap THEN Tail(a) ELSE a
  BY DEF Recorded, s, cutoff
<1> HIDE DEF r, a, f
<1>7. CASE Len(a) > HistoryCap
  <2>1. a # <<>>
    BY <1>1, <1>5, EmptySeq
  <2>2. /\ r \in Seq(Nat) /\ Len(r) = Len(a) - 1
        /\ \A i \in 1 .. Len(r) : r[i] = a[i + 1]
    BY <1>5, <1>6, <1>7, <2>1, HeadTailProperties
  <2>3. ASSUME NEW i \in 1 .. Len(r)
        PROVE  r[i] = IF (e + 1) + i <= m THEN s[(e + 1) + i] ELSE now
    <3>1. i + 1 \in 1 .. Len(a) /\ e + (i + 1) = (e + 1) + i
      BY <1>1, <1>5, <2>2
    <3> QED
      BY <1>5, <2>2, <3>1
  <2>4. Len(r) = m + 1 - (e + 1) /\ e + 1 \in Nat /\ m - e + 1 > HistoryCap
    BY <1>1, <1>5, <1>7, <2>2
  <2> QED
    BY <1>3, <2>2, <2>3, <2>4 DEF r, s, m, cutoff
<1>8. CASE ~ (Len(a) > HistoryCap)
  <2>1. r = a
    BY <1>6, <1>8
  <2>2. /\ r \in Seq(Nat) /\ Len(r) = m + 1 - e /\ e \in Nat /\ ~ (m - e + 1 > HistoryCap)
        /\ \A i \in 1 .. Len(r) : r[i] = IF e + i <= m THEN s[e + i] ELSE now
    BY <1>1, <1>5, <1>8, <2>1
  <2> QED
    BY <1>3, <2>2 DEF r, s, m, cutoff
<1> QED
  BY <1>7, <1>8

-----------------------------------------------------------------------------
(* The type invariant *)

LEMMA CheckAnswers ==
    ASSUME Typed, NEW k \in Key, Check(k)
    PROVE  LET ok == Len(Recorded(k)) <= Limit[k[1]]
               b  == answers'[k]
               a  == answers[k]
           IN  /\ answers' = [answers EXCEPT ![k] = b]
               /\ a \in Seq(Answer) /\ b \in Seq(Answer) /\ Len(b) = Len(a) + 1
               /\ b[Len(a) + 1] = [at |-> now, allowed |-> ok]
               /\ \A i \in 1 .. Len(a) : b[i] = a[i]
<1> DEFINE x == [at |-> now, allowed |-> Len(Recorded(k)) <= Limit[k[1]]]
           a == answers[k]
<1>1. answers' = [answers EXCEPT ![k] = Append(a, x)]
  BY DEF Check
<1>2. a \in Seq(Answer) /\ x \in Answer
  BY DEF Typed, Answer
<1>3. answers'[k] = Append(a, x)
  BY <1>1 DEF Typed
<1> HIDE DEF a, x
<1>4. /\ Append(a, x) \in Seq(Answer) /\ Len(Append(a, x)) = Len(a) + 1
      /\ Append(a, x)[Len(a) + 1] = x
      /\ \A i \in 1 .. Len(a) : Append(a, x)[i] = a[i]
  BY <1>2, AppendProperties
<1> QED
  BY <1>1, <1>2, <1>3, <1>4 DEF a, x

LEMMA CheckTyped ==
    ASSUME Typed, NEW k \in Key, Check(k)
    PROVE  Typed'
<1> DEFINE r == Recorded(k)
           s == TimesOf(k)
           m == Len(s)
<1>1. /\ attempts' = [j \in DOMAIN attempts \cup {k} |-> IF j = k THEN r ELSE attempts[j]]
      /\ now' = now
  BY DEF Check
<1>2. answers' \in [Key -> Seq(Answer)]
  BY CheckAnswers DEF Typed
<1>3. PICK e \in 0 .. m, d \in Nat :
         /\ d = IF m - e + 1 > HistoryCap THEN e + 1 ELSE e
         /\ r \in Seq(Nat)
         /\ Len(r) = m + 1 - d
         /\ \A i \in 1 .. Len(r) : r[i] = IF d + i <= m THEN s[d + i] ELSE now
  BY RecordedProperties
<1>4. /\ s \in Seq(Nat) /\ m \in 0 .. HistoryCap /\ HistoryCap \in Nat \ {0} /\ now \in Nat
      /\ \A i \in 1 .. m : s[i] \in 0 .. now
      /\ \A i \in 1 .. m - 1 : s[i] <= s[i + 1]
  BY TimesTyped, BoundAssumption DEF Typed
<1> HIDE DEF r, s, m
<1>5. Len(r) \in 1 .. HistoryCap
  BY <1>3, <1>4
<1>6. ASSUME NEW i \in 1 .. Len(r)
      PROVE  r[i] \in 0 .. now
  <2>1. CASE d + i <= m
    <3>1. d + i \in 1 .. m
      BY <1>3, <1>4, <2>1
    <3> QED
      BY <1>3, <1>4, <2>1, <3>1
  <2>2. CASE ~ (d + i <= m)
    BY <1>3, <1>4, <2>2
  <2> QED
    BY <2>1, <2>2
<1>7. ASSUME NEW i \in 1 .. Len(r) - 1
      PROVE  r[i] <= r[i + 1]
  <2>1. i \in 1 .. Len(r) /\ i + 1 \in 1 .. Len(r) /\ d + i \in Nat /\ d + (i + 1) = (d + i) + 1
    BY <1>3, <1>5
  <2>2. CASE d + (i + 1) <= m
    <3>1. r[i] = s[d + i] /\ r[i + 1] = s[(d + i) + 1] /\ d + i \in 1 .. m - 1
      BY <1>3, <1>4, <2>1, <2>2
    <3> QED
      BY <1>4, <3>1
  <2>3. CASE ~ (d + (i + 1) <= m)
    <3>1. r[i + 1] = now
      BY <1>3, <2>1, <2>3
    <3> QED
      BY <1>4, <1>6, <2>1, <3>1
  <2> QED
    BY <2>2, <2>3
<1>8. ASSUME NEW j \in DOMAIN attempts'
      PROVE  KeyTyped(j)'
  <2>1. CASE j = k
    <3>1. attempts'[j] = r
      BY <1>1, <2>1
    <3> QED
      BY <1>1, <1>3, <1>5, <1>6, <1>7, <3>1 DEF KeyTyped
  <2>2. CASE j # k
    <3>1. j \in DOMAIN attempts /\ attempts'[j] = attempts[j]
      BY <1>1, <2>2
    <3> QED
      BY <1>1, <3>1 DEF KeyTyped, Typed
  <2> QED
    BY <2>1, <2>2
<1>9. now' \in Nat /\ DOMAIN attempts' \subseteq Key
      /\ attempts' = [j \in DOMAIN attempts' |-> attempts'[j]]
  BY <1>1 DEF Typed
<1> QED
  BY <1>2, <1>8, <1>9 DEF Typed

\* Keys that are forgotten change nothing about the others.
LEMMA ForgetTyped ==
    ASSUME Typed, NEW gone, attempts' = [k \in DOMAIN attempts \ gone |-> attempts[k]],
           now' = now, answers' \in [Key -> Seq(Answer)]
    PROVE  Typed'
<1>1. \A k \in DOMAIN attempts' : k \in DOMAIN attempts /\ attempts'[k] = attempts[k]
  OBVIOUS
<1>2. ASSUME NEW k \in DOMAIN attempts'
      PROVE  KeyTyped(k)'
  BY <1>1 DEF Typed, KeyTyped
<1>3. attempts' = [k \in DOMAIN attempts' |-> attempts'[k]]
  OBVIOUS
<1> QED
  BY <1>1, <1>2, <1>3 DEF Typed

LEMMA TickTyped ==
    ASSUME Typed, Tick
    PROVE  Typed'
<1>1. now \in Nat /\ now' = now + 1 /\ UNCHANGED <<attempts, answers>>
  BY DEF Tick, Typed
<1>2. ASSUME NEW k \in DOMAIN attempts'
      PROVE  KeyTyped(k)'
  <2>1. KeyTyped(k)
    BY <1>1 DEF Typed
  <2>2. 0 .. now \subseteq 0 .. now'
    BY <1>1
  <2> QED
    BY <1>1, <2>1, <2>2 DEF KeyTyped
<1> QED
  BY <1>1, <1>2 DEF Typed

LEMMA NextTyped ==
    ASSUME Typed, [Next]_vars
    PROVE  Typed'
<1>1. ASSUME NEW k \in Key, Check(k)
      PROVE  Typed'
  BY <1>1, CheckTyped
<1>2. ASSUME NEW k \in Key, Reset(k)
      PROVE  Typed'
  <2>1. answers' \in [Key -> Seq(Answer)]
    BY <1>2, EmptySeq DEF Reset, Typed
  <2> QED
    BY <1>2, <2>1, ForgetTyped DEF Reset
<1>3. CASE Sweep
  BY <1>3, ForgetTyped DEF Sweep, Typed
<1>4. CASE Tick
  BY <1>4, TickTyped
<1>5. CASE UNCHANGED vars
  BY <1>5 DEF vars, Typed, KeyTyped
<1> QED
  BY <1>1, <1>2, <1>3, <1>4, <1>5 DEF Next

LEMMA TypedAlways == Spec => []Typed
<1>1. Init => Typed
  BY EmptySeq DEF Init, Typed
<1> QED
  BY <1>1, NextTyped, PTL DEF Spec

(***************************************************************************)
(* What _record keeps of a caller is in order, of the past and within      *)
(* MAX_TIMESTAMPS_PER_CALLER, however many attempts there are.             *)
(***************************************************************************)
THEOREM TypeCorrect == Spec => []TypeOK
<1>1. Typed => TypeOK
  BY DEF Typed, KeyTyped, TypeOK
<1> QED
  BY <1>1, TypedAlways, PTL

-----------------------------------------------------------------------------
(* What is recorded, against what was asked *)

\* The times that are kept are the latest of the answers', and those that are
\* not are out of the window, unless the history is as long as it may get.
Recalled(k) ==
    LET a == answers[k]
        s == TimesOf(k)
        n == Len(a)
        m == Len(s)
    IN  /\ m <= n
        /\ \A i \in 1 .. m : s[i] = a[n - m + i].at
        /\ \/ \A i \in 1 .. n - m : a[i].at <= now - Window[k[1]]
           \/ m = HistoryCap

Ordered(k) ==
    \A i, j \in 1 .. Len(answers[k]) :
        i <= j => answers[k][i].at <= answers[k][j].at /\ answers[k][j].at <= now

Exact(k) ==
    \A i \in 1 .. Len(answers[k]) :
        answers[k][i].allowed <=> Cardinality(InWindow(k, i)) <= Limit[k[1]]

Remembered(k) == Recalled(k) /\ Ordered(k) /\ Exact(k)

\* The times and the lengths that the arithmetic below is about.
LEMMA AnswersTyped ==
    ASSUME Typed, NEW k \in Key
    PROVE  /\ answers[k] \in Seq(Answer) /\ Len(answers[k]) \in Nat
           /\ \A i \in 1 .. Len(answers[k]) : answers[k][i].at \in Nat
           /\ now \in Nat /\ TimesOf(k) \in Seq(Nat) /\ Len(TimesOf(k)) \in Nat
           /\ Len(TimesOf(k)) <= HistoryCap /\ HistoryCap \in Nat \ {0}
           /\ now - Window[k[1]] \in Int /\ now - Window[k[1]] < now
<1>1. answers[k] \in Seq(Answer)
  BY DEF Typed
<1>2. \A i \in 1 .. Len(answers[k]) : answers[k][i] \in Answer
  BY <1>1, ElementOfSeq
<1>3. now \in Nat
  BY DEF Typed
<1>4. now - Window[k[1]] \in Int /\ now - Window[k[1]] < now
  BY <1>3, WindowTyped
<1> QED
  BY <1>1, <1>2, <1>3, <1>4, LenProperties, TimesTyped, BoundAssumption DEF Answer

\* An attempt: what the history says is what all the answers say.
LEMMA CheckRemembered ==
    ASSUME Typed, Ample, NEW k \in Key, Remembered(k), Check(k)
    PROVE  Remembered(k)'
<1> DEFINE a == answers[k]
           b == answers'[k]
           n == Len(a)
           s == TimesOf(k)
           m == Len(s)
           r == Recorded(k)
           W == now - Window[k[1]]
           L == Limit[k[1]]
<1>1. /\ b \in Seq(Answer) /\ Len(b) = n + 1
      /\ b[n + 1].at = now /\ b[n + 1].allowed = (Len(r) <= L)
      /\ \A i \in 1 .. n : b[i] = a[i]
  <2>1. b[n + 1] = [at |-> now, allowed |-> Len(r) <= L]
    BY CheckAnswers
  <2>2. b \in Seq(Answer) /\ Len(b) = n + 1 /\ \A i \in 1 .. n : b[i] = a[i]
    BY CheckAnswers
  <2> HIDE DEF a, b, n, r, L
  <2> QED
    BY <2>1, <2>2
<1>2. PICK e \in 0 .. m, d \in Nat :
         /\ d = IF m - e + 1 > HistoryCap THEN e + 1 ELSE e
         /\ \A i \in 1 .. e : s[i] <= W
         /\ e < m => s[e + 1] > W
         /\ Len(r) = m + 1 - d
         /\ \A i \in 1 .. Len(r) : r[i] = IF d + i <= m THEN s[d + i] ELSE now
  BY RecordedProperties
<1>3. /\ n \in Nat /\ m \in Nat /\ now \in Nat /\ W \in Int /\ W < now
      /\ m <= HistoryCap /\ HistoryCap \in Nat \ {0}
      /\ \A i \in 1 .. n : a[i].at \in Nat
  BY AnswersTyped
<1>4. L \in Nat /\ L < HistoryCap
  BY WindowTyped DEF Ample
<1>5. now' = now /\ TimesOf(k)' = r
  BY DEF Check, TimesOf
<1>6. /\ m <= n
      /\ \A i \in 1 .. m : s[i] = a[n - m + i].at
      /\ (\A i \in 1 .. n - m : a[i].at <= W) \/ m = HistoryCap
      /\ \A i, j \in 1 .. n : i <= j => a[i].at <= a[j].at /\ a[j].at <= now
      /\ \A i \in 1 .. n : a[i].allowed <=> Cardinality(InWindow(k, i)) <= L
  BY DEF Remembered, Recalled, Ordered, Exact
<1>7. \A i : InWindow(k, i)' = {j \in 1 .. i : b[j].at > b[i].at - Window[k[1]]}
  BY DEF InWindow
<1>8. ASSUME NEW i \in 1 .. n
      PROVE  InWindow(k, i)' = InWindow(k, i)
  <2>1. 1 .. i \subseteq 1 .. n /\ i \in 1 .. i
    BY <1>3
  <2>2. \A j \in 1 .. i : b[j] = a[j]
    BY <1>1, <2>1
  <2>4. InWindow(k, i) = {j \in 1 .. i : a[j].at > a[i].at - Window[k[1]]}
    BY DEF InWindow
  <2> HIDE DEF a, b
  <2> QED
    BY <1>7, <2>1, <2>2, <2>4
<1> HIDE DEF a, b, n, s, m, r, W, L
<1>9. \A i, j \in 1 .. n + 1 : i <= j => b[i].at <= b[j].at /\ b[j].at <= now
  <2>1. ASSUME NEW i \in 1 .. n + 1, NEW j \in 1 .. n + 1, i <= j
        PROVE  b[i].at <= b[j].at /\ b[j].at <= now
    <3>1. CASE j = n + 1 /\ i = n + 1
      BY <1>1, <1>3, <3>1
    <3>2. CASE j = n + 1 /\ i # n + 1
      <4>1. i \in 1 .. n /\ a[i].at <= now
        BY <1>3, <1>6, <3>2
      <4> QED
        BY <1>1, <1>3, <3>2, <4>1
    <3>3. CASE j # n + 1
      <4>1. i \in 1 .. n /\ j \in 1 .. n
        BY <1>3, <2>1, <3>3
      <4> QED
        BY <1>1, <1>6, <2>1, <4>1
    <3> QED
      BY <3>1, <3>2, <3>3
  <2> QED
    BY <2>1
<1> DEFINE f == n - m + e       \* how many of the answers are before what is left
<1>10. f \in 0 .. n /\ f + m - e = n /\ d \in {e, e + 1} /\ e \in 0 .. m
  <2>1. d \in {e, e + 1} /\ e \in 0 .. m
    BY <1>2
  <2>2. f \in 0 .. n /\ f + m - e = n
    BY <1>3, <1>6, <2>1
  <2> QED
    BY <2>1, <2>2
<1>11. \A i \in 1 .. Len(r) : r[i] = b[n + 1 - Len(r) + i].at
  <2>1. ASSUME NEW i \in 1 .. Len(r)
        PROVE  r[i] = b[n + 1 - Len(r) + i].at
    <3>1. n + 1 - Len(r) + i = n - m + (d + i)
      BY <1>2, <1>3
    <3>2. CASE d + i <= m
      <4>1. d + i \in 1 .. m /\ n - m + (d + i) \in 1 .. n
        <5>1. d + i \in 1 .. m
          BY <1>2, <1>3, <1>10, <3>2
        <5> QED
          BY <1>3, <1>6, <5>1
      <4> QED
        BY <1>1, <1>2, <1>6, <3>1, <3>2, <4>1
    <3>3. CASE ~ (d + i <= m)
      <4>1. d + i = m + 1 /\ n - m + (d + i) = n + 1
        BY <1>2, <1>3, <3>3
      <4>2. r[i] = now
        BY <1>2, <3>3
      <4> QED
        BY <1>1, <3>1, <4>1, <4>2
    <3> QED
      BY <3>2, <3>3
  <2> QED
    BY <2>1
<1>12. ASSUME NEW j \in f + 1 .. n + 1
       PROVE  j \in 1 .. n + 1 /\ b[j].at > W
  <2>1. j \in 1 .. n + 1
    BY <1>3, <1>10
  <2>2. CASE j = n + 1
    BY <1>1, <1>3, <2>2
  <2>3. CASE j # n + 1
    <3>1. j \in 1 .. n /\ f + 1 \in 1 .. n /\ f + 1 <= j
      BY <1>3, <1>10, <2>3
    <3>2. e < m /\ e + 1 \in 1 .. m /\ n - m + (e + 1) = f + 1
      BY <1>3, <1>10, <3>1
    <3>3. a[f + 1].at > W
      BY <1>2, <1>6, <3>2
    <3>4. a[f + 1].at <= a[j].at
      BY <1>6, <3>1
    <3> QED
      BY <1>1, <1>3, <2>1, <3>1, <3>3, <3>4
  <2> QED
    BY <2>2, <2>3
<1>13. (\A j \in 1 .. f : b[j].at <= W) \/ (m = HistoryCap /\ e = 0)
  <2>1. CASE e = 0
    <3>1. f = n - m
      BY <1>3, <2>1
    <3>2. \A j \in 1 .. n - m : j \in 1 .. n
      BY <1>3, <1>6
    <3> QED
      BY <1>1, <1>6, <2>1, <3>1, <3>2
  <2>2. CASE e # 0
    <3>1. e \in 1 .. e /\ e \in 1 .. m /\ n - m + e = f /\ f \in 1 .. n
      BY <1>3, <1>6, <1>10, <2>2
    <3>2. a[f].at <= W
      BY <1>2, <1>6, <3>1
    <3>3. ASSUME NEW j \in 1 .. f
          PROVE  b[j].at <= W
      <4>1. j \in 1 .. n /\ j <= f
        BY <1>3, <3>1
      <4> QED
        <5>1. a[j].at <= a[f].at /\ a[j].at \in Nat /\ a[f].at \in Nat
          BY <1>3, <1>6, <3>1, <4>1
        <5>2. b[j].at = a[j].at
          BY <1>1, <4>1
        <5> QED
          BY <1>3, <3>2, <5>1, <5>2
    <3> QED
      BY <3>3
  <2> QED
    BY <2>1, <2>2
<1>14. Recalled(k)'
  <2>1. Len(r) <= n + 1
    BY <1>2, <1>3, <1>6
  <2>2. (\A i \in 1 .. (n + 1) - Len(r) : b[i].at <= W) \/ Len(r) = HistoryCap
    <3>1. CASE m - e + 1 > HistoryCap
      <4>1. d = e + 1 /\ e = 0 /\ m = HistoryCap
        BY <1>2, <1>3, <1>10, <3>1
      <4> QED
        BY <1>2, <1>3, <4>1
    <3>2. CASE ~ (m - e + 1 > HistoryCap)
      <4>1. (n + 1) - Len(r) = f /\ ~ (m = HistoryCap /\ e = 0)
        BY <1>2, <1>3, <1>10, <3>2
      <4> QED
        BY <1>13, <4>1
    <3> QED
      BY <3>1, <3>2
  <2>3. /\ Len(b) = n + 1 /\ Len(r) <= Len(b)
        /\ \A i \in 1 .. Len(r) : r[i] = b[Len(b) - Len(r) + i].at
        /\ (\A i \in 1 .. Len(b) - Len(r) : b[i].at <= W) \/ Len(r) = HistoryCap
    <3>1. Len(b) = n + 1
      BY <1>1
    <3>2. ASSUME NEW i \in 1 .. Len(r)
          PROVE  r[i] = b[Len(b) - Len(r) + i].at
      <4>1. r[i] = b[n + 1 - Len(r) + i].at
        BY <1>11
      <4>2. Len(b) - Len(r) + i = n + 1 - Len(r) + i
        BY <1>2, <1>3, <3>1
      <4> QED
        BY <4>1, <4>2
    <3>3. (\A i \in 1 .. Len(b) - Len(r) : b[i].at <= W) \/ Len(r) = HistoryCap
      BY <2>2, <3>1
    <3> QED
      BY <2>1, <3>1, <3>2, <3>3
  <2> QED
    BY <1>5, <2>3 DEF Recalled, b, W
<1>15. Ordered(k)'
  BY <1>1, <1>5, <1>9 DEF Ordered, b
<1>16. (Len(r) <= L) <=> Cardinality({j \in 1 .. n + 1 : b[j].at > W}) <= L
  <2> DEFINE X == {j \in 1 .. n + 1 : b[j].at > W}
             Y == f + 1 .. n + 1
  <2>1. Y \subseteq X
    BY <1>12
  <2>2. Cardinality(Y) = m - e + 1
    <3>1. f + 1 \in Int /\ n + 1 \in Int /\ ~ (f + 1 > n + 1) /\ (n + 1) - (f + 1) + 1 = m - e + 1
      BY <1>3, <1>10
    <3> QED
      BY <3>1, FS_Interval
  <2>3. IsFiniteSet(X)
    <3>1. IsFiniteSet(1 .. n + 1)
      BY <1>3, FS_Interval
    <3> QED
      BY <3>1, FS_Subset
  <2>4. Cardinality(X) \in Nat /\ Cardinality(Y) <= Cardinality(X)
    BY <2>1, <2>3, FS_CardinalityType, FS_Subset
  <2>5. CASE m - e + 1 > HistoryCap
    <3>1. Len(r) = m - e /\ m - e >= HistoryCap
      BY <1>2, <1>3, <1>10, <2>5
    <3>2. ~ (Len(r) <= L)
      BY <1>3, <1>4, <1>10, <3>1
    <3>3. ~ (Cardinality(X) <= L)
      BY <1>3, <1>4, <1>10, <2>2, <2>4, <2>5
    <3> QED
      BY <3>2, <3>3
  <2>6. CASE ~ (m - e + 1 > HistoryCap)
    <3>1. Len(r) = m - e + 1 /\ ~ (m = HistoryCap /\ e = 0)
      BY <1>2, <1>3, <1>10, <2>6
    <3>2. X \subseteq Y
      <4>1. ASSUME NEW j \in 1 .. n + 1, b[j].at > W
            PROVE  j \in f + 1 .. n + 1
        <5>1. ~ (b[j].at <= W)
          <6>0. j \in 1 .. Len(b)
            BY <1>1
          <6>1. b[j] \in Answer
            BY <1>1, <6>0, ElementOfSeq
          <6>2. b[j].at \in Nat
            BY <6>1 DEF Answer
          <6> QED
            BY <1>3, <4>1, <6>2
        <5>2. ~ (j \in 1 .. f)
          BY <1>13, <3>1, <5>1
        <5> QED
          BY <1>10, <5>2
      <4> QED
        BY <4>1
    <3>3. Cardinality(X) = Len(r)
      <4>1. X = Y
        BY <2>1, <3>2
      <4> QED
        BY <2>2, <3>1, <4>1
    <3> QED
      BY <3>3
  <2> QED
    BY <2>5, <2>6
<1>17. Exact(k)'
  <2> SUFFICES ASSUME NEW i \in 1 .. n + 1
               PROVE  b[i].allowed <=> Cardinality(InWindow(k, i)') <= L
    BY <1>1 DEF Exact, b, L
  <2>1. CASE i = n + 1
    <3>1. b[i].allowed = (Len(r) <= L)
      BY <1>1, <2>1
    <3>2. InWindow(k, i)' = {j \in 1 .. n + 1 : b[j].at > W}
      BY <1>1, <1>7, <2>1 DEF W
    <3> QED
      BY <1>16, <3>1, <3>2, Zenon
  <2>2. CASE i # n + 1
    <3>1. i \in 1 .. n
      BY <1>3, <2>2
    <3> QED
      BY <1>1, <1>6, <1>8, <3>1
  <2> QED
    BY <2>1, <2>2
<1> QED
  BY <1>14, <1>15, <1>17 DEF Remembered

\* Another key, or no key at all, and time that does not go back.
LEMMA KeptRemembered ==
    ASSUME Typed, NEW k \in Key, Remembered(k), now' \in Nat, now <= now',
           TimesOf(k)' = TimesOf(k), answers'[k] = answers[k]
    PROVE  Remembered(k)'
<1> DEFINE a == answers[k]
           n == Len(a)
           m == Len(TimesOf(k))
           w == Window[k[1]]
<1>1. /\ n \in Nat /\ m \in Nat /\ now \in Nat /\ now - w \in Int
      /\ \A i \in 1 .. n : a[i].at \in Nat
  BY AnswersTyped
<1>2. now' - w \in Int /\ now - w <= now' - w
  BY <1>1, WindowTyped
<1>3. /\ m <= n
      /\ (\A i \in 1 .. n - m : a[i].at <= now - w) \/ m = HistoryCap
      /\ \A i, j \in 1 .. n : i <= j => a[i].at <= a[j].at /\ a[j].at <= now
  BY DEF Remembered, Recalled, Ordered
<1>4. Exact(k)'
  <2>1. \A i : InWindow(k, i)' = InWindow(k, i)
    BY DEF InWindow
  <2> QED
    BY <2>1 DEF Remembered, Exact
<1> HIDE DEF a, n, m, w
<1>5. (\A i \in 1 .. n - m : a[i].at <= now' - w) \/ m = HistoryCap
  <2>1. ASSUME NEW i \in 1 .. n - m, a[i].at <= now - w
        PROVE  a[i].at <= now' - w
    <3>1. i \in 1 .. n
      BY <1>1, <1>3
    <3> QED
      BY <1>1, <1>2, <2>1, <3>1
  <2> QED
    BY <1>3, <2>1
<1>6. \A i, j \in 1 .. n : i <= j => a[i].at <= a[j].at /\ a[j].at <= now'
  BY <1>1, <1>3
<1>7. Recalled(k)'
  BY <1>5 DEF Remembered, Recalled, a, n, m, w
<1>8. Ordered(k)'
  BY <1>6 DEF Ordered, a, n
<1> QED
  BY <1>4, <1>7, <1>8 DEF Remembered

\* The sweep takes what nobody's window reaches any more.
LEMMA SweepRemembered ==
    ASSUME Typed, Ample, NEW k \in Key, Remembered(k), k \in Doomed, Sweep
    PROVE  Remembered(k)'
<1> DEFINE a == answers[k]
           n == Len(a)
           s == attempts[k]
           m == Len(s)
           w == Window[k[1]]
<1>1. w <= WidestWindow /\ w \in Nat /\ WidestWindow \in Nat
  <2>1. PICK x \in SweptScope : \A y \in Scope : Window[y] <= Window[x]
    BY DEF Ample
  <2>2. /\ WidestWindow \in {Window[y] : y \in SweptScope}
        /\ \A y \in SweptScope : Window[y] <= WidestWindow
    <3>1. \E v \in {Window[y] : y \in SweptScope} : \A y \in SweptScope : Window[y] <= v
      BY <2>1, ScopeAssumption
    <3> QED
      BY <3>1 DEF WidestWindow
  <2>3. Window[k[1]] <= Window[x] /\ Window[x] <= WidestWindow
    BY <2>1, <2>2, WindowTyped
  <2>4. Window[x] \in Nat /\ WidestWindow \in Nat
    BY <2>2, ScopeAssumption, LimitAssumption
  <2> QED
    BY <2>3, <2>4, WindowTyped
<1>2. /\ k \in DOMAIN attempts /\ s[m] <= now - WidestWindow
      /\ k \notin DOMAIN attempts' /\ UNCHANGED <<now, answers>>
  BY DEF Doomed, Sweep
<1>3. TimesOf(k) = s /\ TimesOf(k)' = <<>>
  BY <1>2 DEF TimesOf
<1>4. /\ n \in Nat /\ m \in Nat /\ now \in Nat /\ now - w \in Int
      /\ \A i \in 1 .. n : a[i].at \in Nat
      /\ m >= 1
  <2>1. Len(attempts[k]) \in 1 .. HistoryCap
    BY <1>2 DEF Typed, KeyTyped
  <2>2. /\ n \in Nat /\ m \in Nat /\ now \in Nat /\ now - w \in Int
        /\ \A i \in 1 .. n : a[i].at \in Nat
    BY <1>3, AnswersTyped
  <2> QED
    BY <2>1, <2>2
<1>5. /\ m <= n
      /\ \A i \in 1 .. m : s[i] = a[n - m + i].at
      /\ \A i, j \in 1 .. n : i <= j => a[i].at <= a[j].at /\ a[j].at <= now
  BY <1>3 DEF Remembered, Recalled, Ordered
<1>6. Exact(k)' /\ Ordered(k)'
  <2>1. \A i : InWindow(k, i)' = InWindow(k, i)
    BY <1>2 DEF InWindow
  <2> QED
    BY <1>2, <2>1 DEF Remembered, Exact, Ordered
<1> HIDE DEF a, n, s, m, w
<1>7. \A i \in 1 .. n : a[i].at <= now - w
  <2>1. m \in 1 .. m /\ n - m + m = n /\ n \in 1 .. n
    BY <1>4, <1>5
  <2>2. s[m] = a[n].at
    BY <1>5, <2>1
  <2>3. ASSUME NEW i \in 1 .. n
        PROVE  a[i].at <= now - w
    <3>1. a[i].at <= a[n].at /\ a[i].at \in Nat /\ a[n].at \in Nat
      BY <1>4, <1>5, <2>1
    <3>2. a[n].at <= now - WidestWindow
      BY <1>2, <2>2
    <3> QED
      BY <1>1, <1>4, <3>1, <3>2
  <2> QED
    BY <2>3
<1>8. Recalled(k)'
  <2>1. Len(TimesOf(k)') = 0
    BY <1>3
  <2>2. answers'[k] = a /\ now' = now
    BY <1>2 DEF a
  <2>3. n - 0 = n /\ 0 <= n
    BY <1>4
  <2> QED
    BY <1>7, <2>1, <2>2, <2>3 DEF Recalled, a, n, w
<1> QED
  BY <1>6, <1>8 DEF Remembered

Exactly == Typed /\ \A k \in Key : Remembered(k)

LEMMA NoAnswersRemembered ==
    ASSUME NEW k \in Key, answers'[k] = <<>>, TimesOf(k)' = <<>>
    PROVE  Remembered(k)'
  BY DEF Remembered, Recalled, Ordered, Exact

LEMMA NextRemembered ==
    ASSUME Exactly, Ample, [Next]_vars, NEW j \in Key
    PROVE  Remembered(j)'
<1>1. Typed /\ Remembered(j) /\ now \in Nat /\ now <= now
  BY DEF Exactly, Typed
<1>2. ASSUME NEW k \in Key, Check(k)
      PROVE  Remembered(j)'
  <2>1. CASE k = j
    BY <1>1, <1>2, <2>1, CheckRemembered
  <2>2. CASE k # j
    <3>1. TimesOf(j)' = TimesOf(j)
      BY <1>2, <2>2 DEF Check, TimesOf
    <3>2. answers'[j] = answers[j] /\ now' = now
      BY <1>1, <1>2, <2>2 DEF Check, Typed
    <3> QED
      BY <1>1, <3>1, <3>2, KeptRemembered
  <2> QED
    BY <2>1, <2>2
<1>3. ASSUME NEW k \in Key, Reset(k)
      PROVE  Remembered(j)'
  <2>1. CASE k = j
    <3>1. answers'[j] = <<>>
      BY <1>1, <1>3, <2>1 DEF Reset, Typed
    <3>2. TimesOf(j)' = <<>>
      BY <1>3, <2>1 DEF Reset, TimesOf
    <3> QED
      BY <3>1, <3>2, NoAnswersRemembered
  <2>2. CASE k # j
    <3>1. TimesOf(j)' = TimesOf(j)
      BY <1>3, <2>2 DEF Reset, TimesOf
    <3>2. answers'[j] = answers[j] /\ now' = now
      BY <1>1, <1>3, <2>2 DEF Reset, Typed
    <3> QED
      BY <1>1, <3>1, <3>2, KeptRemembered
  <2> QED
    BY <2>1, <2>2
<1>4. CASE Sweep
  <2>1. CASE j \in Doomed
    BY <1>1, <1>4, <2>1, SweepRemembered
  <2>2. CASE j \notin Doomed
    <3>1. TimesOf(j)' = TimesOf(j)
      BY <1>4, <2>2 DEF Sweep, TimesOf
    <3>2. answers'[j] = answers[j] /\ now' = now
      BY <1>4 DEF Sweep
    <3> QED
      BY <1>1, <3>1, <3>2, KeptRemembered
  <2> QED
    BY <2>1, <2>2
<1>5. CASE Tick
  <2>1. TimesOf(j)' = TimesOf(j) /\ answers'[j] = answers[j] /\ now' = now + 1
    BY <1>5 DEF Tick, TimesOf
  <2>2. now' \in Nat /\ now <= now'
    BY <1>1, <2>1
  <2> QED
    BY <1>1, <2>1, <2>2, KeptRemembered
<1>6. CASE UNCHANGED vars
  <2>1. TimesOf(j)' = TimesOf(j) /\ answers'[j] = answers[j] /\ now' = now
    BY <1>6 DEF vars, TimesOf
  <2> QED
    BY <1>1, <2>1, KeptRemembered
<1> QED
  BY <1>2, <1>3, <1>4, <1>5, <1>6 DEF Next

(***************************************************************************)
(* Evicting, capping at MAX_TIMESTAMPS_PER_CALLER, resetting and sweeping  *)
(* never change a verdict of check, for any number of attempts at any      *)
(* times: it is the one of all the attempts since the last reset.  The     *)
(* sweep has to know the widest window and the limits be below the cap, as *)
(* they are with the settings' defaults and nothing enforces.              *)
(***************************************************************************)
THEOREM ExactVerdictsTheorem == ASSUME Ample PROVE Spec => []ExactVerdicts
<1>1. Init => Exactly
  <2> SUFFICES ASSUME Init PROVE Exactly
    OBVIOUS
  <2>1. Typed
    BY EmptySeq DEF Init, Typed
  <2>2. ASSUME NEW k \in Key
        PROVE  Remembered(k)
    <3>1. answers[k] = <<>> /\ TimesOf(k) = <<>>
      BY DEF Init, TimesOf
    <3> QED
      BY <3>1 DEF Remembered, Recalled, Ordered, Exact
  <2> QED
    BY <2>1, <2>2 DEF Exactly
<1>2. Exactly /\ [Next]_vars => Exactly'
  <2> SUFFICES ASSUME Exactly, [Next]_vars PROVE Exactly'
    OBVIOUS
  <2>1. Typed'
    BY NextTyped DEF Exactly
  <2>2. \A k \in Key : Remembered(k)'
    BY NextRemembered
  <2> QED
    BY <2>1, <2>2 DEF Exactly
<1>3. Exactly => ExactVerdicts
  BY DEF Exactly, Remembered, Exact, ExactVerdicts
<1> QED
  BY <1>1, <1>2, <1>3, PTL DEF Spec
=============================================================================
