----------------------------- MODULE JwksClient -----------------------------
(***************************************************************************)
(* clients/python/keyring_client/jwks.py: the public key of keyring, as a  *)
(* consuming service caches it, and the rules about when to fetch it       *)
(* again.  Requests queue for an asyncio.Lock that is held across the      *)
(* fetch.  An action runs from one await to the next, except that a        *)
(* request joins the queue and enters the lock in two steps even when it   *)
(* need not wait.                                                          *)
(*                                                                         *)
(* Keyring publishes one key at a time.  Whatever makes a fetch fail, a    *)
(* refused connection, an error page, a malformed document, is one thing   *)
(* to the cache.  Times are whole seconds.                                 *)
(***************************************************************************)
EXTENDS Integers, Sequences

CONSTANTS
    Task,           \* requests in flight at once
    Signing,        \* ids of keys keyring has signed with
    Invented,       \* ids strangers make up
    None,
    CacheSeconds, MinRefetchSeconds, StaleGraceSeconds,
    Timeout,        \* how long a fetch may take in all
    MaxTime         \* bound on the clock

Kid == Signing \cup Invented

ASSUME KidAssumption == Signing # {} /\ None \notin Kid \cup Nat
ASSUME VerdictAssumption == None \notin [kid: Kid, verdict: {"key", "unknown", "unreachable"}]
ASSUME TimeAssumption ==
    /\ CacheSeconds \in Nat /\ MinRefetchSeconds \in Nat
    /\ StaleGraceSeconds \in Nat /\ Timeout \in Nat /\ MaxTime \in Nat
    /\ Timeout < CacheSeconds + StaleGraceSeconds

VARIABLES
    keys, fetchedAt, failedAt, provokedAt,      \* the fields of the client
    lock,       \* who holds the lock, and who waits for it, in order
    task,       \* what each request is about to do
    now,        \* Clock.monotonic()
    published,  \* the key of keyring's document
    gone,       \* not in the code: when each key was last withdrawn
    told,       \* not in the code: what key_for answered in the last step, if it did
    fetches     \* not in the code: when the latest fetches of key_for that ended began

client == <<keys, fetchedAt, failedAt, provokedAt>>
vars == <<client, lock, task, now, published, gone, told, fetches>>

Idle == [at |-> "idle"]

Init ==
    /\ keys = None /\ fetchedAt = 0 /\ failedAt = None /\ provokedAt = None
    /\ lock = <<>>
    /\ task = [t \in Task |-> Idle]
    /\ now = 0
    /\ published \in Signing
    /\ gone = [k \in Signing |-> None]
    /\ told = None
    /\ fetches = <<>>

-----------------------------------------------------------------------------
(* What the client holds *)

\* _fresh_keys
Fresh == keys # None /\ now - fetchedAt < CacheSeconds

\* _usable_stale_keys
UsableStale == keys # None /\ now - fetchedAt < CacheSeconds + StaleGraceSeconds

\* _cached, of a key id or, for a health check, of none
Cached(kid) == Fresh /\ keys = kid

\* Mutation of Recent: the floor is a second longer.
RecentLonger(at) == at # None /\ now - at <= MinRefetchSeconds

\* Within the floor between fetches.
Recent(at) == at # None /\ now - at < MinRefetchSeconds

\* What key_for answers when keyring cannot be reached.
OutageVerdict(kid) == IF UsableStale /\ keys = kid THEN "key" ELSE "unreachable"

-----------------------------------------------------------------------------
(* key_for and healthy *)

Tell(kid, verdict) ==
    told' = IF kid = None THEN None ELSE [kid |-> kid, verdict |-> verdict]

Silent == told' = None

\* The request ends and lets go of the lock.
Finish(t, verdict) ==
    /\ task' = [task EXCEPT ![t] = Idle]
    /\ lock' = Tail(lock)
    /\ Tell(task[t].kid, verdict)

Join(t, kid) ==
    /\ task' = [task EXCEPT ![t] = [at |-> "waiting", kid |-> kid]]
    /\ lock' = Append(lock, t)

KeyFor(t, kid) ==
    /\ task[t] = Idle
    /\ IF Cached(kid)
       THEN Tell(kid, "key") /\ UNCHANGED <<task, lock>>
       ELSE Join(t, kid) /\ Silent
    /\ UNCHANGED <<client, now, published, gone, fetches>>

Healthy(t) ==
    /\ task[t] = Idle
    /\ ~ Fresh
    /\ Join(t, None)
    /\ Silent
    /\ UNCHANGED <<client, now, published, gone, fetches>>

Holds(t) == lock # <<>> /\ Head(lock) = t

\* The cache is asked again; a request that queued is served from it.
EnterCached(t) ==
    /\ Holds(t) /\ task[t].at = "waiting"
    /\ Cached(task[t].kid)
    /\ Finish(t, "key")
    /\ UNCHANGED <<client, now, published, gone, fetches>>

\* Only a key id that a current key set lacks has to claim the window.
Provokes(t) == task[t].kid # None /\ Fresh

\* _claim_refetch_window, when it refuses.
EnterSuppressed(t) ==
    /\ Holds(t) /\ task[t].at = "waiting"
    /\ ~ Cached(task[t].kid)
    /\ Provokes(t) /\ Recent(provokedAt)
    /\ Finish(t, "unknown")
    /\ UNCHANGED <<client, now, published, gone, fetches>>

\* The window is spent before the fetch, whether or not one is made.
Claimed(t) == IF Provokes(t) THEN now ELSE provokedAt

\* _refresh: a fetch that failed within the floor is not repeated.
EnterRefresh(t) ==
    LET kid == task[t].kid IN
    /\ Holds(t) /\ task[t].at = "waiting"
    /\ ~ Cached(kid)
    /\ ~ (Provokes(t) /\ Recent(provokedAt))
    /\ provokedAt' = Claimed(t)
    /\ IF Recent(failedAt)
       THEN Finish(t, OutageVerdict(kid))
       ELSE /\ task' = [task EXCEPT ![t] = [at |-> "asking", kid |-> kid, since |-> now]]
            /\ Silent
            /\ UNCHANGED lock
    /\ UNCHANGED <<keys, fetchedAt, failedAt, now, published, gone, fetches>>

\* Keyring answers with the key it publishes at that moment.
Serve(t) ==
    /\ task[t].at = "asking"
    /\ task' = [task EXCEPT ![t] =
                   [at |-> "answering", kid |-> task[t].kid, since |-> task[t].since,
                    document |-> published]]
    /\ Silent
    /\ UNCHANGED <<client, lock, now, published, gone, fetches>>

\* The fetches key_for made less than the floor before this one began, and it.
Fetched(t) ==
    LET since  == task[t].since
        old(i) == since - fetches[i] >= MinRefetchSeconds
        n      == CHOOSE n \in 0..Len(fetches) :
                     /\ \A i \in 1..n : old(i)
                     /\ n < Len(fetches) => ~ old(n + 1)
    IN  IF task[t].kid = None THEN fetches
        ELSE Append(SubSeq(fetches, n + 1, Len(fetches)), since)

\* Mutation of AgeOf: a document is as old as its arrival.
AgeOfArrival(t) == now

\* Mutation of AgeOf: the time the document runs out is stored.
AgeOfExpiry(t) == task[t].since + CacheSeconds

\* The age of a document is that of the request for it.
AgeOf(t) == task[t].since

\* _fetch
Receive(t) ==
    LET r == task[t] IN
    /\ r.at = "answering"
    /\ keys' = r.document
    /\ fetchedAt' = AgeOf(t)
    /\ failedAt' = None
    /\ Finish(t, IF r.document = r.kid THEN "key" ELSE "unknown")
    /\ fetches' = Fetched(t)
    /\ UNCHANGED <<provokedAt, now, published, gone>>

\* Mutation of Fail: the failure is not remembered.
FailForgotten(t) ==
    /\ task[t].at \in {"asking", "answering"}
    /\ Finish(t, OutageVerdict(task[t].kid))
    /\ fetches' = Fetched(t)
    /\ UNCHANGED <<client, now, published, gone>>

\* The fetch fails or times out.
Fail(t) ==
    /\ task[t].at \in {"asking", "answering"}
    /\ failedAt' = now
    /\ Finish(t, OutageVerdict(task[t].kid))
    /\ fetches' = Fetched(t)
    /\ UNCHANGED <<keys, fetchedAt, provokedAt, now, published, gone>>

\* Mutation of Left: whoever is cancelled leaves the lock taken.
LeftTaken(t) == lock

\* Whoever is cancelled leaves the line, and lets go of the lock with it.
Left(t) ==
    LET n == CHOOSE n \in 1..Len(lock) : lock[n] = t
    IN  [i \in 1..Len(lock) - 1 |-> IF i < n THEN lock[i] ELSE lock[i + 1]]

\* A request is cancelled while it waits or fetches.
Cancel(t) ==
    /\ task[t] # Idle
    /\ task' = [task EXCEPT ![t] = Idle]
    /\ lock' = Left(t)
    /\ Silent
    /\ UNCHANGED <<client, now, published, gone, fetches>>

-----------------------------------------------------------------------------
(* Keyring and the clock *)

\* Keyring starts with another key file, perhaps an earlier one.
Rotate(k) ==
    /\ k # published
    /\ published' = k
    /\ gone' = [gone EXCEPT ![published] = now]
    /\ Silent
    /\ UNCHANGED <<client, lock, task, now, fetches>>

\* No fetch outlives its timeout.
Tick ==
    /\ now < MaxTime
    /\ \A t \in Task :
          task[t].at \in {"asking", "answering"} => now - task[t].since < Timeout
    /\ now' = now + 1
    /\ Silent
    /\ UNCHANGED <<client, lock, task, published, gone, fetches>>

Next ==
    \/ \E t \in Task :
          \/ \E k \in Kid : KeyFor(t, k)
          \/ Healthy(t)
          \/ EnterCached(t) \/ EnterSuppressed(t) \/ EnterRefresh(t)
          \/ Serve(t) \/ Receive(t) \/ Fail(t) \/ Cancel(t)
    \/ \E k \in Signing : Rotate(k)
    \/ Tick

Spec == Init /\ [][Next]_vars

-----------------------------------------------------------------------------
(* Properties *)

TaskState ==
    {Idle}
    \cup [at: {"waiting"}, kid: Kid \cup {None}]
    \cup [at: {"asking"}, kid: Kid \cup {None}, since: 0..now]
    \cup [at: {"answering"}, kid: Kid \cup {None}, since: 0..now, document: Signing]

\* The fields of the client and the requests are well formed, and no time is ahead of the clock.
TypeOK ==
    /\ keys \in Signing \cup {None}
    /\ now \in Nat
    /\ fetchedAt \in 0..now
    /\ failedAt \in (0..now) \cup {None} /\ provokedAt \in (0..now) \cup {None}
    /\ task \in [Task -> TaskState]
    /\ published \in Signing
    /\ gone \in [Signing -> (0..now) \cup {None}]
    /\ told \in {None} \cup [kid: Kid, verdict: {"key", "unknown", "unreachable"}]

(***************************************************************************)
(* "The grace is bounded, so a key keyring has withdrawn does not keep     *)
(* working for ever" (jwks.py): a key that key_for answers with was        *)
(* published less than the cache time and the grace ago, however slow or   *)
(* ill-timed the fetches were.                                             *)
(***************************************************************************)
WithdrawnKeysStopWorking ==
    (told # None /\ told.verdict = "key") =>
        /\ told.kid \in Signing
        /\ \/ told.kid = published
           \/ gone[told.kid] # None
              /\ now - gone[told.kid] < CacheSeconds + StaleGraceSeconds

(***************************************************************************)
(* No crowd of requests, cold, with invented key ids or during an outage,  *)
(* makes key_for fetch more than twice within the floor: once for a cache  *)
(* that ran out and once for a key id it lacked.  A cancelled fetch is not *)
(* counted: the code does not remember it.                                 *)
(***************************************************************************)
FetchesSpaced == Len(fetches) <= 2

\* The settings under which FetchesSpaced is proved: a cache does not run out within the floor.
Unhurried == MinRefetchSeconds <= CacheSeconds

(***************************************************************************)
(* The key keyring signs with is refused as unknown only within the floor  *)
(* of a rotation, or a fetch's length of one, or as long as the fetch that *)
(* claimed the window failed or was cancelled (_claim_refetch_window).     *)
(***************************************************************************)
UnknownKeysAreNew ==
    [][told' = [kid |-> published, verdict |-> "unknown"]
         => \/ \E k \in Signing :
                 /\ gone[k] # None
                 /\ now - gone[k] <= Timeout \/ now - gone[k] < MinRefetchSeconds
            \/ provokedAt # None /\ provokedAt > fetchedAt]_vars

(***************************************************************************)
(* The lock is never lost: whoever holds it or waits for it is a request   *)
(* still in flight, counted once, and only the holder fetches, whatever    *)
(* the order of answers, failures and cancellations.                       *)
(***************************************************************************)
LockIsHeldByTheLiving ==
    /\ \A i, j \in 1..Len(lock) : lock[i] = lock[j] => i = j
    /\ \A t \in Task : task[t] # Idle <=> \E i \in 1..Len(lock) : lock[i] = t
    /\ \A t \in Task : task[t].at \in {"asking", "answering"} => Holds(t)
=============================================================================
