------------------------------ MODULE Lifecycle ------------------------------
(***************************************************************************)
(* The process around the service: storage/database.py (one connection,    *)
(* one worker thread), storage/migrator.py, the signing key file,          *)
(* notifications/outbox.py, and core/container.py with api/app.py, which   *)
(* start all of them, sweep, and stop them in order.                       *)
(*                                                                         *)
(* A request here is one transaction and one message: what it does is in   *)
(* the other modules.  Startup is synchronous, so nothing runs beside it.  *)
(* From then on there are the event loop, which runs requests, sweeper and *)
(* shutdown between their awaits, the worker thread and the sends.  What   *)
(* is on the disk survives a crash, at any step; nothing else does.        *)
(***************************************************************************)
EXTENDS Integers, Sequences, FiniteSets

CONSTANTS
    Request,        \* requests, each made once
    Migrations,     \* how many migrations the release ships
    Role,           \* BUILTIN_ROLES
    MaxPending,     \* Outbox.MAX_PENDING
    MaxBoots,       \* bound on how often the process is started
    MaxFaults       \* bound on what fails: a start, a transaction, a send, the process

ASSUME LifecycleAssumption ==
    /\ Migrations \in Nat /\ MaxPending \in Nat
    /\ MaxBoots \in Nat /\ MaxFaults \in Nat
    /\ IsFiniteSet(Request)

VARIABLES
    schema,         \* disk: the scripts that have taken effect, in order
    versions,       \* disk: schema_version
    roles,          \* disk: the built-in roles in the roles table
    key,            \* disk: the signing key file: Absent, Partial, or the boot that made it
    written,        \* disk: how often each request's write was committed
    expired,        \* disk: the tables that hold expired rows
    txn,            \* what the open transaction has written
    connection,     \* "none", "open" or "closed"
    worker,         \* whether the executor's thread is there
    queue,          \* callables submitted and not started
    job,            \* the callable the worker runs: its kind, whose it is, how far it is
    phase,          \* where startup, serving or shutdown is
    signed,         \* not in the code: the keys this deployment has signed with
    request,        \* how far each request is
    mail,           \* the message of each request
    enabled,        \* whether the sender goes anywhere
    sweeper,        \* the retention-sweeper task
    boots, faults

disk == <<schema, versions, roles, key, written, expired>>
database == <<txn, connection, worker, queue, job>>
loop == <<request, mail, enabled, sweeper>>
count == <<boots, faults>>
vars == <<disk, database, loop, phase, signed, count>>

Absent == 0
Partial == -1

Table == {"sessions", "grants"}
Everything == 1..Migrations

\* A callable: whose it is.  Requests are themselves, the sweeper is the table.
Migrating == "migration"
Closing == "close"
Running(who, step) == [who |-> who, step |-> step]
NoJob == Running("nobody", "idle")

\* A request is none of the other callables.
ASSUME RequestAssumption == Request \cap (Table \cup {Migrating, Closing, "nobody"}) = {}

Init ==
    /\ schema = <<>> /\ versions = {} /\ roles = {} /\ key = Absent
    /\ written = [r \in Request |-> 0]
    /\ expired = {}
    /\ txn = {} /\ connection = "none" /\ worker = FALSE /\ queue = <<>> /\ job = NoJob
    /\ phase = "down"
    /\ signed = {}
    /\ request = [r \in Request |-> "new"]
    /\ mail = [r \in Request |-> "none"]
    /\ enabled = TRUE
    /\ sweeper = "none"
    /\ boots = 0 /\ faults = 0

Fault == faults < MaxFaults /\ faults' = faults + 1

-----------------------------------------------------------------------------
(* load_settings and Database.__init__ *)

\* load_settings: an unknown variable or a value that a validator rejects.
SettingsRefused ==
    /\ phase = "down" /\ boots < MaxBoots
    /\ Fault
    /\ boots' = boots + 1
    /\ phase' = "refused"
    /\ UNCHANGED <<disk, database, loop, signed>>

\* The thread is made, and on it the connection and its pragmas.
Connect ==
    /\ phase = "down" /\ boots < MaxBoots
    /\ boots' = boots + 1
    /\ phase' = "migrating"
    /\ worker' = TRUE /\ connection' = "open" /\ txn' = {} /\ queue' = <<>> /\ job' = NoJob
    /\ UNCHANGED <<disk, loop, signed, faults>>

\* A startup check refuses the connection: it is closed, the thread given back.
ConnectFails ==
    /\ phase = "down" /\ boots < MaxBoots
    /\ Fault
    /\ boots' = boots + 1
    /\ phase' = "refused"
    /\ worker' = FALSE /\ connection' = "closed" /\ txn' = {} /\ queue' = <<>> /\ job' = NoJob
    /\ UNCHANGED <<disk, loop, signed>>

-----------------------------------------------------------------------------
(* Container.build: migrate, seed_builtin_roles, build_sender, TokenSigner, *)
(* load_providers                                                          *)

Pending == {m \in Everything : m \notin versions}

Lowest(S) == CHOOSE m \in S : \A n \in S : m <= n

\* Mutation of RunScript: executescript commits, as it does without a BEGIN.
RunScriptByItself ==
    /\ phase = "migrating" /\ job = NoJob /\ Pending # {}
    /\ job' = Running(Migrating, "scripted")
    /\ schema' = Append(schema, Lowest(Pending))
    /\ UNCHANGED <<versions, roles, key, written, expired, txn, connection, worker, queue, loop,
                   phase, signed, count>>

\* _apply: the script, in a transaction that it leaves open.
RunScript ==
    /\ phase = "migrating" /\ job = NoJob /\ Pending # {}
    /\ job' = Running(Migrating, "scripted")
    /\ txn' = {Migrating}
    /\ UNCHANGED <<disk, connection, worker, queue, loop, phase, signed, count>>

\* _apply: the version row, and the commit of both.
RecordVersion ==
    /\ phase = "migrating" /\ job.step = "scripted"
    /\ schema' = IF Migrating \in txn THEN Append(schema, Lowest(Pending)) ELSE schema
    /\ versions' = versions \cup {Lowest(Pending)}
    /\ txn' = {} /\ job' = NoJob
    /\ UNCHANGED <<roles, key, written, expired, connection, worker, queue, loop, phase, signed, count>>

Migrated ==
    /\ phase = "migrating" /\ job = NoJob /\ Pending = {}
    /\ phase' = "seeding"
    /\ UNCHANGED <<disk, database, loop, signed, count>>

\* executemany outside a transaction: each role is a commit of its own.
SeedRole(r) ==
    /\ phase = "seeding" /\ r \notin roles
    /\ roles' = roles \cup {r}
    /\ UNCHANGED <<schema, versions, key, written, expired, database, loop, phase, signed, count>>

\* The roles are there; the settings say whether there is anywhere to mail to.
BuildSender ==
    /\ phase = "seeding" /\ roles = Role
    /\ enabled' \in BOOLEAN
    /\ phase' = "signing"
    /\ UNCHANGED <<disk, database, request, mail, sweeper, signed, count>>

\* _load_or_create_key: there is no file, so one is opened and written ...
CreateKey ==
    /\ phase = "signing" /\ key = Absent
    /\ key' = Partial
    /\ phase' = "writing_key"
    /\ UNCHANGED <<schema, versions, roles, written, expired, database, loop, signed, count>>

\* ... and is whole.
WriteKey ==
    /\ phase = "writing_key"
    /\ key' = boots
    /\ phase' = "signing"
    /\ UNCHANGED <<schema, versions, roles, written, expired, database, loop, signed, count>>

KeyIsWhole == key \in 1..MaxBoots

\* Mutation of LoadKey: a key per process.
GenerateKey ==
    /\ phase = "signing" /\ KeyIsWhole
    /\ signed' = signed \cup {boots}
    /\ phase' = "wiring"
    /\ UNCHANGED <<disk, database, loop, count>>

LoadKey ==
    /\ phase = "signing" /\ KeyIsWhole
    /\ signed' = signed \cup {key}
    /\ phase' = "wiring"
    /\ UNCHANGED <<disk, database, loop, count>>

\* The last thing that build reads: from here on it does not fail.
LoadProviders ==
    /\ phase = "wiring"
    /\ phase' = "built"
    /\ UNCHANGED <<disk, database, loop, signed, count>>

StartSweeper ==
    /\ phase = "built"
    /\ sweeper' = "sleeping"
    /\ phase' = "serving"
    /\ UNCHANGED <<disk, database, request, mail, enabled, signed, count>>

\* What the refusal of a start leaves: a rollback, and database.close().
CloseUnstarted ==
    /\ txn' = {} /\ job' = NoJob
    /\ connection' = "closed" /\ worker' = FALSE
    /\ queue' = queue

\* Anything after the open can refuse to start; a key file cut short always does.
Refuse ==
    /\ phase \in {"migrating", "seeding", "signing", "writing_key", "wiring"}
    /\ IF phase = "signing" /\ key = Partial THEN UNCHANGED faults ELSE Fault
    /\ phase' = "refused"
    /\ CloseUnstarted
    /\ UNCHANGED <<disk, loop, signed, boots>>

-----------------------------------------------------------------------------
(* Database.run and transact: a callable is queued, runs on the one thread, *)
(* and its caller hears of it on the event loop                            *)

Submit(who) == queue' = Append(queue, who)

\* Whoever waits on a callable that has not begun takes it back by being
\* cancelled; one that runs is finished regardless.
Withdraw(who) ==
    \/ \E i \in 1..Len(queue) :
          /\ queue[i] = who
          /\ queue' = SubSeq(queue, 1, i - 1) \o SubSeq(queue, i + 1, Len(queue))
    \/ (\A i \in 1..Len(queue) : queue[i] # who) /\ UNCHANGED queue

\* A request comes in, as far as its transaction.
Ask(r) ==
    /\ phase = "serving" /\ request[r] = "new"
    /\ request' = [request EXCEPT ![r] = "waiting"]
    /\ Submit(r)
    /\ UNCHANGED <<disk, txn, connection, worker, job, mail, enabled, sweeper, phase, signed, count>>

\* The client disconnects.
Disconnect(r) ==
    /\ request[r] \in {"waiting", "committed", "rolled_back"}
    /\ phase \in {"serving", "stopping"}
    /\ request' = [request EXCEPT ![r] = "cancelled"]
    /\ Withdraw(r)
    /\ UNCHANGED <<disk, txn, connection, worker, job, mail, enabled, sweeper, phase, signed, count>>

\* _in_transaction: BEGIN IMMEDIATE, and the work.
Begin ==
    /\ worker /\ job = NoJob /\ queue # <<>> /\ Head(queue) # Closing
    /\ job' = Running(Head(queue), "working")
    /\ queue' = Tail(queue)
    /\ txn' = {Head(queue)}
    /\ UNCHANGED <<disk, connection, worker, loop, phase, signed, count>>

\* What the caller finds: a request that is still there, or the sweeper.
Answered(who, outcome) ==
    [r \in Request |-> IF r = who /\ request[r] = "waiting" THEN outcome ELSE request[r]]

Swept(who, next) == IF who \in Table /\ sweeper = who THEN next ELSE sweeper

\* The commit.  A table's sweep is followed by the next one's in sweep_once, the
\* limiter and the flows, which are in memory, and the interval.
Commit ==
    LET who == job.who IN
    /\ job.step = "working"
    /\ written' = [r \in Request |-> IF r \in txn THEN written[r] + 1 ELSE written[r]]
    /\ expired' = expired \ txn
    /\ txn' = {} /\ job' = NoJob
    /\ request' = Answered(who, "committed")
    /\ sweeper' = Swept(who, IF who = "sessions" THEN "between" ELSE "sleeping")
    /\ UNCHANGED <<schema, versions, roles, key, connection, worker, queue, mail, enabled, phase,
                   signed, count>>

\* Mutation of Rollback: what was done is committed all the same.
CommitAnyway ==
    LET who == job.who IN
    /\ job.step = "working"
    /\ Fault
    /\ written' = [r \in Request |-> IF r \in txn THEN written[r] + 1 ELSE written[r]]
    /\ txn' = {} /\ job' = NoJob
    /\ request' = Answered(who, "rolled_back")
    /\ sweeper' = Swept(who, "sleeping")
    /\ UNCHANGED <<schema, versions, roles, key, expired, connection, worker, queue, mail, enabled,
                   phase, signed, boots>>

\* Mutation of Rollback: a failed sweep ends the sweeper.
RollbackEndsSweeper ==
    LET who == job.who IN
    /\ job.step = "working"
    /\ Fault
    /\ txn' = {} /\ job' = NoJob
    /\ request' = Answered(who, "rolled_back")
    /\ sweeper' = Swept(who, "cancelled")
    /\ UNCHANGED <<disk, connection, worker, queue, mail, enabled, phase, signed, boots>>

\* The work raises: rollback, and the exception to whoever waits.  The
\* sweeper survives it and waits for its next turn.
Rollback ==
    LET who == job.who IN
    /\ job.step = "working"
    /\ Fault
    /\ txn' = {} /\ job' = NoJob
    /\ request' = Answered(who, "rolled_back")
    /\ sweeper' = Swept(who, "sleeping")
    /\ UNCHANGED <<disk, connection, worker, queue, mail, enabled, phase, signed, boots>>

-----------------------------------------------------------------------------
(* Outbox *)

Sending == {r \in Request : mail[r] = "sending"}

\* Mutation of Enqueue: the set of pending sends is not bounded.
EnqueueUnbounded(r) == IF enabled THEN "sending" ELSE "dropped"

\* enqueue: whether a task is made of the message.
Enqueue(r) ==
    IF enabled /\ Cardinality(Sending) < MaxPending THEN "sending" ELSE "dropped"

\* The handler goes on from its transaction: it queues its message and answers.
Reply(r) ==
    /\ request[r] = "committed"
    /\ request' = [request EXCEPT ![r] = "answered"]
    /\ mail' = [mail EXCEPT ![r] = Enqueue(r)]
    /\ UNCHANGED <<disk, database, enabled, sweeper, phase, signed, count>>

ReplyProblem(r) ==
    /\ request[r] = "rolled_back"
    /\ request' = [request EXCEPT ![r] = "refused"]
    /\ UNCHANGED <<disk, database, mail, enabled, sweeper, phase, signed, count>>

\* A sender answers; a failure is logged and swallowed.
Deliver(r) ==
    /\ mail[r] = "sending"
    /\ mail' = [mail EXCEPT ![r] = "sent"]
    /\ UNCHANGED <<disk, database, request, enabled, sweeper, phase, signed, count>>

DeliveryFails(r) ==
    /\ mail[r] = "sending"
    /\ Fault
    /\ mail' = [mail EXCEPT ![r] = "failed"]
    /\ UNCHANGED <<disk, database, request, enabled, sweeper, phase, signed, boots>>

-----------------------------------------------------------------------------
(* The sweeper: _sweep_forever, _sweep_guarded, sweep_once *)

\* SWEEP_INTERVAL_SECONDS have passed.
Wake ==
    /\ sweeper = "sleeping" /\ phase \in {"serving", "stopping"}
    /\ sweeper' = "sessions"
    /\ Submit("sessions")
    /\ UNCHANGED <<disk, txn, connection, worker, job, request, mail, enabled, phase, signed, count>>

SweepGrants ==
    /\ sweeper = "between"
    /\ sweeper' = "grants"
    /\ Submit("grants")
    /\ UNCHANGED <<disk, txn, connection, worker, job, request, mail, enabled, phase, signed, count>>

\* Rows expire while the service runs.
Expire(t) ==
    /\ phase = "serving" /\ t \notin expired
    /\ expired' = expired \cup {t}
    /\ UNCHANGED <<schema, versions, roles, key, written, database, loop, phase, signed, count>>

-----------------------------------------------------------------------------
(* Shutdown: the server, then Container.aclose *)

\* The server takes no more requests and waits for those it has.
Stop ==
    /\ phase = "serving"
    /\ phase' = "stopping"
    /\ UNCHANGED <<disk, database, loop, signed, count>>

InFlight == {r \in Request : request[r] \in {"waiting", "committed", "rolled_back"}}

\* Mutation of CancelSweeper: it is left to go on.
LeaveSweeper ==
    /\ phase = "stopping" /\ InFlight = {}
    /\ phase' = "draining"
    /\ UNCHANGED <<disk, database, loop, signed, count>>

\* The sweeper is cancelled where it awaits.
CancelSweeper ==
    /\ phase = "stopping" /\ InFlight = {}
    /\ phase' = "draining"
    /\ sweeper' = "cancelled"
    /\ Withdraw(sweeper)
    /\ UNCHANGED <<disk, txn, connection, worker, job, request, mail, enabled, signed, count>>

\* drain and Outbox.aclose: every send has ended ...
Drained ==
    /\ phase = "draining" /\ Sending = {}
    /\ phase' = "clients"
    /\ UNCHANGED <<disk, database, loop, signed, count>>

\* Mutation of DrainTimesOut: the gather is awaited without a timeout.
DrainHangs ==
    /\ phase = "draining" /\ Sending # {}
    /\ UNCHANGED vars

\* ... or DRAIN_TIMEOUT_SECONDS have passed, which cancels the rest.
DrainTimesOut ==
    /\ phase = "draining" /\ Sending # {}
    /\ mail' = [r \in Request |-> IF r \in Sending THEN "given_up" ELSE mail[r]]
    /\ phase' = "clients"
    /\ UNCHANGED <<disk, database, request, enabled, sweeper, signed, count>>

\* preferences.aclose and tokens.aclose, whether or not they raise, and in
\* Database.aclose the flag and the close, queued like anything else.
CloseClients ==
    /\ phase = "clients"
    /\ phase' = "closing"
    /\ Submit(Closing)
    /\ UNCHANGED <<disk, txn, connection, worker, job, loop, signed, count>>

\* The worker reaches the close; the executor is shut down.
CloseDatabase ==
    /\ worker /\ job = NoJob /\ queue # <<>> /\ Head(queue) = Closing
    /\ connection' = "closed"
    /\ queue' = Tail(queue)
    /\ worker' = FALSE
    /\ phase' = "stopped"
    /\ UNCHANGED <<disk, txn, job, loop, signed, count>>

-----------------------------------------------------------------------------
(* The end of a process *)

\* What was in memory is gone: a request without an answer never gets one.
Gone ==
    /\ phase' = "down"
    /\ txn' = {} /\ connection' = "none" /\ worker' = FALSE /\ queue' = <<>> /\ job' = NoJob
    /\ sweeper' = "none"
    /\ request' = [r \in Request |-> IF r \in InFlight THEN "lost" ELSE request[r]]
    /\ mail' = [r \in Request |-> IF r \in Sending THEN "lost" ELSE mail[r]]
    /\ enabled' = enabled
    /\ UNCHANGED <<disk, signed, boots>>

Exit == phase \in {"refused", "stopped"} /\ Gone /\ UNCHANGED faults

Crash == phase \notin {"down", "refused", "stopped"} /\ Fault /\ Gone

Startup ==
    \/ SettingsRefused \/ Connect \/ ConnectFails \/ RunScript \/ RecordVersion \/ Migrated
    \/ \E r \in Role : SeedRole(r)
    \/ BuildSender \/ CreateKey \/ WriteKey \/ LoadKey \/ LoadProviders \/ StartSweeper \/ Refuse

Work == Begin \/ Commit \/ Rollback \/ CloseDatabase

Serve(r) ==
    Ask(r) \/ Disconnect(r) \/ Reply(r) \/ ReplyProblem(r) \/ Deliver(r) \/ DeliveryFails(r)

Sweep == Wake \/ SweepGrants \/ \E t \in Table : Expire(t)

Shutdown == Stop \/ CancelSweeper \/ Drained \/ DrainTimesOut \/ CloseClients \/ Exit

\* Nothing is started any more.
Over == phase = "down" /\ boots = MaxBoots /\ UNCHANGED vars

Next ==
    Startup \/ Work \/ (\E r \in Request : Serve(r)) \/ Sweep \/ Shutdown \/ Crash \/ Over

(***************************************************************************)
(* The thread runs what is queued, the event loop what is ready, and the   *)
(* sweeper's timer and the drain's go off.  Nothing says that a client     *)
(* calls, that a send ever ends, that the process is stopped or started,   *)
(* or that anything fails; faults are bounded, so in the end they do not.  *)
(***************************************************************************)
Fairness ==
    /\ WF_vars(Begin) /\ WF_vars(Commit \/ Rollback) /\ WF_vars(CloseDatabase)
    /\ \A r \in Request : WF_vars(Reply(r) \/ ReplyProblem(r))
    /\ WF_vars(Wake) /\ WF_vars(SweepGrants)
    /\ WF_vars(CancelSweeper) /\ WF_vars(Drained \/ DrainTimesOut) /\ WF_vars(CloseClients) /\ WF_vars(Exit)

Spec == Init /\ [][Next]_vars /\ Fairness

-----------------------------------------------------------------------------
(* Properties *)

\* Disk, connection, queue and tasks are well formed, and no more sends are
\* in flight than MAX_PENDING ("memory an unauthenticated caller allocates").
TypeOK ==
    /\ schema \in Seq(Everything) /\ versions \subseteq Everything /\ roles \subseteq Role
    /\ key \in {Absent, Partial} \cup 1..MaxBoots
    /\ written \in [Request -> 0..1]
    /\ expired \subseteq Table
    /\ txn \subseteq {Migrating} \cup Request \cup Table
    /\ connection \in {"none", "open", "closed"} /\ worker \in BOOLEAN /\ enabled \in BOOLEAN
    /\ queue \in Seq(Request \cup Table \cup {Closing})
    /\ job \in [who: {Migrating, NoJob.who} \cup Request \cup Table,
                step: {"idle", "scripted", "working"}]
    /\ phase \in {"down", "migrating", "seeding", "signing", "writing_key", "wiring", "built",
                  "refused", "serving", "stopping", "draining", "clients", "closing", "stopped"}
    /\ signed \subseteq 1..MaxBoots
    /\ request \in [Request -> {"new", "waiting", "committed", "rolled_back", "answered",
                                "refused", "cancelled", "lost"}]
    /\ mail \in [Request -> {"none", "sending", "sent", "failed", "given_up", "dropped", "lost"}]
    /\ Cardinality(Sending) <= MaxPending
    /\ sweeper \in {"none", "sleeping", "sessions", "between", "grants", "cancelled"}
    /\ boots \in 0..MaxBoots /\ faults \in 0..MaxFaults

(***************************************************************************)
(* "A migration that fails halfway leaves the schema exactly as it was     *)
(* rather than half-changed with nothing to say so": wherever starts are   *)
(* cut short, the scripts took effect in order, once each, and             *)
(* schema_version names exactly them; a service that serves has them all,  *)
(* and every built-in role.                                                *)
(***************************************************************************)
SchemaIsWhatItSays ==
    /\ schema = [i \in 1..Cardinality(versions) |-> i]
    /\ versions = 1..Cardinality(versions)
    /\ sweeper # "none" => versions = Everything /\ roles = Role

(***************************************************************************)
(* "a credential somebody believes is saved and is not": what a caller was *)
(* told is what is on the disk, through cancellations and crashes.  A      *)
(* write is there once if it was acknowledged, never if it was refused,    *)
(* and at most once otherwise; and between two callables there is no open  *)
(* transaction ("rolling back on anything") for the next to commit.        *)
(***************************************************************************)
AnswersAreTrue ==
    /\ \A r \in Request :
        /\ request[r] \in {"committed", "answered"} => written[r] = 1
        /\ request[r] \in {"new", "rolled_back", "refused"} => written[r] = 0
        /\ written[r] <= 1
    /\ job = NoJob => txn = {}

(***************************************************************************)
(* "Shut everything down in dependency order", the database last: once the *)
(* connection is closed nothing that might still use it is left, neither   *)
(* queued, running, sweeping nor answering, and no send is left behind.  A *)
(* start that is refused keeps neither the connection nor the thread       *)
(* ("must not leave the database it just opened"), and nor does a stop.    *)
(***************************************************************************)
ClosedLast ==
    /\ connection = "closed" =>
        /\ queue = <<>> /\ job = NoJob
        /\ InFlight = {} /\ Sending = {}
        /\ sweeper \in {"none", "cancelled"}
    /\ phase \in {"down", "refused", "stopped"} => connection # "open" /\ ~ worker

(***************************************************************************)
(* "a key that changes on restart invalidates every token in flight":      *)
(* whatever starts were cut short while the file was made, all that served *)
(* signed with one key.                                                    *)
(***************************************************************************)
OneSigningKey == Cardinality(signed) <= 1

(***************************************************************************)
(* "A sweep failure must not kill the sweeper": expired rows go away while *)
(* the service stays up, though sweeps fail.                               *)
(***************************************************************************)
ExpiredRowsGo == \A t \in Table : t \in expired ~> (t \notin expired \/ phase # "serving")

(***************************************************************************)
(* A shutdown that was asked for completes, whatever is in flight and      *)
(* whether or not mail can be delivered ("give up rather than hang").      *)
(***************************************************************************)
ShutdownCompletes == phase = "stopping" ~> phase = "down"
=============================================================================
