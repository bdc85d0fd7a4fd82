---------------------------- MODULE RebuildManager ----------------------------
(***************************************************************************)
(* The Elixir process that owns a background `kb rebuild --supervised`:    *)
(* one GenServer with a mailbox, the Erlang port and the operating-system  *)
(* process of each worker it launches, the lifetime lock the workers       *)
(* compete for, and callers that request, cancel and await rebuilds.       *)
(*                                                                         *)
(* A worker is named after the call that launched it.                      *)
(***************************************************************************)
EXTENDS Integers, Sequences, FiniteSets

CONSTANTS
    MaxCalls,      \* bound on calls ever made
    KindsOf,       \* which kinds of call the n-th call may be
    MaxCrashes     \* bound on crashes of the manager

Kinds == {"request", "cancel", "await"}

ASSUME ManagerAssumption ==
    /\ MaxCalls \in Nat
    /\ KindsOf \in [1 .. MaxCalls -> SUBSET Kinds]
    /\ MaxCrashes \in Nat

Calls == 1 .. MaxCalls

VARIABLES
    manager,   \* the GenServer's state; its phase is idle, starting, running,
               \* cancelling or unknown
    mailbox,   \* messages it has not handled yet, in order of arrival
    timers,    \* messages Process.send_after will deliver
    worker,    \* progress of each worker process
    told,      \* workers whose stdin has the stop byte or end of file
    pipe,      \* frames a worker wrote and its port has not read yet
    open,      \* workers whose port is open
    lifetime,  \* holder of the lifetime lock, a set of at most one worker
    call,      \* each call: its kind, the worker it was about, its answers
    latest,    \* ghost: the worker this manager launched last
    readied,   \* ghost: workers that emitted READY
    crashes

vars == <<manager, mailbox, timers, worker, told, pipe, open, lifetime, call,
          latest, readied, crashes>>

workerVars == <<worker, told, pipe, open, lifetime, readied>>

Timeouts == {"cancel_timeout", "ready_timeout", "terminal_timeout", "exit_status_missing"}

Alive == {"spawned", "armed", "locked", "replaying", "failing"}

Msg(type, c) == [type |-> type, of |-> c]

\* launcher and canceller are sets of at most one waiting call.
Fresh == [port |-> {}, phase |-> "idle", terminal |-> "none", waiters |-> {},
          canceller |-> {}, launcher |-> {}, grace |-> FALSE]

Init ==
    /\ manager = Fresh
    /\ mailbox = <<>>
    /\ timers = {}
    /\ worker = [c \in Calls |-> "unborn"]
    /\ told = {}
    /\ pipe = [c \in Calls |-> <<>>]
    /\ open = {}
    /\ lifetime = {}
    /\ call = [c \in Calls |-> [kind |-> "none", about |-> {}, answers |-> <<>>]]
    /\ latest = {}
    /\ readied = {}
    /\ crashes = 0

-----------------------------------------------------------------------------
(* Answering and handling.  `replies` maps the calls that are answered to   *)
(* their answers.  The worker a call is about is the one the manager had    *)
(* launched last when it handled the call.                                  *)

To(S, answer) == [c \in S |-> answer]

And(first, second) ==
    [c \in DOMAIN first \cup DOMAIN second |->
        IF c \in DOMAIN first THEN first[c] ELSE second[c]]

Answered(replies) ==
    [c \in Calls |->
        IF c \in DOMAIN replies
        THEN [call[c] EXCEPT !.answers = Append(@, replies[c])]
        ELSE call[c]]

Answer(replies) == call' = Answered(replies)

AnswerCall(c, about, replies) ==
    call' = [Answered(replies) EXCEPT ![c].about = about]

Handles(type, c) == mailbox # <<>> /\ Head(mailbox) = Msg(type, c)

Done == mailbox' = Tail(mailbox)

\* Timers are known by the message they deliver.  Cancelling one does not take
\* back a message that is already in the mailbox.
WaiterTimers == {Msg("terminal_timeout", c) : c \in manager.waiters}
CancelTimers == {Msg("cancel_timeout", c) : c \in manager.canceller}
ReadyTimers == {Msg("ready_timeout", c) : c \in manager.port}
GraceTimers == {Msg("exit_status_missing", c) : c \in manager.port}

-----------------------------------------------------------------------------
(* Ports and timers.                                                       *)

\* Port.command on an open port, by a handler.  The byte reaches the worker's
\* stdin; or, the worker being gone, the broken pipe takes the port with it and
\* its owner gets EXIT and no exit status.
WriteStop(c) ==
    \/ /\ worker[c] # "exited"
       /\ told' = told \cup {c}
       /\ Done
       /\ UNCHANGED open
    \/ /\ worker[c] = "exited"
       /\ mailbox' = Append(Tail(mailbox), Msg("EXIT", c))
       /\ open' = open \ {c}
       /\ UNCHANGED told

\* A port passes on a frame of its worker.
DeliverFrame(c) ==
    /\ c \in open
    /\ pipe[c] # <<>>
    /\ mailbox' = Append(mailbox, Msg(Head(pipe[c]), c))
    /\ pipe' = [pipe EXCEPT ![c] = Tail(@)]
    /\ UNCHANGED <<manager, timers, worker, told, open, lifetime, readied, call,
                   latest, crashes>>

\* A port sees that its worker is gone.
DeliverExit(c) ==
    /\ c \in open
    /\ worker[c] = "exited"
    /\ pipe[c] = <<>>
    /\ mailbox' = mailbox \o <<Msg("exit_status", c), Msg("EXIT", c)>>
    /\ open' = open \ {c}
    /\ UNCHANGED <<manager, timers, worker, told, pipe, lifetime, readied, call,
                   latest, crashes>>

Fire(t) ==
    /\ t \in timers
    /\ timers' = timers \ {t}
    /\ mailbox' = Append(mailbox, t)
    /\ UNCHANGED <<manager, workerVars, call, latest, crashes>>

-----------------------------------------------------------------------------
(* Calls.                                                                  *)

Issue(c) ==
    /\ call[c].kind = "none"
    /\ \A b \in 1 .. c - 1 : call[b].kind # "none"
    /\ \E kind \in KindsOf[c] :
          /\ call' = [call EXCEPT ![c].kind = kind]
          /\ mailbox' = Append(mailbox, Msg(kind, c))
    /\ UNCHANGED <<manager, timers, workerVars, latest, crashes>>

ReplyAtOnce(kind, c, answer) ==
    /\ Handles(kind, c)
    /\ AnswerCall(c, latest, To({c}, answer))
    /\ Done
    /\ UNCHANGED <<manager, timers, workerVars, latest, crashes>>

RequestWhileStarting(c) ==
    /\ manager.phase = "starting"
    /\ ReplyAtOnce("request", c, "rebuild_starting")

RequestWhileRunning(c) ==
    /\ manager.phase \in {"running", "cancelling"}
    /\ ReplyAtOnce("request", c, "already_running")

\* A launch, or a spawn that fails, on top of the state `kept`; `closed` are
\* ports closed first, `replies` the waiting calls answered first.
Launch(c, kept, closed, replies, cancelled) ==
    /\ Handles("request", c)
    /\ Done
    /\ told' = told \cup closed
    /\ \/ /\ manager' = [kept EXCEPT !.port = {c}, !.phase = "starting",
                                     !.terminal = "none", !.launcher = {c}]
          /\ worker' = [worker EXCEPT ![c] = "spawned"]
          /\ open' = (open \ closed) \cup {c}
          /\ timers' = (timers \ cancelled) \cup {Msg("ready_timeout", c)}
          /\ latest' = {c}
          /\ AnswerCall(c, {c}, replies)
       \/ /\ manager' = kept
          /\ open' = open \ closed
          /\ timers' = timers \ cancelled
          /\ AnswerCall(c, latest, And(To({c}, "launch_failed"), replies))
          /\ UNCHANGED <<worker, latest>>
    /\ UNCHANGED <<pipe, lifetime, readied, crashes>>

RequestWhileIdle(c) ==
    /\ manager.phase = "idle"
    /\ Launch(c, manager, {}, To({}, "unknown"), {})

\* Mutant: the port of the worker that is given up is left open.
RequestWhileUnknownNoClose(c) ==
    /\ manager.phase = "unknown"
    /\ Launch(c, [Fresh EXCEPT !.phase = "unknown"], {},
              And(To(manager.launcher, "launch_failed"),
                  To(manager.waiters \cup manager.canceller, "unknown")),
              ReadyTimers \cup WaiterTimers \cup CancelTimers)

\* A rebuild whose status is unknown is given up: its port is closed, and
\* everybody who waits for it is told.
RequestWhileUnknown(c) ==
    /\ manager.phase = "unknown"
    /\ Launch(c, [Fresh EXCEPT !.phase = "unknown"], manager.port,
              And(To(manager.launcher, "launch_failed"),
                  To(manager.waiters \cup manager.canceller, "unknown")),
              ReadyTimers \cup WaiterTimers \cup CancelTimers)

CancelWhileIdle(c) ==
    /\ manager.phase = "idle"
    /\ ReplyAtOnce("cancel", c, "ok")

\* The stop byte is sent, or the port turns out to be closed; the timer is set
\* in both cases.
CancelWhileRunning(c) ==
    /\ Handles("cancel", c)
    /\ manager.phase = "running"
    /\ timers' = timers \cup {Msg("cancel_timeout", c)}
    /\ \/ /\ manager.port \subseteq open
          /\ \A k \in manager.port : WriteStop(k)
          /\ manager' = [manager EXCEPT !.phase = "cancelling", !.canceller = {c}]
          /\ AnswerCall(c, latest, To({}, "ok"))
       \/ /\ manager.port \cap open = {}
          /\ Done
          /\ AnswerCall(c, latest, To({c}, "port_closed"))
          /\ UNCHANGED <<manager, told, open>>
    /\ UNCHANGED <<worker, pipe, lifetime, readied, latest, crashes>>

CancelOtherwise(c) ==
    /\ manager.phase \in {"starting", "cancelling", "unknown"}
    /\ ReplyAtOnce("cancel", c, "already_cancelling")

AwaitOver(c) ==
    /\ manager.terminal # "none"
    /\ ReplyAtOnce("await", c, manager.terminal)

WaitForTerminal(c, timer) ==
    /\ Handles("await", c)
    /\ manager.terminal = "none"
    /\ Done
    /\ manager' = [manager EXCEPT !.waiters = @ \cup {c}]
    /\ timers' = timers \cup timer
    /\ AnswerCall(c, latest, To({}, "timeout"))
    /\ UNCHANGED <<workerVars, latest, crashes>>

\* Mutant: no timer answers an await.
AwaitUntimed(c) == WaitForTerminal(c, {})

Await(c) == WaitForTerminal(c, {Msg("terminal_timeout", c)})

-----------------------------------------------------------------------------
(* Messages of ports and timers.                                           *)

\* The message is handled: calls are answered, timers cancelled, and `state` is
\* the manager's new state.
Settle(type, c, replies, cancelled, state) ==
    /\ Handles(type, c)
    /\ Done
    /\ Answer(replies)
    /\ timers' = timers \ cancelled
    /\ manager' = state
    /\ UNCHANGED <<workerVars, latest, crashes>>

Starting(c) == manager.port = {c} /\ manager.phase = "starting"

HandleReady(c) ==
    /\ Starting(c)
    /\ Settle("ready", c, To(manager.launcher, "started"), ReadyTimers,
              [manager EXCEPT !.phase = "running", !.launcher = {}])

HandleError(c) ==
    /\ Starting(c)
    /\ Settle("error", c, To(manager.launcher, "launch_failed"), ReadyTimers,
              [manager EXCEPT !.phase = "unknown", !.launcher = {}])

Exited(c) ==
    Settle("exit_status", c,
           And(To(manager.launcher, "launch_failed"),
               And(To(manager.waiters, "exited"), To(manager.canceller, "ok"))),
           GraceTimers \cup ReadyTimers \cup WaiterTimers \cup CancelTimers,
           [Fresh EXCEPT !.terminal = "exited"])

HandleExitStatus(c) == manager.port = {c} /\ Exited(c)

\* Mutant: nothing bounds the wait for an exit status.
HandleExitWaits(c) ==
    /\ manager.port = {c}
    /\ Settle("EXIT", c, To({}, "unknown"), {}, [manager EXCEPT !.phase = "unknown"])

\* await_exit_status: the port is gone and has not reported an exit status.
HandleExit(c) ==
    /\ Handles("EXIT", c)
    /\ manager.port = {c}
    /\ ~manager.grace
    /\ Done
    /\ manager' = [manager EXCEPT !.phase = "unknown", !.grace = TRUE]
    /\ timers' = timers \cup {Msg("exit_status_missing", c)}
    /\ UNCHANGED <<workerVars, call, latest, crashes>>

Missing(c) == manager.port = {c} /\ manager.phase = "unknown" /\ manager.grace

HandleExitStatusMissing(c) ==
    /\ Missing(c)
    /\ Settle("exit_status_missing", c,
              And(To(manager.launcher, "launch_failed"),
                  To(manager.waiters \cup manager.canceller, "missing")),
              ReadyTimers \cup WaiterTimers \cup CancelTimers,
              [Fresh EXCEPT !.port = manager.port, !.phase = "unknown",
                            !.terminal = "missing"])

HandleReadyTimeout(c) ==
    /\ Handles("ready_timeout", c)
    /\ Starting(c)
    /\ Answer(To(manager.launcher, "ready_timeout"))
    /\ manager' = [manager EXCEPT !.phase = "unknown", !.launcher = {}]
    /\ \/ c \in open /\ WriteStop(c)
       \/ c \notin open /\ Done /\ UNCHANGED <<told, open>>
    /\ UNCHANGED <<timers, worker, pipe, lifetime, readied, latest, crashes>>

\* Mutant: the caller that was told of the timeout still counts as waiting.
HandleCancelTimeoutKeeps(c) ==
    /\ manager.canceller = {c}
    /\ Settle("cancel_timeout", c, To({c}, "timeout"), {}, [manager EXCEPT !.phase = "unknown"])

HandleCancelTimeout(c) ==
    /\ manager.canceller = {c}
    /\ Settle("cancel_timeout", c, To({c}, "timeout"), {},
              [manager EXCEPT !.phase = "unknown", !.canceller = {}])

HandleTerminalTimeout(c) ==
    /\ c \in manager.waiters
    /\ Settle("terminal_timeout", c, To({c}, "timeout"), {},
              [manager EXCEPT !.waiters = @ \ {c}])

\* A handler with an effect takes a message of this type about c.
Concerns(type, c) ==
    CASE type \in {"ready", "error", "ready_timeout"} -> Starting(c)
      [] type = "exit_status" -> manager.port = {c}
      [] type = "EXIT" -> manager.port = {c} /\ ~manager.grace
      [] type = "exit_status_missing" -> Missing(c)
      [] type = "cancel_timeout" -> manager.canceller = {c}
      [] type = "terminal_timeout" -> c \in manager.waiters

\* A late frame, the messages of a former port, a timer that no longer matters.
Ignore ==
    /\ mailbox # <<>>
    /\ Head(mailbox).type \notin Kinds
    /\ ~Concerns(Head(mailbox).type, Head(mailbox).of)
    /\ Done
    /\ UNCHANGED <<manager, timers, workerVars, call, latest, crashes>>

\* The manager dies and its supervisor starts another: its ports are closed,
\* its mailbox and timers are gone, whoever waits is told that it is down.
Crash ==
    /\ crashes < MaxCrashes
    /\ crashes' = crashes + 1
    /\ manager' = Fresh
    /\ mailbox' = <<>>
    /\ timers' = {}
    /\ told' = told \cup open
    /\ open' = {}
    /\ latest' = {}
    /\ Answer(To({c \in Calls : call[c].kind # "none" /\ call[c].answers = <<>>}, "down"))
    /\ UNCHANGED <<worker, pipe, lifetime, readied>>

-----------------------------------------------------------------------------
(* Workers.                                                                *)

Goes(c, from, to) ==
    /\ worker[c] \in from
    /\ worker' = [worker EXCEPT ![c] = to]
    /\ UNCHANGED <<manager, mailbox, timers, told, open, call, latest, crashes>>

\* The stdin guard owns stdin from here on.
Arm(c) ==
    /\ Goes(c, {"spawned"}, "armed")
    /\ UNCHANGED <<pipe, lifetime, readied>>

\* Mutant: the lifetime lock is not exclusive.
TakeSharedLock(c) ==
    /\ Goes(c, {"armed"}, "locked")
    /\ lifetime' = {c}
    /\ UNCHANGED <<pipe, readied>>

TakeLifetimeLock(c) ==
    /\ Goes(c, {"armed"}, "locked")
    /\ lifetime = {} /\ lifetime' = {c}
    /\ UNCHANGED <<pipe, readied>>

EmitReady(c) ==
    /\ Goes(c, {"locked"}, "replaying")
    /\ c \in open
    /\ pipe' = [pipe EXCEPT ![c] = Append(@, "ready")]
    /\ readied' = readied \cup {c}
    /\ UNCHANGED lifetime

\* An error before or during the replay, a lifetime lock that is taken, a READY
\* nobody can read any more: the lock is dropped, then an error frame written.
Fail(c) ==
    /\ Goes(c, {"spawned", "armed", "replaying"} \cup (IF c \in open THEN {} ELSE {"locked"}),
            "failing")
    /\ lifetime' = lifetime \ {c}
    /\ pipe' = IF c \in open THEN [pipe EXCEPT ![c] = Append(@, "error")] ELSE pipe
    /\ UNCHANGED readied

Exit(c, from) ==
    /\ Goes(c, from, "exited")
    /\ lifetime' = lifetime \ {c}
    /\ UNCHANGED <<pipe, readied>>

Finish(c) == Exit(c, {"replaying", "failing"})

\* Mutant: the guard starts with the replay.
StoppedInReplay(c) == c \in told /\ Exit(c, {"replaying"})

\* The guard read the stop byte, or end of file.
Stopped(c) == c \in told /\ Exit(c, Alive \ {"spawned"})

\* The operating system or a user kills it.
Killed(c) == Exit(c, Alive)

-----------------------------------------------------------------------------

Handler(c) ==
    \/ RequestWhileStarting(c) \/ RequestWhileRunning(c)
    \/ RequestWhileIdle(c) \/ RequestWhileUnknown(c)
    \/ CancelWhileIdle(c) \/ CancelWhileRunning(c) \/ CancelOtherwise(c)
    \/ AwaitOver(c) \/ Await(c)
    \/ HandleReady(c) \/ HandleError(c) \/ HandleExitStatus(c) \/ HandleExit(c)
    \/ HandleExitStatusMissing(c) \/ HandleReadyTimeout(c)
    \/ HandleCancelTimeout(c) \/ HandleTerminalTimeout(c)

Handle == Ignore \/ \E c \in Calls : Handler(c)

Deliver(c) == DeliverFrame(c) \/ DeliverExit(c)

Work(c) == Arm(c) \/ TakeLifetimeLock(c) \/ EmitReady(c) \/ Fail(c) \/ Finish(c)
             \/ Stopped(c) \/ Killed(c)

Next ==
    \/ Handle
    \/ \E c \in Calls : Issue(c) \/ Deliver(c) \/ Work(c)
    \/ \E t \in timers : Fire(t)
    \/ Crash

Spec == Init /\ [][Next]_vars

\* The manager keeps handling messages, the runtime keeps delivering them and
\* firing timers, and a worker reaches its guard and the guard acts.  Nothing
\* makes a worker that is not told to stop finish.
Fairness ==
    /\ WF_vars(Handle)
    /\ \A c \in Calls :
          /\ WF_vars(Deliver(c))
          /\ WF_vars(Arm(c))
          /\ WF_vars(Stopped(c))
          /\ \A type \in Timeouts : WF_vars(Fire(Msg(type, c)))

FairSpec == Spec /\ Fairness

-----------------------------------------------------------------------------
(* Properties.                                                             *)

\* No caller is answered twice, whichever of exit status, EXIT, frame, timer
\* and retry comes first and whatever is still in the mailbox then; and what callers
\* are told is true: a launch is acknowledged as started only when that worker holds
\* the lifetime lock and has emitted READY, coalesced only with a worker that has; a
\* cancellation is confirmed, and an exit reported, only when the worker it was about
\* is gone.
AnsweredOnceAndTruly ==
    \A c \in Calls : Len(call[c].answers) <= 1 /\ \A i \in DOMAIN call[c].answers :
        LET answer == call[c].answers[i] IN
        /\ answer = "started" => c \in readied
        /\ answer = "already_running" => call[c].about # {} /\ call[c].about \subseteq readied
        /\ answer \in {"ok", "exited"} =>
              \A w \in call[c].about : worker[w] = "exited"

\* No worker is forgotten: one that is not the manager's own is told to stop,
\* after a retry over an unknown status and after a crash of the manager too.
OrphansAreTold ==
    \A c \in Calls : worker[c] \in Alive => c \in manager.port \cup told

\* Two workers never replay at the same time, although two may be alive.
OneReplays == Cardinality({c \in Calls : worker[c] = "replaying"}) <= 1

\* Every call is answered, even if the worker hangs.
EveryCallAnswered ==
    \A c \in Calls : call[c].kind # "none" ~> call[c].answers # <<>>

\* What became of a worker that is gone is found out, or the manager has moved on
\* to another: nobody is told for ever that a rebuild is running when none is,
\* also when the runtime never reports the exit status.
OutcomeKnown ==
    \A c \in Calls : worker[c] = "exited" ~>
                        (manager.port = {c} => manager.terminal # "none")

\* A worker that the manager gave up, cancelled or lost stops.
OrphansStop == \A c \in Calls : c \in told ~> worker[c] = "exited"
=============================================================================
