------------------------------ MODULE McpSession ------------------------------
(***************************************************************************)
(* One MCP session: a client writes lines to the standard input of the     *)
(* Elixir application and reads its answers; McpServer handles one line at *)
(* a time and calls PortManager, which passes requests to `kb mcp`, a Rust *)
(* process it talks to through an Erlang port; a supervisor restarts the   *)
(* two, and gives up when they fail too often.                             *)
(*                                                                         *)
(* Requests carry the number of their line where the code draws a random   *)
(* id, so a reply is recognised by the line it is about.                   *)
(***************************************************************************)
EXTENDS Integers, Sequences, SequencesExt

CONSTANTS
    N,             \* the client sends lines 1 .. N, then end of file
    KindsOf,       \* which kinds of line the n-th may be
    MaxRestarts,   \* restarts the supervisor tolerates in its window
    MaxKills,      \* bound on deaths of the Rust process
    MaxCrashes     \* bound on crashes of McpServer

Lines == 1 .. N
Eof == N + 1
None == 0

\* A blank line or a notification; a line McpServer answers by itself; a request
\* for the port whose reply fits in a frame, whose reply is longer than a frame,
\* or which is itself longer than Rust accepts.
Kinds == {"silent", "local", "request", "bulky", "refused"}

ASSUME SessionAssumption ==
    /\ N \in Nat
    /\ KindsOf \in [Lines -> SUBSET Kinds]
    /\ MaxRestarts \in Nat /\ MaxKills \in Nat /\ MaxCrashes \in Nat

VARIABLES
    vm,        \* what became of the application
    kind,      \* the kind of each line
    unread,    \* the first line the VM has not read from standard input
    inbox,     \* McpServer's mailbox: data of the stdin port, casts to itself
    server,    \* is McpServer alive?
    calling,   \* the line whose port call McpServer waits for
    out,       \* what was written to standard output
    manager,   \* PortManager's phase
    current,   \* the line it collects the reply of
    waiting,   \* calls in its mailbox
    frames,    \* replies the port has delivered to it
    pipe,      \* requests Rust has not read
    rust,      \* the Rust process behind the current port
    busy,      \* the request it executes
    executed,  \* how often each line's request was executed
    restarts,  \* restarts in the supervisor's current window
    kills, crashes

serverVars == <<inbox, server, calling, out>>
managerVars == <<manager, current, waiting, frames>>
rustVars == <<pipe, rust, busy, executed>>
vars == <<vm, kind, unread, serverVars, managerVars, rustVars, restarts, kills, crashes>>

Replies == [of : Lines, id : Lines \cup {None}, whole : BOOLEAN]

Init ==
    /\ vm = "starting"
    /\ kind \in {k \in [Lines -> Kinds] : \A n \in Lines : k[n] \in KindsOf[n]}
    /\ unread = 1
    /\ inbox = <<>> /\ server = FALSE /\ calling = None /\ out = <<>>
    /\ manager = "handshake" /\ current = None /\ waiting = <<>> /\ frames = <<>>
    /\ pipe = <<>> /\ rust = "booting" /\ busy = None
    /\ executed = [n \in Lines |-> 0]
    /\ restarts = 0 /\ kills = 0 /\ crashes = 0

-----------------------------------------------------------------------------
(* McpServer.                                                              *)

Answer(n, answer, result) ==
    out' = Append(out, [of |-> n, answer |-> answer, result |-> result])

\* McpServer, if it is still the one that made the call about n, is answered.
Reply(n, answer, result) ==
    IF calling = n
    THEN Answer(n, answer, result) /\ calling' = None
    ELSE UNCHANGED <<out, calling>>

\* The stdin port delivers a line, or end of file.
Arrive ==
    /\ vm = "running" /\ server
    /\ unread <= Eof
    /\ unread' = unread + 1
    /\ inbox' = Append(inbox, [type |-> "data", of |-> unread])
    /\ UNCHANGED <<vm, kind, server, calling, out, managerVars, rustVars, restarts, kills, crashes>>

\* McpServer takes the next message of its mailbox.
Takes(type, lines) ==
    /\ vm = "running" /\ server
    /\ calling = None
    /\ inbox # <<>>
    /\ Head(inbox).type = type /\ Head(inbox).of \in lines

ServerOnly == UNCHANGED <<kind, unread, server, managerVars, rustVars, restarts, kills, crashes>>

\* Mutant: end of file is acted on when it is read.
FrameStopsAtEof ==
    /\ Takes("data", Lines \cup {Eof})
    /\ vm' = IF Head(inbox).of = Eof THEN "halted" ELSE vm
    /\ inbox' = Append(Tail(inbox), [Head(inbox) EXCEPT !.type = "cast"])
    /\ UNCHANGED <<calling, out>>
    /\ ServerOnly

\* What is framed, end of file too, is cast to McpServer itself, behind the lines
\* it has not answered yet.
Frame ==
    /\ Takes("data", Lines \cup {Eof})
    /\ inbox' = Append(Tail(inbox), [Head(inbox) EXCEPT !.type = "cast"])
    /\ UNCHANGED <<vm, calling, out>>
    /\ ServerOnly

OfKind(kinds) == {n \in Lines : kind[n] \in kinds}

IgnoreLine ==
    /\ Takes("cast", OfKind({"silent"}))
    /\ inbox' = Tail(inbox)
    /\ UNCHANGED <<vm, calling, out>>
    /\ ServerOnly

AnswerLocally ==
    /\ Takes("cast", OfKind({"local"}))
    /\ inbox' = Tail(inbox)
    /\ Answer(Head(inbox).of, "local", None)
    /\ UNCHANGED <<vm, calling>>
    /\ ServerOnly

Halt ==
    /\ Takes("cast", {Eof})
    /\ vm' = "halted"
    /\ UNCHANGED <<inbox, calling, out>>
    /\ ServerOnly

\* call_port: PortManager's name is registered while it starts up, too; a call to
\* a manager that is gone exits, which is turned into an answer.
CallPort ==
    /\ Takes("cast", OfKind({"request", "bulky", "refused"}))
    /\ inbox' = Tail(inbox)
    /\ LET n == Head(inbox).of IN
       IF manager = "down"
       THEN Answer(n, "port_unavailable", None) /\ UNCHANGED <<calling, waiting>>
       ELSE /\ calling' = n
            /\ waiting' = Append(waiting, n)
            /\ UNCHANGED out
    /\ UNCHANGED <<vm, kind, unread, server, manager, current, frames, rustVars,
                   restarts, kills, crashes>>

\* The stdin port exits abnormally, which takes McpServer and its mailbox along.
\* PortManager does not notice.
CrashServer ==
    /\ vm = "running" /\ server /\ crashes < MaxCrashes
    /\ server' = FALSE /\ inbox' = <<>> /\ calling' = None
    /\ crashes' = crashes + 1
    /\ UNCHANGED <<vm, kind, unread, out, managerVars, rustVars, restarts, kills>>

-----------------------------------------------------------------------------
(* PortManager.                                                            *)

ManagerOnly == UNCHANGED <<vm, kind, unread, inbox, server, rustVars, restarts, kills, crashes>>

\* It stops, answering the call about n; queued calls exit.
Stop(n, answer) ==
    /\ manager' = "down" /\ current' = None /\ waiting' = <<>> /\ frames' = <<>>
    /\ IF calling # None /\ calling \in {n} \cup ToSet(waiting)
       THEN Reply(calling, IF calling = n THEN answer ELSE "port_unavailable", None)
       ELSE UNCHANGED <<out, calling>>

\* await_ready: the first line is READY, and the application may start.
Ready ==
    /\ manager = "handshake" /\ rust = "booting"
    /\ manager' = "idle" /\ rust' = "serving"
    /\ IF vm = "starting" THEN vm' = "running" /\ server' = TRUE
                          ELSE UNCHANGED <<vm, server>>
    /\ UNCHANGED <<kind, unread, inbox, calling, out, current, waiting, frames, pipe,
                   busy, executed, restarts, kills, crashes>>

\* Another first line, an exit, or five seconds without either.  At start-up this
\* is the end of the application.
HandshakeFails ==
    /\ manager = "handshake"
    /\ Stop(None, "port_unavailable")
    /\ vm' = IF vm = "starting" THEN "failed" ELSE vm
    /\ UNCHANGED <<kind, unread, inbox, server, rustVars, restarts, kills, crashes>>

\* Port.command returns, and the call's deadline is set.
Sends ==
    /\ manager' = "collecting" /\ current' = Head(waiting) /\ waiting' = Tail(waiting)
    /\ pipe' = IF rust = "gone" THEN pipe ELSE Append(pipe, Head(waiting))
    /\ UNCHANGED <<vm, kind, unread, serverVars, frames, rust, busy, executed,
                   restarts, kills, crashes>>

SendRequest == manager = "idle" /\ waiting # <<>> /\ Sends

\* Port.command finds the port busy: requests that Rust has not read fill the pipe
\* and the driver's queue, or do not, as they are long or short.  PortManager is
\* suspended, and the call has no deadline yet.
SendSuspends ==
    /\ manager = "idle" /\ waiting # <<>> /\ pipe # <<>> /\ rust # "gone"
    /\ manager' = "suspended"
    /\ UNCHANGED <<current, waiting, frames, calling, out>>
    /\ ManagerOnly

\* Rust has read enough of them.
SendResumes == manager = "suspended" /\ Sends

\* Port.command raises on a port that has closed since, or while it is suspended.
SendRaises ==
    /\ manager \in {"idle", "suspended"} /\ waiting # <<>> /\ rust = "gone"
    /\ Stop(None, "port_unavailable")
    /\ ManagerOnly

\* The call being collected is answered and PortManager is idle again.
Collected(answer, result) ==
    /\ manager' = "idle" /\ current' = None
    /\ Reply(current, answer, result)
    /\ UNCHANGED waiting
    /\ ManagerOnly

NextFrame == manager = "collecting" /\ frames # <<>> /\ frames' = Tail(frames)

\* Mutant: whatever reply comes next is taken.
CollectAnyReply ==
    /\ NextFrame
    /\ Head(frames).whole
    /\ Collected("result", Head(frames).of)

\* A reply to a request that Rust refused to read is an error.
AnswerIn(frame) == IF kind[frame.of] = "refused" THEN "refused" ELSE "result"

CollectReply ==
    /\ NextFrame
    /\ Head(frames).whole /\ Head(frames).id = current
    /\ Collected(AnswerIn(Head(frames)), Head(frames).of)

DiscardReply ==
    /\ NextFrame
    /\ Head(frames).whole /\ Head(frames).id # current
    /\ UNCHANGED <<manager, current, waiting, calling, out>>
    /\ ManagerOnly

\* The end of a reply that is longer than a frame is no JSON, and says nothing of
\* the request it is about.
CollectMalformed ==
    /\ NextFrame
    /\ ~Head(frames).whole
    /\ Collected("parse_error", None)

\* Mutant: a request that Rust is executing is waited for.
DeadlineWaitsForRust ==
    /\ manager = "collecting" /\ pipe = <<>> /\ busy = None
    /\ Collected("timeout", None)
    /\ UNCHANGED frames

\* The absolute deadline of the call.
Deadline ==
    /\ manager = "collecting"
    /\ Collected("timeout", None)
    /\ UNCHANGED frames

CollectExit ==
    /\ manager = "collecting" /\ frames = <<>> /\ rust = "gone"
    /\ Stop(current, "port_closed")
    /\ ManagerOnly

\* Idle, it ignores data and stops when the port is gone.
IdleData ==
    /\ manager = "idle" /\ frames # <<>>
    /\ frames' = Tail(frames)
    /\ UNCHANGED <<manager, current, waiting, calling, out>>
    /\ ManagerOnly

IdleExit ==
    /\ manager = "idle" /\ frames = <<>> /\ rust = "gone"
    /\ Stop(None, "port_unavailable")
    /\ ManagerOnly

-----------------------------------------------------------------------------
(* The supervisor, and `main`, which waits for ever.                       *)

\* It restarts one child at a time, and waits for PortManager's handshake.
Supervises == vm = "running" /\ manager # "handshake"

WithinIntensity == restarts < MaxRestarts /\ restarts' = restarts + 1

RestartManager ==
    /\ Supervises /\ manager = "down"
    /\ WithinIntensity
    /\ manager' = "handshake" /\ rust' = "booting"
    /\ pipe' = <<>> /\ busy' = None
    /\ UNCHANGED <<vm, kind, unread, serverVars, current, waiting, frames, executed,
                   kills, crashes>>

\* Mutant: the new server starts with the line that was being handled.
RestartServerRereads ==
    /\ Supervises /\ ~server
    /\ WithinIntensity
    /\ server' = TRUE
    /\ inbox' = IF current = None THEN <<>> ELSE <<[type |-> "cast", of |-> current]>>
    /\ UNCHANGED <<vm, kind, unread, calling, out, managerVars, rustVars, kills, crashes>>

RestartServer ==
    /\ Supervises /\ ~server
    /\ WithinIntensity
    /\ server' = TRUE
    /\ UNCHANGED <<vm, kind, unread, inbox, calling, out, managerVars, rustVars, kills, crashes>>

\* The children that are left are terminated, the application has ended, and
\* nobody reads standard input.
GiveUp ==
    /\ Supervises /\ (manager = "down" \/ ~server)
    /\ restarts = MaxRestarts
    /\ vm' = "abandoned"
    /\ server' = FALSE /\ inbox' = <<>> /\ calling' = None
    /\ manager' = "down" /\ current' = None /\ waiting' = <<>> /\ frames' = <<>>
    /\ UNCHANGED <<kind, unread, out, rustVars, restarts, kills, crashes>>

\* The oldest restart leaves the window.
ForgetRestart ==
    /\ vm = "running" /\ restarts > 0
    /\ restarts' = restarts - 1
    /\ UNCHANGED <<vm, kind, unread, serverVars, managerVars, rustVars, kills, crashes>>

-----------------------------------------------------------------------------
(* The Rust process: one request at a time.                                *)

RustOnly == UNCHANGED <<vm, kind, unread, serverVars, manager, current, waiting, restarts, crashes>>

ReadRequest ==
    /\ rust = "serving" /\ busy = None /\ pipe # <<>>
    /\ busy' = Head(pipe) /\ pipe' = Tail(pipe)
    /\ UNCHANGED <<frames, rust, executed, kills>>
    /\ RustOnly

ExecutesBusy == executed' = [executed EXCEPT ![busy] = @ + 1]

\* A line that is too long is refused, under null unless an id is found in the first
\* bytes of it.
ReplyIds == IF kind[busy] = "refused" THEN {None, busy} ELSE {busy}

\* The request is executed, unless it is refused, and its reply written; a closed
\* port is the end.
WriteReply ==
    /\ rust = "serving" /\ busy # None
    /\ IF kind[busy] = "refused" THEN UNCHANGED executed ELSE ExecutesBusy
    /\ busy' = None
    /\ IF manager \in {"idle", "suspended", "collecting"}
       THEN /\ \E id \in ReplyIds : frames' =
                    Append(frames, [of |-> busy, id |-> id, whole |-> kind[busy] # "bulky"])
            /\ UNCHANGED rust
       ELSE rust' = "gone" /\ UNCHANGED frames
    /\ UNCHANGED <<pipe, kills>>
    /\ RustOnly

\* It is killed, panics, or fails to read: before, or after, its request had its
\* effect.
Die ==
    /\ rust \in {"booting", "serving"} /\ kills < MaxKills
    /\ kills' = kills + 1
    /\ rust' = "gone" /\ pipe' = <<>> /\ busy' = None
    /\ \/ UNCHANGED executed
       \/ busy # None /\ kind[busy] # "refused" /\ ExecutesBusy
    /\ UNCHANGED frames
    /\ RustOnly

-----------------------------------------------------------------------------

Serve == Frame \/ IgnoreLine \/ AnswerLocally \/ Halt \/ CallPort

Manage == Ready \/ HandshakeFails \/ SendRequest \/ SendSuspends \/ SendRaises
            \/ CollectReply \/ DiscardReply \/ CollectMalformed \/ Deadline
            \/ CollectExit \/ IdleData \/ IdleExit

Supervise == RestartManager \/ RestartServer \/ GiveUp

Next ==
    \/ Arrive \/ Serve \/ CrashServer
    \/ Manage \/ SendResumes
    \/ Supervise \/ ForgetRestart
    \/ ReadRequest \/ WriteReply \/ Die

Spec == Init /\ [][Next]_vars

\* The client closes its end at last, the Erlang processes run, and timers fire.
\* Rust need not answer, read, or even boot; only when it has read everything is a
\* suspended PortManager sure to go on.
FairSpec ==
    /\ Spec
    /\ WF_vars(Arrive) /\ WF_vars(Serve) /\ WF_vars(Supervise)
    /\ WF_vars(Manage) /\ WF_vars(Deadline) /\ WF_vars(HandshakeFails)
    /\ WF_vars(pipe = <<>> /\ SendResumes)

-----------------------------------------------------------------------------
(* Properties.                                                             *)

\* A request that is answered with a result, or refused, is answered with its own
\* reply, and executed if it has a result: replies to requests that timed out before,
\* or that a former McpServer made, are not taken for it.
OwnResult ==
    \A i \in DOMAIN out : out[i].answer \in {"result", "refused"} =>
        /\ out[i].result = out[i].of
        /\ out[i].answer = "result" => executed[out[i].of] = 1

\* Nothing is executed twice, whatever times out, dies and is restarted: there is
\* no retry below the client.  And `port_unavailable`, unlike `port_closed` and
\* `timeout`, promises that the request was not executed and never will be: a client
\* may safely repeat it.
ExecutedOnce ==
    /\ \A n \in Lines : executed[n] <= 1
    /\ \A i \in DOMAIN out : out[i].answer = "port_unavailable" =>
          /\ executed[out[i].of] = 0
          /\ out[i].of \notin {busy} \cup ToSet(pipe)

\* Lines that must be answered.
Answerable == {n \in Lines : kind[n] # "silent"}

\* Answers come in the order of the lines, one each; when end of file stops the
\* application, and McpServer never crashed, no line before it is left unanswered.
DrainedAtEof ==
    /\ \A i, j \in DOMAIN out : i < j => out[i].of < out[j].of
    /\ vm = "halted" /\ crashes = 0 => {out[i].of : i \in DOMAIN out} = Answerable

\* A line that was read is answered, even if Rust hangs, dies or cannot be started
\* again, as long as McpServer and its supervisor live and PortManager is not
\* suspended for ever by requests that Rust does not read.
EveryLineAnswered ==
    []<>(manager # "suspended") =>
        \A n \in Lines :
            unread > n /\ kind[n] # "silent" ~>
                (\E i \in DOMAIN out : out[i].of = n) \/ crashes > 0 \/ vm # "running"

\* A call of PortManager ends, by its deadline if not before, which is why
\* GenServer.call has no timeout of its own (port_manager.ex:85-89).  The code sets the
\* deadline when Port.command has returned: a Rust process that hangs can keep a call
\* for ever.
EveryCallEnds == \A n \in Lines : calling = n ~> calling # n
=============================================================================
