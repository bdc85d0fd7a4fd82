------------------------ MODULE RebuildManagerProofs ------------------------
(***************************************************************************)
(* What RebuildManager guarantees for every number of calls, every mix of  *)
(* kinds of calls and every number of crashes: callers are answered at     *)
(* most once and truly, no worker is forgotten, and one worker replays.    *)
(***************************************************************************)
EXTENDS RebuildManager, FiniteSetTheorems, TLAPS

Phases == {"idle", "starting", "running", "cancelling", "unknown"}

Answers == {"started", "already_running", "rebuild_starting", "launch_failed",
            "ready_timeout", "unknown", "ok", "port_closed", "already_cancelling",
            "exited", "missing", "timeout", "down"}

Messages == [type : Kinds \cup Timeouts \cup {"ready", "error", "exit_status", "EXIT"},
             of : Calls]

Managers == [port : SUBSET Calls, phase : Phases, terminal : {"none", "exited", "missing"},
             waiters : SUBSET Calls, canceller : SUBSET Calls,
             launcher : SUBSET Calls, grace : BOOLEAN]

CallStates == [kind : Kinds \cup {"none"}, about : SUBSET Calls, answers : Seq(Answers)]

TypeOK ==
    /\ manager \in Managers
    /\ mailbox \in Seq(Messages)
    /\ timers \subseteq [type : Timeouts, of : Calls]
    /\ worker \in [Calls -> Alive \cup {"unborn", "exited"}]
    /\ told \subseteq Calls
    /\ pipe \in [Calls -> Seq({"ready", "error"})]
    /\ open \subseteq Calls
    /\ lifetime \subseteq Calls
    /\ call \in [Calls -> CallStates]
    /\ latest \subseteq Calls
    /\ readied \subseteq Calls
    /\ crashes \in Nat

Waiting(m) == m.launcher \cup m.waiters \cup m.canceller

\* An answer that is true, given the worker the call is about.
IsTrue(c, about, answer, w, r) ==
    /\ answer = "started" => c \in r
    /\ answer = "already_running" => about # {} /\ about \subseteq r
    /\ answer \in {"ok", "exited"} => \A k \in about : w[k] = "exited"

\* A call that is not made yet has left no trace.
CallInv(c, k, w, r) ==
    /\ k.kind = "none" => k.answers = <<>> /\ w[c] = "unborn"
    /\ Len(k.answers) <= 1
    /\ \A i \in DOMAIN k.answers : IsTrue(c, k.about, k.answers[i], w, r)

\* Whoever waits has no answer yet, and the worker it waits for is the latest one
\* or gone.
WaitInv(m, k, l, w) ==
    /\ \A c \in m.launcher : k[c].kind = "request"
    /\ \A c \in m.waiters : k[c].kind = "await"
    /\ \A c \in m.canceller : k[c].kind = "cancel"
    /\ \A c \in Waiting(m) :
          /\ k[c].answers = <<>>
          /\ \A a \in k[c].about : a \in l \/ w[a] = "exited"

\* What the phase tells about the latest worker.
ManagerInv(m, l, w, r) ==
    /\ l = {} \/ \E c \in Calls : l = {c}
    /\ m.port = {} \/ m.port = l
    /\ m.launcher \subseteq m.port
    /\ m.phase \in {"starting", "running", "cancelling"} => m.port # {}
    /\ m.phase \in {"running", "cancelling"} => m.port \subseteq r
    /\ m.phase = "idle" => m.port = {} /\ \A c \in l : w[c] = "exited"
    /\ m.terminal = "exited" => \A c \in l : w[c] = "exited"

\* What a message in the mailbox tells.
MessageInv(x, m, k, w, r) ==
    /\ x.type \in Kinds => /\ k[x.of].kind = x.type
                           /\ k[x.of].answers = <<>>
                           /\ x.of \notin Waiting(m)
    /\ x.type = "request" => w[x.of] = "unborn"
    /\ x.type = "ready" => x.of \in r
    /\ x.type = "exit_status" => w[x.of] = "exited"

\* No call is in the mailbox twice.
OnceInMail(mail) ==
    \A i, j \in DOMAIN mail : mail[i].type \in Kinds /\ mail[i] = mail[j] => i = j

WorkerInv(c, m, w, t, p, o, l, r) ==
    /\ w[c] \in Alive => c \in m.port \cup t /\ c \in o \cup t
    /\ w[c] \in {"locked", "replaying"} => l = {c}
    /\ \A i \in DOMAIN p[c] : p[c][i] = "ready" => c \in r

Inv ==
    /\ \A c \in Calls : CallInv(c, call[c], worker, readied)
    /\ WaitInv(manager, call, latest, worker)
    /\ ManagerInv(manager, latest, worker, readied)
    /\ \A i \in DOMAIN mailbox : MessageInv(mailbox[i], manager, call, worker, readied)
    /\ OnceInMail(mailbox)
    /\ \A c \in Calls : WorkerInv(c, manager, worker, told, pipe, open, lifetime, readied)

-----------------------------------------------------------------------------
(* The mailbox.                                                            *)

\* Taking the first message of a mailbox leaves the others as they were.
LEMMA TailOfMail ==
    ASSUME NEW mail \in Seq(Messages), mail # <<>>
    PROVE  /\ Head(mail) \in Messages
           /\ Head(mail) = mail[1]
           /\ 1 \in DOMAIN mail
           /\ Tail(mail) \in Seq(Messages)
           /\ \A i \in DOMAIN Tail(mail) :
                 i + 1 \in DOMAIN mail /\ i + 1 # 1 /\ Tail(mail)[i] = mail[i + 1]
           /\ OnceInMail(mail) => OnceInMail(Tail(mail))
<1>1. /\ Head(mail) \in Messages /\ Head(mail) = mail[1]
      /\ Tail(mail) \in Seq(Messages)
      /\ Len(Tail(mail)) = Len(mail) - 1 /\ Len(mail) \in Nat /\ Len(mail) > 0
  OBVIOUS
<1>2. \A i \in DOMAIN Tail(mail) :
         i \in Nat /\ i + 1 \in DOMAIN mail /\ i + 1 # 1 /\ Tail(mail)[i] = mail[i + 1]
  BY <1>1
<1>3. OnceInMail(mail) => OnceInMail(Tail(mail))
  <2>1. SUFFICES ASSUME OnceInMail(mail),
                        NEW i \in DOMAIN Tail(mail), NEW j \in DOMAIN Tail(mail),
                        Tail(mail)[i].type \in Kinds, Tail(mail)[i] = Tail(mail)[j]
                 PROVE  i = j
    BY DEF OnceInMail
  <2>2. i + 1 = j + 1
    BY <1>2, <2>1 DEF OnceInMail
  <2> QED
    BY <1>2, <2>2
<1> QED
  BY <1>1, <1>2, <1>3

\* A message behind the others that is not a call, or a call not there yet.
LEMMA AppendToMail ==
    ASSUME NEW mail \in Seq(Messages), NEW x \in Messages
    PROVE  /\ Append(mail, x) \in Seq(Messages)
           /\ \A i \in DOMAIN Append(mail, x) :
                 \/ i \in DOMAIN mail /\ Append(mail, x)[i] = mail[i]
                 \/ Append(mail, x)[i] = x /\ i = Len(mail) + 1
           /\ OnceInMail(mail) /\ (x.type \in Kinds => \A i \in DOMAIN mail : mail[i] # x)
                 => OnceInMail(Append(mail, x))
<1>1. /\ Append(mail, x) \in Seq(Messages)
      /\ Len(Append(mail, x)) = Len(mail) + 1 /\ Len(mail) \in Nat
  OBVIOUS
<1>2. \A i \in DOMAIN Append(mail, x) :
         \/ i \in DOMAIN mail /\ Append(mail, x)[i] = mail[i]
         \/ Append(mail, x)[i] = x /\ i = Len(mail) + 1
  BY <1>1
<1>3. OnceInMail(mail) /\ (x.type \in Kinds => \A i \in DOMAIN mail : mail[i] # x)
         => OnceInMail(Append(mail, x))
  BY <1>2 DEF OnceInMail
<1> QED
  BY <1>1, <1>2, <1>3

-----------------------------------------------------------------------------
(* Handling a message.                                                     *)

\* Answering calls that have no answer gives each of them one.
LEMMA AnsweredCalls ==
    ASSUME TypeOK, NEW D \in SUBSET Calls, NEW replies \in [D -> Answers],
           \A b \in D : call[b].answers = <<>>
    PROVE  /\ Answered(replies) \in [Calls -> CallStates]
           /\ \A b \in Calls :
                 /\ Answered(replies)[b].kind = call[b].kind
                 /\ Answered(replies)[b].about = call[b].about
                 /\ (b \notin D => Answered(replies)[b].answers = call[b].answers)
                 /\ (b \in D => Answered(replies)[b].answers = <<replies[b]>>)
<1>1. DOMAIN replies = D /\ call \in [Calls -> CallStates]
  BY DEF TypeOK
<1>2. ASSUME NEW b \in Calls
      PROVE  LET k == IF b \in D THEN [call[b] EXCEPT !.answers = Append(@, replies[b])]
                                 ELSE call[b]
             IN  /\ k \in CallStates /\ k.kind = call[b].kind /\ k.about = call[b].about
                 /\ (b \notin D => k.answers = call[b].answers)
                 /\ (b \in D => k.answers = <<replies[b]>>)
  <2>1. call[b] \in CallStates
    BY <1>1
  <2>2. CASE b \notin D
    BY <2>1, <2>2
  <2>3. CASE b \in D
    <3>1. replies[b] \in Answers /\ call[b].answers = <<>>
      BY <2>3
    <3>2. Append(call[b].answers, replies[b]) = <<replies[b]>> /\ <<replies[b]>> \in Seq(Answers)
      BY <3>1
    <3>3. [call[b] EXCEPT !.answers = Append(@, replies[b])]
             = [call[b] EXCEPT !.answers = <<replies[b]>>]
      BY <3>2
    <3> DEFINE k == [call[b] EXCEPT !.answers = <<replies[b]>>]
    <3>4. k \in CallStates /\ k.kind = call[b].kind /\ k.about = call[b].about
             /\ k.answers = <<replies[b]>>
      BY <2>1, <3>2 DEF CallStates
    <3> HIDE DEF k
    <3> QED
      BY <2>3, <3>3, <3>4 DEF k
  <2> QED
    BY <2>2, <2>3
<1>3. Answered(replies) = [b \in Calls |-> IF b \in D
                                          THEN [call[b] EXCEPT !.answers = Append(@, replies[b])]
                                          ELSE call[b]]
  BY <1>1 DEF Answered
<1> QED
  BY <1>2, <1>3

\* The call whose handling this is, if the message is a call.
Own(x) == IF x.type \in Kinds THEN {x.of} ELSE {}

\* What every handler owes to calls and mailbox: it takes the first message, x, adds
\* at most an EXIT, answers truly, with `replies`, calls D that wait or the one it
\* handles, which is `about` a worker, lets none of them wait on, and lets nobody wait
\* for a worker that is neither the latest nor gone.
Handling(x, D, replies, about) ==
    /\ mailbox # <<>> /\ x = Head(mailbox)
    /\ \/ mailbox' = Tail(mailbox)
       \/ \E k \in Calls : mailbox' = Append(Tail(mailbox), Msg("EXIT", k))
    /\ D \subseteq Waiting(manager) \cup Own(x)
    /\ replies \in [D -> Answers]
    /\ about \subseteq Calls
    /\ \/ call' = Answered(replies) /\ Own(x) = {}
       \/ call' = [Answered(replies) EXCEPT ![x.of].about = about] /\ Own(x) # {}
    /\ \A b \in D : IsTrue(b, IF b \in Own(x) THEN about ELSE call[b].about,
                           replies[b], worker, readied)
    /\ UNCHANGED readied
    /\ \A b \in Calls : worker'[b] # worker[b] => x = Msg("request", b)
    /\ manager' \in Managers
    /\ Waiting(manager') \cap D = {}
    /\ \A b \in manager'.launcher : b \in manager.launcher \/ x = Msg("request", b)
    /\ \A b \in manager'.waiters : b \in manager.waiters \/ x = Msg("await", b)
    /\ \A b \in manager'.canceller : b \in manager.canceller \/ x = Msg("cancel", b)
    /\ \A b \in Waiting(manager') :
          \A a \in (IF b \in Own(x) THEN about ELSE call[b].about) :
             a \in latest' \/ worker'[a] = "exited"

\* What is left of Inv then.
Handled ==
    /\ mailbox' \in Seq(Messages) /\ call' \in [Calls -> CallStates]
    /\ \A b \in Calls : CallInv(b, call'[b], worker', readied')
    /\ WaitInv(manager', call', latest', worker')
    /\ \A i \in DOMAIN mailbox' :
          MessageInv(mailbox'[i], manager', call', worker', readied')
    /\ OnceInMail(mailbox')

LEMMA HandlingKeeps ==
    ASSUME TypeOK, Inv, NEW x, NEW D, NEW replies, NEW about, Handling(x, D, replies, about)
    PROVE  Handled
<1>0. /\ mailbox # <<>> /\ x = Head(mailbox)
      /\ \/ mailbox' = Tail(mailbox)
         \/ \E k \in Calls : mailbox' = Append(Tail(mailbox), Msg("EXIT", k))
      /\ D \subseteq Waiting(manager) \cup Own(x)
      /\ replies \in [D -> Answers]
      /\ about \subseteq Calls
      /\ \/ call' = Answered(replies) /\ Own(x) = {}
         \/ call' = [Answered(replies) EXCEPT ![x.of].about = about] /\ Own(x) # {}
      /\ \A b \in D : IsTrue(b, IF b \in Own(x) THEN about ELSE call[b].about,
                             replies[b], worker, readied)
      /\ UNCHANGED readied
      /\ \A b \in Calls : worker'[b] # worker[b] => x = Msg("request", b)
      /\ manager' \in Managers
      /\ Waiting(manager') \cap D = {}
      /\ \A b \in manager'.launcher : b \in manager.launcher \/ x = Msg("request", b)
      /\ \A b \in manager'.waiters : b \in manager.waiters \/ x = Msg("await", b)
      /\ \A b \in manager'.canceller : b \in manager.canceller \/ x = Msg("cancel", b)
      /\ \A b \in Waiting(manager') :
            \A a \in (IF b \in Own(x) THEN about ELSE call[b].about) :
               a \in latest' \/ worker'[a] = "exited"
  BY DEF Handling
<1> USE <1>0
<1>1. /\ mailbox \in Seq(Messages) /\ x \in Messages /\ x = mailbox[1]
      /\ 1 \in DOMAIN mailbox /\ call \in [Calls -> CallStates]
      /\ Waiting(manager) \subseteq Calls /\ Waiting(manager') \subseteq Calls
  BY TailOfMail DEF TypeOK, Waiting, Managers
<1>2. MessageInv(x, manager, call, worker, readied)
  BY <1>1 DEF Inv
<1>3. \A b \in Own(x) : /\ b \in Calls /\ b = x.of /\ x = Msg(call[b].kind, b)
                        /\ call[b].kind = x.type /\ x.type \in Kinds
                        /\ call[b].answers = <<>> /\ b \notin Waiting(manager)
  BY <1>1, <1>2 DEF Own, MessageInv, Messages, Msg
<1>4. \A b \in Waiting(manager) : call[b].answers = <<>>
  BY DEF Inv, WaitInv
<1>5. D \subseteq Calls /\ \A b \in D : call[b].answers = <<>>
  BY <1>1, <1>3, <1>4
<1>6. /\ Answered(replies) \in [Calls -> CallStates]
      /\ \A b \in Calls :
            /\ Answered(replies)[b].kind = call[b].kind
            /\ Answered(replies)[b].about = call[b].about
            /\ (b \notin D => Answered(replies)[b].answers = call[b].answers)
            /\ (b \in D => Answered(replies)[b].answers = <<replies[b]>>)
  BY <1>5, AnsweredCalls
<1> DEFINE aboutNow(b) == IF b \in Own(x) THEN about ELSE call[b].about
<1>7. /\ call' \in [Calls -> CallStates]
      /\ \A b \in Calls : /\ call'[b].kind = call[b].kind
                          /\ call'[b].about = aboutNow(b)
                          /\ (b \notin D => call'[b].answers = call[b].answers)
                          /\ (b \in D => call'[b].answers = <<replies[b]>>)
  <2>1. ASSUME NEW answered, answered = Answered(replies),
               \/ call' = answered /\ Own(x) = {}
               \/ call' = [answered EXCEPT ![x.of].about = about] /\ Own(x) # {}
        PROVE  /\ call' \in [Calls -> CallStates]
               /\ \A b \in Calls : /\ call'[b].kind = call[b].kind
                                   /\ call'[b].about = aboutNow(b)
                                   /\ (b \notin D => call'[b].answers = call[b].answers)
                                   /\ (b \in D => call'[b].answers = <<replies[b]>>)
    <3>1. \A b \in Calls : /\ answered[b].kind = call[b].kind
                          /\ answered[b].about = call[b].about
                          /\ (b \notin D => answered[b].answers = call[b].answers)
                          /\ (b \in D => answered[b].answers = <<replies[b]>>)
      BY <1>6, <2>1
    <3>2. CASE Own(x) = {}
      <4>1. \A b \in Calls : aboutNow(b) = call[b].about
        BY <3>2
      <4>2. call' = answered /\ answered \in [Calls -> CallStates]
        BY <3>2, <2>1, <1>6
      <4> QED
        BY <3>1, <4>1, <4>2
    <3>3. CASE Own(x) # {}
      <4>1. Own(x) = {x.of} /\ x.of \in Calls
        BY <3>3, <1>1 DEF Own, Messages
      <4>2. call' = [answered EXCEPT ![x.of].about = about] /\ answered \in [Calls -> CallStates]
        BY <2>1, <3>3, <1>6
      <4>3. \A b \in Calls : aboutNow(b) = IF b = x.of THEN about ELSE call[b].about
        BY <4>1
      <4> HIDE DEF aboutNow
      <4>4. \A b \in Calls : call'[b] = IF b = x.of THEN [answered[b] EXCEPT !.about = about]
                                                   ELSE answered[b]
        BY <4>2
      <4>5. \A b \in Calls : /\ answered[b] \in CallStates
                            /\ [answered[b] EXCEPT !.about = about] \in CallStates
                            /\ [answered[b] EXCEPT !.about = about].about = about
                            /\ [answered[b] EXCEPT !.about = about].kind = answered[b].kind
                            /\ [answered[b] EXCEPT !.about = about].answers = answered[b].answers
        <5>1. ASSUME NEW k \in CallStates
              PROVE  /\ [k EXCEPT !.about = about] \in CallStates
                     /\ [k EXCEPT !.about = about].about = about
                     /\ [k EXCEPT !.about = about].kind = k.kind
                     /\ [k EXCEPT !.about = about].answers = k.answers
          BY DEF CallStates
        <5> QED
          BY <4>2, <5>1
      <4>6. call' \in [Calls -> CallStates]
        BY <4>2, <4>5, <4>1
      <4> QED
        <5>1. ASSUME NEW b \in Calls
              PROVE  /\ call'[b].kind = call[b].kind
                     /\ call'[b].about = aboutNow(b)
                     /\ (b \notin D => call'[b].answers = call[b].answers)
                     /\ (b \in D => call'[b].answers = <<replies[b]>>)
          <6>1. CASE b = x.of
            <7>1. call'[b] = [answered[b] EXCEPT !.about = about]
              BY <4>4, <6>1
            <7> QED
              BY <3>1, <4>3, <4>5, <7>1, <6>1
          <6>2. CASE b # x.of
            BY <3>1, <4>3, <4>4, <6>2
          <6> QED
            BY <6>1, <6>2
        <5> QED
          BY <4>6, <5>1
    <3> QED
      BY <3>2, <3>3
  <2> QED
    BY <2>1
<1>8. \A b \in Calls : worker'[b] # worker[b] => worker[b] = "unborn" /\ b = x.of
                                                /\ x.type = "request"
  BY <1>2 DEF MessageInv, Msg
<1>9. /\ mailbox' \in Seq(Messages) /\ OnceInMail(mailbox')
      /\ \A i \in DOMAIN mailbox' :
            \/ \E j \in DOMAIN mailbox : j # 1 /\ mailbox'[i] = mailbox[j]
            \/ \E k \in Calls : mailbox'[i] = Msg("EXIT", k)
  <2>1. /\ Tail(mailbox) \in Seq(Messages) /\ OnceInMail(Tail(mailbox))
        /\ \A i \in DOMAIN Tail(mailbox) :
              i + 1 \in DOMAIN mailbox /\ i + 1 # 1 /\ Tail(mailbox)[i] = mailbox[i + 1]
    BY <1>1, TailOfMail DEF Inv
  <2>2. CASE mailbox' = Tail(mailbox)
    BY <2>1, <2>2
  <2>3. CASE \E k \in Calls : mailbox' = Append(Tail(mailbox), Msg("EXIT", k))
    <3>1. PICK k \in Calls : mailbox' = Append(Tail(mailbox), Msg("EXIT", k))
      BY <2>3
    <3>2. Msg("EXIT", k) \in Messages /\ Msg("EXIT", k).type \notin Kinds
      BY DEF Msg, Messages, Kinds
    <3> QED
      <4> DEFINE mail == Tail(mailbox)
      <4>1. /\ mailbox' = Append(mail, Msg("EXIT", k)) /\ mail \in Seq(Messages)
            /\ OnceInMail(mail)
        BY <3>1, <2>1
      <4>2. /\ mailbox' \in Seq(Messages) /\ OnceInMail(mailbox')
            /\ \A i \in DOMAIN mailbox' : \/ i \in DOMAIN mail /\ mailbox'[i] = mail[i]
                                         \/ mailbox'[i] = Msg("EXIT", k)
        <5> HIDE DEF mail
        <5> QED
          BY <3>2, <4>1, AppendToMail
      <4> QED
        BY <2>1, <4>2
  <2> QED
    BY <2>2, <2>3
<1>10. \A b \in Calls : CallInv(b, call'[b], worker', readied')
  <2>1. ASSUME NEW b \in Calls
        PROVE  CallInv(b, call'[b], worker', readied)
    <3>1. CallInv(b, call[b], worker, readied)
      BY DEF Inv
    <3>2. call'[b].kind = "none" => call'[b].answers = <<>> /\ worker'[b] = "unborn"
      <4>1. SUFFICES ASSUME call[b].kind = "none"
                     PROVE  call'[b].answers = <<>> /\ worker'[b] = "unborn"
        BY <1>7
      <4>2. b \notin Own(x)
        BY <4>1, <1>3 DEF Kinds
      <4>3. b \notin Waiting(manager)
        BY <4>1 DEF Inv, WaitInv, Waiting
      <4>4. worker'[b] = worker[b]
        BY <1>8, <4>2, <1>1 DEF Own, Kinds
      <4> QED
        BY <3>1, <4>1, <4>2, <4>3, <4>4, <1>7 DEF CallInv
    <3>3. CASE b \in D
      <4>1. call'[b].answers = <<replies[b]>> /\ Len(<<replies[b]>>) <= 1
        BY <3>3, <1>7
      <4>2. IsTrue(b, call'[b].about, replies[b], worker, readied)
        BY <3>3, <1>7
      <4>3. IsTrue(b, call'[b].about, replies[b], worker', readied)
        BY <4>2, <1>8, <1>7 DEF IsTrue, CallStates
      <4>4. \A i \in DOMAIN <<replies[b]>> : <<replies[b]>>[i] = replies[b]
        OBVIOUS
      <4> QED
        BY <3>2, <4>1, <4>3, <4>4 DEF CallInv
    <3>4. CASE b \notin D /\ b \in Own(x)
      <4>1. call'[b].answers = <<>> /\ Len(<<>>) <= 1
        BY <3>4, <1>3, <1>7
      <4> QED
        BY <3>2, <4>1 DEF CallInv
    <3>5. CASE b \notin D /\ b \notin Own(x)
      <4>1. call'[b].answers = call[b].answers /\ call'[b].about = call[b].about
        BY <3>5, <1>7
      <4>2. \A a \in call[b].about : a \in Calls
        BY <1>1 DEF CallStates
      <4>3. \A i \in DOMAIN call[b].answers :
               IsTrue(b, call[b].about, call[b].answers[i], worker', readied)
        BY <3>1, <4>2, <1>8 DEF CallInv, IsTrue
      <4> QED
        BY <3>1, <3>2, <4>1, <4>3 DEF CallInv
    <3> QED
      BY <3>3, <3>4, <3>5
  <2> QED
    BY <2>1
<1>11. WaitInv(manager', call', latest', worker')
  <2>1. \A b \in Waiting(manager') : call'[b].answers = <<>>
    <3>1. SUFFICES ASSUME NEW b \in Waiting(manager')
                   PROVE  call[b].answers = <<>> /\ b \notin D
      BY <1>1, <1>7
    <3>2. b \in Waiting(manager) \/ b \in Own(x)
      BY <1>1 DEF Waiting, Own, Msg, Kinds
    <3> QED
      BY <3>1, <3>2, <1>3, <1>4
  <2>2. /\ \A b \in manager'.launcher : call'[b].kind = "request"
        /\ \A b \in manager'.waiters : call'[b].kind = "await"
        /\ \A b \in manager'.canceller : call'[b].kind = "cancel"
    <3>1. \A b \in Calls : x.type \in Kinds /\ x.of = b => call[b].kind = x.type
      BY <1>3 DEF Own
    <3>2. \A b \in Waiting(manager') : b \in Calls /\ call'[b].kind = call[b].kind
      BY <1>1, <1>7
    <3> QED
      BY <3>1, <3>2 DEF Inv, WaitInv, Waiting, Msg, Kinds
  <2> QED
    BY <2>1, <2>2, <1>1, <1>7 DEF WaitInv
<1>12. \A i \in DOMAIN mailbox' :
          MessageInv(mailbox'[i], manager', call', worker', readied')
  <2>1. SUFFICES ASSUME NEW i \in DOMAIN mailbox'
                 PROVE  MessageInv(mailbox'[i], manager', call', worker', readied)
    OBVIOUS
  <2>2. CASE \E k \in Calls : mailbox'[i] = Msg("EXIT", k)
    BY <2>2 DEF Msg, MessageInv, Kinds
  <2>3. CASE \E j \in DOMAIN mailbox : j # 1 /\ mailbox'[i] = mailbox[j]
    <3>1. PICK j \in DOMAIN mailbox : j # 1 /\ mailbox'[i] = mailbox[j]
      BY <2>3
    <3> DEFINE y == mailbox[j]
    <3>2. MessageInv(y, manager, call, worker, readied) /\ y \in Messages
      BY <1>1 DEF Inv
    <3>3. y.type \in Kinds => y # x
      BY <1>1, <3>1 DEF Inv, OnceInMail
    <3> HIDE DEF y
    <3>4. y.type \in Kinds => y.of \notin Own(x)
      BY <3>2, <3>3, <1>1, <1>3 DEF Messages, MessageInv
    <3>5. y.of \in Calls /\ \A b \in Calls : x = Msg("request", b) => b \in Own(x)
      BY <3>2 DEF Messages, Msg, Own, Kinds
    <3>6. y.type \in Kinds => y.of \notin Waiting(manager) /\ y.of \notin D
      BY <3>2, <3>4, <3>5 DEF MessageInv
    <3>7. y.type \in Kinds => y.of \notin Waiting(manager')
      BY <3>4, <3>6 DEF Waiting, Own, Msg, Kinds
    <3>8. y.type = "request" => worker'[y.of] = "unborn"
      BY <3>2, <3>4, <3>5 DEF MessageInv, Kinds
    <3>9. y.type = "exit_status" => worker'[y.of] = "exited"
      BY <3>2, <3>5, <1>8 DEF MessageInv
    <3>10. y.type \in Kinds => call'[y.of].kind = y.type /\ call'[y.of].answers = <<>>
      BY <3>2, <3>5, <3>6, <1>7 DEF MessageInv
    <3> QED
      BY <3>1, <3>2, <3>7, <3>8, <3>9, <3>10 DEF MessageInv, y
  <2> QED
    BY <2>2, <2>3, <1>9
<1> QED
  BY <1>7, <1>9, <1>10, <1>11, <1>12 DEF Handled

LEMMA ToSome ==
    ASSUME NEW S \in SUBSET Calls, NEW answer \in Answers
    PROVE  To(S, answer) \in [S -> Answers] /\ \A b \in S : To(S, answer)[b] = answer
BY DEF To

LEMMA AndBoth ==
    ASSUME NEW S \in SUBSET Calls, NEW R \in SUBSET Calls,
           NEW first \in [S -> Answers], NEW second \in [R -> Answers]
    PROVE  /\ And(first, second) \in [S \cup R -> Answers]
           /\ \A b \in S : And(first, second)[b] = first[b]
           /\ \A b \in R \ S : And(first, second)[b] = second[b]
BY DEF And

\* A call that is answered as soon as it is handled, and truly.
LEMMA ReplyAtOnceKeeps ==
    ASSUME TypeOK, Inv, NEW kind \in Kinds, NEW c \in Calls, NEW answer \in Answers,
           ReplyAtOnce(kind, c, answer),
           IsTrue(c, latest, answer, worker, readied)
    PROVE  TypeOK' /\ Inv'
<1> DEFINE x == Msg(kind, c)
           replies == To({c}, answer)
<1>1. /\ mailbox # <<>> /\ x = Head(mailbox) /\ mailbox' = Tail(mailbox)
      /\ UNCHANGED <<manager, timers, workerVars, latest, crashes>>
      /\ call' = [Answered(replies) EXCEPT ![x.of].about = latest]
      /\ x.type = kind /\ x.of = c /\ Own(x) = {c}
  BY DEF ReplyAtOnce, Handles, Done, AnswerCall, Msg, Own
<1>2. mailbox \in Seq(Messages) /\ 1 \in DOMAIN mailbox /\ x = mailbox[1]
      /\ manager \in Managers /\ latest \in SUBSET Calls
  BY <1>1, TailOfMail DEF TypeOK
<1>3. MessageInv(x, manager, call, worker, readied)
  BY <1>2 DEF Inv
<1>4. c \notin Waiting(manager)
  BY <1>1, <1>3 DEF MessageInv
<1>5. \A b \in {c} : IsTrue(b, IF b \in Own(x) THEN latest ELSE call[b].about,
                            replies[b], worker, readied)
  BY <1>1, ToSome
<1>6. \A b \in Waiting(manager') :
         \A a \in (IF b \in Own(x) THEN latest ELSE call[b].about) :
            a \in latest' \/ worker'[a] = "exited"
  BY <1>1, <1>4 DEF Inv, WaitInv, workerVars
<1>7. replies \in [{c} -> Answers]
  BY ToSome
<1>8. Handled
  <2>1. /\ {c} \in SUBSET (Waiting(manager) \cup Own(x)) /\ Own(x) # {}
        /\ Waiting(manager') \cap {c} = {} /\ UNCHANGED <<manager, worker, readied>>
    BY <1>1, <1>4 DEF workerVars
  <2> HIDE DEF x, replies
  <2>2. Handling(x, {c}, replies, latest)
    BY <1>1, <1>2, <1>5, <1>6, <1>7, <2>1 DEF Handling
  <2> QED
    BY <2>2, HandlingKeeps
<1>9. TypeOK'
  BY <1>1, <1>8 DEF TypeOK, workerVars, Handled
<1> QED
  BY <1>1, <1>8, <1>9 DEF Inv, workerVars, Handled

\* A message that is no call: some of those who wait are answered, truly.
LEMMA SettleKeeps ==
    ASSUME TypeOK, Inv, NEW type, type \notin Kinds, NEW c \in Calls,
           NEW D \in SUBSET Waiting(manager), NEW replies \in [D -> Answers],
           NEW cancelled, NEW state \in Managers,
           Settle(type, c, replies, cancelled, state),
           \A b \in D : IsTrue(b, call[b].about, replies[b], worker, readied),
           state.launcher \subseteq manager.launcher,
           state.waiters \subseteq manager.waiters,
           state.canceller \subseteq manager.canceller,
           Waiting(state) \cap D = {},
           ManagerInv(state, latest, worker, readied),
           \A k \in manager.port : worker[k] \in Alive => k \in state.port \cup told
    PROVE  TypeOK' /\ Inv'
<1> DEFINE x == Msg(type, c)
<1>1. /\ mailbox # <<>> /\ x = Head(mailbox) /\ mailbox' = Tail(mailbox)
      /\ manager' = state /\ timers' \subseteq timers
      /\ UNCHANGED <<workerVars, latest, crashes>>
      /\ call' = Answered(replies)
      /\ x.type = type /\ x.of = c /\ Own(x) = {}
  BY DEF Settle, Answer, Handles, Done, Msg, Own
<1>2. \A b \in D : IsTrue(b, IF b \in Own(x) THEN {} ELSE call[b].about,
                          replies[b], worker, readied)
  BY <1>1
<1>3. \A b \in Waiting(manager') :
         \A a \in (IF b \in Own(x) THEN {} ELSE call[b].about) :
            a \in latest' \/ worker'[a] = "exited"
  BY <1>1 DEF Inv, WaitInv, workerVars, Waiting
<1>4. Handled
  <2>1. /\ D \in SUBSET (Waiting(manager) \cup Own(x)) /\ {} \in SUBSET Calls
        /\ Waiting(manager') \cap D = {} /\ UNCHANGED <<worker, readied>>
        /\ manager' \in Managers
        /\ \A b \in manager'.launcher : b \in manager.launcher
        /\ \A b \in manager'.waiters : b \in manager.waiters
        /\ \A b \in manager'.canceller : b \in manager.canceller
    BY <1>1 DEF workerVars
  <2> HIDE DEF x
  <2>2. Handling(x, D, replies, {})
    BY <1>1, <1>2, <1>3, <2>1 DEF Handling
  <2> QED
    BY <2>2, HandlingKeeps
<1>5. TypeOK'
  BY <1>1, <1>4 DEF TypeOK, workerVars, Handled
<1>6. \A b \in Calls : WorkerInv(b, manager', worker, told, pipe, open, lifetime, readied)
  BY <1>1 DEF Inv, WorkerInv
<1> QED
  BY <1>1, <1>4, <1>5, <1>6 DEF Inv, workerVars, Handled

\* A launch, or a spawn that fails, once the manager has let go of its port and of
\* everybody who waited for a worker that may still be there.
LEMMA LaunchKeeps ==
    ASSUME TypeOK, Inv, NEW c \in Calls, NEW kept \in Managers,
           NEW D \in SUBSET Waiting(manager), NEW replies \in [D -> Answers], NEW cancelled,
           Launch(c, kept, manager.port, replies, cancelled),
           \A b \in D : replies[b] \in {"launch_failed", "unknown"},
           kept.port = {}, kept.launcher = {}, kept.phase \in {"idle", "unknown"},
           kept.waiters \subseteq manager.waiters, kept.canceller \subseteq manager.canceller,
           Waiting(kept) \cap D = {},
           ManagerInv(kept, latest, worker, readied),
           \A b \in Waiting(kept) : \A a \in call[b].about : worker[a] = "exited"
    PROVE  TypeOK' /\ Inv'
<1> DEFINE x == Msg("request", c)
<1>1. /\ mailbox # <<>> /\ x = Head(mailbox) /\ mailbox' = Tail(mailbox)
      /\ x.type = "request" /\ x.of = c /\ Own(x) = {c}
      /\ told' = told \cup manager.port
      /\ UNCHANGED <<pipe, lifetime, readied, crashes>>
  BY DEF Launch, Handles, Done, Msg, Own, Kinds
<1>2. mailbox \in Seq(Messages) /\ 1 \in DOMAIN mailbox /\ x = mailbox[1]
      /\ manager \in Managers /\ latest \in SUBSET Calls
      /\ worker \in [Calls -> Alive \cup {"unborn", "exited"}]
  BY <1>1, TailOfMail DEF TypeOK
<1>3. MessageInv(x, manager, call, worker, readied)
  BY <1>2 DEF Inv
<1>4. c \notin Waiting(manager) /\ worker[c] = "unborn"
  BY <1>1, <1>3 DEF MessageInv, Kinds
<1>5. /\ Waiting(kept) \subseteq Waiting(manager) /\ Waiting(manager) \subseteq Calls
      /\ \A b \in Waiting(kept) : b # c /\ b \notin D
      /\ kept.launcher = {} /\ c \notin D
  BY <1>2, <1>4 DEF Waiting, Managers
<1>6. CASE /\ manager' = [kept EXCEPT !.port = {c}, !.phase = "starting",
                                      !.terminal = "none", !.launcher = {c}]
           /\ worker' = [worker EXCEPT ![c] = "spawned"]
           /\ open' = (open \ manager.port) \cup {c}
           /\ timers' = (timers \ cancelled) \cup {Msg("ready_timeout", c)}
           /\ latest' = {c}
           /\ AnswerCall(c, {c}, replies)
  <2>1. /\ manager' \in Managers /\ manager'.launcher = {c}
        /\ manager'.waiters = kept.waiters /\ manager'.canceller = kept.canceller
        /\ manager'.port = {c} /\ manager'.phase = "starting" /\ manager'.terminal = "none"
    BY <1>6 DEF Managers, Phases
  <2>2. /\ worker' \in [Calls -> Alive \cup {"unborn", "exited"}]
        /\ worker'[c] = "spawned" /\ \A b \in Calls : b # c => worker'[b] = worker[b]
    BY <1>2, <1>6 DEF Alive
  <2>3. Handled
    <3>1. call' = [Answered(replies) EXCEPT ![x.of].about = {c}]
      BY <1>1, <1>6 DEF AnswerCall
    <3>2. Waiting(manager') = {c} \cup Waiting(kept)
      BY <2>1, <1>5 DEF Waiting
    <3>3. \A b \in D : IsTrue(b, IF b \in Own(x) THEN {c} ELSE call[b].about,
                              replies[b], worker, readied)
      BY DEF IsTrue
    <3>4. \A b \in Calls : worker'[b] # worker[b] => x = Msg("request", b)
      BY <2>2
    <3>5. \A b \in Waiting(manager') :
             \A a \in (IF b \in Own(x) THEN {c} ELSE call[b].about) :
                a \in latest' \/ worker'[a] = "exited"
      <4>1. SUFFICES ASSUME NEW b \in Waiting(kept), NEW a \in call[b].about, a # c
                     PROVE  worker'[a] = "exited"
        BY <3>2, <1>1, <1>6, <1>5
      <4>2. a \in Calls /\ worker[a] = "exited"
        BY <4>1, <1>5 DEF TypeOK, CallStates
      <4> QED
        BY <4>1, <4>2, <2>2
    <3>6. \A b \in manager'.launcher : x = Msg("request", b)
      BY <2>1
    <3>7. Waiting(manager') \cap D = {}
      BY <3>2, <1>5
    <3> HIDE DEF x
    <3>8. Handling(x, D, replies, {c})
      BY <1>1, <1>5, <2>1, <3>1, <3>3, <3>4, <3>5, <3>6, <3>7 DEF Handling
    <3> QED
      BY <3>8, HandlingKeeps
  <2>4. TypeOK'
    <3>1. Msg("ready_timeout", c) \in [type : Timeouts, of : Calls]
      BY DEF Msg, Timeouts
    <3> QED
      BY <1>1, <1>2, <1>6, <2>1, <2>2, <2>3, <3>1 DEF TypeOK, Handled, Managers
  <2>5. ManagerInv(manager', latest', worker', readied')
    BY <1>6, <2>1 DEF ManagerInv
  <2>6. ASSUME NEW b \in Calls
        PROVE  WorkerInv(b, manager', worker', told', pipe', open', lifetime', readied')
    <3>1. WorkerInv(b, manager, worker, told, pipe, open, lifetime, readied)
      BY DEF Inv
    <3>2. CASE b = c
      <4>1. b \in manager'.port /\ b \in open' /\ worker'[b] = "spawned"
        BY <3>2, <1>6, <2>1, <2>2
      <4> QED
        BY <3>1, <4>1, <1>1 DEF WorkerInv
    <3>3. CASE b # c
      <4>1. worker'[b] = worker[b]
        BY <3>3, <2>2
      <4> QED
        BY <3>1, <4>1, <1>1, <1>6 DEF WorkerInv
    <3> QED
      BY <3>2, <3>3
  <2> QED
    BY <2>3, <2>4, <2>5, <2>6 DEF Inv, Handled
<1>7. CASE /\ manager' = kept
           /\ open' = open \ manager.port
           /\ timers' = timers \ cancelled
           /\ AnswerCall(c, latest, And(To({c}, "launch_failed"), replies))
           /\ UNCHANGED <<worker, latest>>
  <2> DEFINE all == And(To({c}, "launch_failed"), replies)
  <2>1. /\ all \in [{c} \cup D -> Answers]
        /\ \A b \in {c} \cup D : all[b] \in {"launch_failed", "unknown"}
    <3>1. {c} \in SUBSET Calls /\ D \in SUBSET Calls /\ "launch_failed" \in Answers
      BY <1>5 DEF Answers
    <3>2. To({c}, "launch_failed") \in [{c} -> Answers] /\ To({c}, "launch_failed")[c] = "launch_failed"
      BY <3>1, ToSome
    <3>3. /\ all \in [{c} \cup D -> Answers]
          /\ all[c] = To({c}, "launch_failed")[c]
          /\ \A b \in D \ {c} : all[b] = replies[b]
      BY <3>1, <3>2, AndBoth
    <3> QED
      BY <3>2, <3>3
  <2>2. Handled
    <3>1. call' = [Answered(all) EXCEPT ![x.of].about = latest]
      BY <1>1, <1>7 DEF AnswerCall
    <3> HIDE DEF all
    <3>2. \A b \in {c} \cup D : IsTrue(b, IF b \in Own(x) THEN latest ELSE call[b].about,
                                     all[b], worker, readied)
      BY <2>1 DEF IsTrue
    <3>3. \A b \in Waiting(manager') :
             \A a \in (IF b \in Own(x) THEN latest ELSE call[b].about) :
                a \in latest' \/ worker'[a] = "exited"
      BY <1>1, <1>5, <1>7
    <3>4. /\ {c} \cup D \subseteq Waiting(manager) \cup Own(x)
          /\ Waiting(manager') \cap ({c} \cup D) = {}
          /\ manager' \in Managers /\ UNCHANGED <<worker, readied>>
          /\ manager'.launcher = {}
          /\ \A b \in manager'.waiters : b \in manager.waiters
          /\ \A b \in manager'.canceller : b \in manager.canceller
      BY <1>1, <1>5, <1>7
    <3> HIDE DEF x
    <3>5. Handling(x, {c} \cup D, all, latest)
      BY <1>1, <1>2, <1>7, <2>1, <3>1, <3>2, <3>3, <3>4 DEF Handling
    <3> QED
      BY <3>5, HandlingKeeps
  <2>3. TypeOK'
    BY <1>1, <1>2, <1>7, <2>2 DEF TypeOK, Handled, Managers
  <2>4. ManagerInv(manager', latest', worker', readied')
    BY <1>1, <1>7
  <2>5. \A b \in Calls : WorkerInv(b, manager', worker', told', pipe', open', lifetime', readied')
    BY <1>1, <1>7 DEF Inv, WorkerInv
  <2> QED
    BY <2>2, <2>3, <2>4, <2>5 DEF Inv, Handled
<1> QED
  BY <1>6, <1>7 DEF Launch

-----------------------------------------------------------------------------
(* The handlers of calls.                                                  *)

LEMMA RequestKeeps ==
    ASSUME TypeOK, Inv, NEW c \in Calls,
           \/ RequestWhileStarting(c) \/ RequestWhileRunning(c)
           \/ RequestWhileIdle(c) \/ RequestWhileUnknown(c)
    PROVE  TypeOK' /\ Inv'
<1>0. /\ manager \in Managers /\ ManagerInv(manager, latest, worker, readied)
      /\ WaitInv(manager, call, latest, worker)
  BY DEF TypeOK, Inv
<1>1. CASE RequestWhileStarting(c)
  <2>1. IsTrue(c, latest, "rebuild_starting", worker, readied)
    BY DEF IsTrue
  <2>2. "request" \in Kinds /\ "rebuild_starting" \in Answers
    BY DEF Kinds, Answers
  <2> QED
    BY <1>1, <2>1, <2>2, ReplyAtOnceKeeps DEF RequestWhileStarting
<1>2. CASE RequestWhileRunning(c)
  <2>1. latest # {} /\ latest \subseteq readied
    BY <1>0, <1>2 DEF RequestWhileRunning, ManagerInv
  <2>2. IsTrue(c, latest, "already_running", worker, readied)
    BY <2>1 DEF IsTrue
  <2>3. "request" \in Kinds /\ "already_running" \in Answers
    BY DEF Kinds, Answers
  <2> QED
    BY <1>2, <2>2, <2>3, ReplyAtOnceKeeps DEF RequestWhileRunning
<1>3. CASE RequestWhileIdle(c)
  <2>1. manager.phase = "idle" /\ manager.port = {} /\ manager.launcher = {}
        /\ \A b \in latest : worker[b] = "exited"
    BY <1>0, <1>3 DEF RequestWhileIdle, ManagerInv
  <2>2. To({}, "unknown") \in [{} -> Answers]
    BY ToSome DEF Answers
  <2>3. \A b \in Waiting(manager) : \A a \in call[b].about : worker[a] = "exited"
    BY <1>0, <2>1 DEF WaitInv
  <2>4. Launch(c, manager, manager.port, To({}, "unknown"), {})
    BY <1>3, <2>1 DEF RequestWhileIdle
  <2> QED
    BY <1>0, <2>1, <2>2, <2>3, <2>4, LaunchKeeps
<1>4. CASE RequestWhileUnknown(c)
  <2> DEFINE kept == [Fresh EXCEPT !.phase = "unknown"]
             others == manager.waiters \cup manager.canceller
             replies == And(To(manager.launcher, "launch_failed"), To(others, "unknown"))
  <2>1. /\ kept \in Managers /\ kept.port = {} /\ kept.launcher = {} /\ kept.waiters = {}
        /\ kept.canceller = {} /\ kept.phase = "unknown" /\ kept.terminal = "none"
    BY DEF Fresh, Managers, Phases
  <2>2. Waiting(kept) = {}
    BY <2>1 DEF Waiting
  <2>3. ManagerInv(kept, latest, worker, readied)
    <3> HIDE DEF kept
    <3> QED
      BY <1>0, <2>1 DEF ManagerInv
  <2>4. /\ replies \in [Waiting(manager) -> Answers]
        /\ \A b \in Waiting(manager) : replies[b] \in {"launch_failed", "unknown"}
    <3>1. /\ manager.launcher \in SUBSET Calls /\ others \in SUBSET Calls
          /\ "launch_failed" \in Answers /\ "unknown" \in Answers
          /\ Waiting(manager) = manager.launcher \cup others
      BY <1>0 DEF Managers, Answers, Waiting
    <3>2. /\ To(manager.launcher, "launch_failed") \in [manager.launcher -> Answers]
          /\ \A b \in manager.launcher : To(manager.launcher, "launch_failed")[b] = "launch_failed"
          /\ To(others, "unknown") \in [others -> Answers]
          /\ \A b \in others : To(others, "unknown")[b] = "unknown"
      BY <3>1, ToSome
    <3> DEFINE first == To(manager.launcher, "launch_failed")
               second == To(others, "unknown")
    <3>3. first \in [manager.launcher -> Answers] /\ second \in [others -> Answers]
      BY <3>2
    <3> HIDE DEF others, first, second
    <3>4. /\ And(first, second) \in [manager.launcher \cup others -> Answers]
          /\ \A b \in manager.launcher : And(first, second)[b] = first[b]
          /\ \A b \in others \ manager.launcher : And(first, second)[b] = second[b]
      <4> DEFINE launcher == manager.launcher
      <4>1. /\ launcher \in SUBSET Calls /\ others \in SUBSET Calls
            /\ first \in [launcher -> Answers] /\ second \in [others -> Answers]
        BY <3>1, <3>3
      <4> HIDE DEF launcher
      <4>2. /\ And(first, second) \in [launcher \cup others -> Answers]
            /\ \A b \in launcher : And(first, second)[b] = first[b]
            /\ \A b \in others \ launcher : And(first, second)[b] = second[b]
        BY <4>1 DEF And
      <4> QED
        BY <4>2 DEF launcher
    <3>5. replies = And(first, second)
      BY DEF first, second
    <3> HIDE DEF replies
    <3> QED
      BY <3>1, <3>2, <3>4, <3>5 DEF first, second
  <2>5. PICK cancelled : Launch(c, kept, manager.port, replies, cancelled)
    BY <1>4 DEF RequestWhileUnknown
  <2> HIDE DEF kept, replies
  <2> QED
    BY <2>1, <2>2, <2>3, <2>4, <2>5, LaunchKeeps
<1> QED
  BY <1>1, <1>2, <1>3, <1>4

LEMMA CancelKeeps ==
    ASSUME TypeOK, Inv, NEW c \in Calls,
           CancelWhileIdle(c) \/ CancelOtherwise(c) \/ AwaitOver(c)
    PROVE  TypeOK' /\ Inv'
<1>0. ManagerInv(manager, latest, worker, readied) /\ manager \in Managers
  BY DEF Inv, TypeOK
<1>1. CASE CancelWhileIdle(c)
  <2>1. IsTrue(c, latest, "ok", worker, readied)
    BY <1>0, <1>1 DEF IsTrue, CancelWhileIdle, ManagerInv
  <2>2. "cancel" \in Kinds /\ "ok" \in Answers
    BY DEF Kinds, Answers
  <2> QED
    BY <1>1, <2>1, <2>2, ReplyAtOnceKeeps DEF CancelWhileIdle
<1>2. CASE CancelOtherwise(c)
  <2>1. IsTrue(c, latest, "already_cancelling", worker, readied)
    BY DEF IsTrue
  <2>2. "cancel" \in Kinds /\ "already_cancelling" \in Answers
    BY DEF Kinds, Answers
  <2> QED
    BY <1>2, <2>1, <2>2, ReplyAtOnceKeeps DEF CancelOtherwise
<1>3. CASE AwaitOver(c)
  <2>1. IsTrue(c, latest, manager.terminal, worker, readied)
    BY <1>0, <1>3 DEF IsTrue, AwaitOver, ManagerInv, Managers
  <2>2. "await" \in Kinds /\ manager.terminal \in Answers
    BY <1>0, <1>3 DEF Kinds, Answers, AwaitOver, Managers
  <2> QED
    BY <1>3, <2>1, <2>2, ReplyAtOnceKeeps DEF AwaitOver
<1> QED
  BY <1>1, <1>2, <1>3

\* Writing the stop byte tells the worker, or finds it gone.
LEMMA StopWritten ==
    ASSUME TypeOK, Inv, NEW k \in Calls, WriteStop(k), UNCHANGED worker
    PROVE  /\ \/ mailbox' = Tail(mailbox)
              \/ mailbox' = Append(Tail(mailbox), Msg("EXIT", k))
           /\ told' \subseteq Calls /\ open' \subseteq Calls
           /\ told \subseteq told'
           /\ \A b \in Calls : worker[b] \in Alive /\ b \in open \cup told => b \in open' \cup told'
BY DEF WriteStop, Done, TypeOK, Alive

LEMMA CancelWhileRunningKeeps ==
    ASSUME TypeOK, Inv, NEW c \in Calls, CancelWhileRunning(c)
    PROVE  TypeOK' /\ Inv'
<1> DEFINE x == Msg("cancel", c)
<1>1. /\ mailbox # <<>> /\ x = Head(mailbox) /\ manager.phase = "running"
      /\ x.type = "cancel" /\ x.of = c /\ Own(x) = {c}
      /\ timers' = timers \cup {Msg("cancel_timeout", c)}
      /\ UNCHANGED <<worker, pipe, lifetime, readied, latest, crashes>>
  BY DEF CancelWhileRunning, Handles, Msg, Own, Kinds
<1>2. mailbox \in Seq(Messages) /\ 1 \in DOMAIN mailbox /\ x = mailbox[1]
      /\ manager \in Managers /\ latest \in SUBSET Calls
      /\ ManagerInv(manager, latest, worker, readied)
  BY <1>1, TailOfMail DEF TypeOK, Inv
<1>3. MessageInv(x, manager, call, worker, readied)
  BY <1>2 DEF Inv
<1>4. c \notin Waiting(manager)
  BY <1>1, <1>3 DEF MessageInv, Kinds
<1>5. \A b \in Waiting(manager) : \A a \in call[b].about : a \in latest \/ worker[a] = "exited"
  BY DEF Inv, WaitInv
<1>6. timers' \subseteq [type : Timeouts, of : Calls]
  BY <1>1 DEF TypeOK, Msg, Timeouts
<1>7. CASE /\ \A k \in manager.port : WriteStop(k)
           /\ manager' = [manager EXCEPT !.phase = "cancelling", !.canceller = {c}]
           /\ AnswerCall(c, latest, To({}, "ok"))
  <2>1. PICK k \in Calls : manager.port = {k}
    BY <1>1, <1>2 DEF ManagerInv
  <2>2. /\ \/ mailbox' = Tail(mailbox)
           \/ \E b \in Calls : mailbox' = Append(Tail(mailbox), Msg("EXIT", b))
        /\ told' \subseteq Calls /\ open' \subseteq Calls /\ told \subseteq told'
        /\ \A b \in Calls : worker[b] \in Alive /\ b \in open \cup told => b \in open' \cup told'
    BY <1>1, <1>7, <2>1, StopWritten
  <2>3. /\ manager' \in Managers /\ manager'.port = manager.port
        /\ manager'.launcher = manager.launcher /\ manager'.waiters = manager.waiters
        /\ manager'.canceller = {c} /\ manager'.phase = "cancelling"
        /\ manager'.terminal = manager.terminal
    BY <1>2, <1>7 DEF Managers, Phases
  <2>4. Handled
    <3>1. To({}, "ok") \in [{} -> Answers]
      BY ToSome DEF Answers
    <3>2. call' = [Answered(To({}, "ok")) EXCEPT ![x.of].about = latest] /\ Own(x) # {}
      BY <1>1, <1>7 DEF AnswerCall
    <3>3. \A b \in Waiting(manager') : b \in Waiting(manager) \/ b \in Own(x)
      BY <1>1, <2>3 DEF Waiting
    <3>4. \A b \in Waiting(manager') :
             \A a \in (IF b \in Own(x) THEN latest ELSE call[b].about) :
                a \in latest' \/ worker'[a] = "exited"
      BY <1>1, <1>5, <3>3
    <3>5. /\ {} \subseteq Waiting(manager) \cup Own(x) /\ Waiting(manager') \cap {} = {}
          /\ \A b \in Calls : worker'[b] = worker[b]
          /\ \A b \in manager'.canceller : x = Msg("cancel", b)
          /\ \A b \in manager'.waiters : b \in manager.waiters
          /\ \A b \in manager'.launcher : b \in manager.launcher
      BY <1>1, <2>3
    <3> HIDE DEF x
    <3>6. Handling(x, {}, To({}, "ok"), latest)
      BY <1>1, <1>2, <2>2, <2>3, <3>1, <3>2, <3>4, <3>5 DEF Handling
    <3> QED
      BY <3>6, HandlingKeeps
  <2>5. TypeOK'
    BY <1>1, <1>6, <2>2, <2>3, <2>4 DEF TypeOK, Handled
  <2>6. ManagerInv(manager', latest', worker', readied')
    BY <1>1, <1>2, <2>3 DEF ManagerInv
  <2>7. \A b \in Calls : WorkerInv(b, manager', worker', told', pipe', open', lifetime', readied')
    BY <1>1, <2>2, <2>3 DEF Inv, WorkerInv
  <2> QED
    BY <2>4, <2>5, <2>6, <2>7 DEF Inv, Handled
<1>8. CASE /\ Done
           /\ AnswerCall(c, latest, To({c}, "port_closed"))
           /\ UNCHANGED <<manager, told, open>>
  <2>1. Handled
    <3>1. To({c}, "port_closed") \in [{c} -> Answers]
          /\ \A b \in {c} : To({c}, "port_closed")[b] = "port_closed"
      BY ToSome DEF Answers
    <3>2. call' = [Answered(To({c}, "port_closed")) EXCEPT ![x.of].about = latest] /\ Own(x) # {}
          /\ mailbox' = Tail(mailbox)
      BY <1>1, <1>8 DEF AnswerCall, Done
    <3>3. \A b \in {c} : IsTrue(b, IF b \in Own(x) THEN latest ELSE call[b].about,
                              To({c}, "port_closed")[b], worker, readied)
      BY <3>1 DEF IsTrue
    <3>4. \A b \in Waiting(manager') :
             \A a \in (IF b \in Own(x) THEN latest ELSE call[b].about) :
                a \in latest' \/ worker'[a] = "exited"
      BY <1>1, <1>5, <1>8
    <3>5. /\ {c} \subseteq Waiting(manager) \cup Own(x) /\ Waiting(manager') \cap {c} = {}
          /\ \A b \in Calls : worker'[b] = worker[b]
      BY <1>1, <1>4, <1>8
    <3> HIDE DEF x
    <3>6. Handling(x, {c}, To({c}, "port_closed"), latest)
      BY <1>1, <1>2, <1>8, <3>1, <3>2, <3>3, <3>4, <3>5 DEF Handling
    <3> QED
      BY <3>6, HandlingKeeps
  <2>2. TypeOK'
    BY <1>1, <1>6, <1>8, <2>1 DEF TypeOK, Handled
  <2> QED
    BY <1>1, <1>8, <2>1, <2>2 DEF Inv, Handled
<1> QED
  BY <1>7, <1>8 DEF CancelWhileRunning

LEMMA AwaitKeeps ==
    ASSUME TypeOK, Inv, NEW c \in Calls, Await(c)
    PROVE  TypeOK' /\ Inv'
<1> DEFINE x == Msg("await", c)
<1>1. /\ mailbox # <<>> /\ x = Head(mailbox) /\ mailbox' = Tail(mailbox)
      /\ x.type = "await" /\ x.of = c /\ Own(x) = {c}
      /\ manager' = [manager EXCEPT !.waiters = @ \cup {c}]
      /\ timers' = timers \cup {Msg("terminal_timeout", c)}
      /\ call' = [Answered(To({}, "timeout")) EXCEPT ![x.of].about = latest]
      /\ UNCHANGED <<workerVars, latest, crashes>>
  BY DEF Await, WaitForTerminal, AnswerCall, Done, Handles, Msg, Own, Kinds
<1>2. manager \in Managers /\ latest \in SUBSET Calls
  BY DEF TypeOK
<1>3. /\ manager' \in Managers /\ manager'.port = manager.port
      /\ manager'.launcher = manager.launcher
      /\ manager'.waiters = manager.waiters \cup {c}
      /\ manager'.canceller = manager.canceller /\ manager'.phase = manager.phase
      /\ manager'.terminal = manager.terminal
  BY <1>1, <1>2 DEF Managers
<1>4. Handled
  <2>1. To({}, "timeout") \in [{} -> Answers]
    BY ToSome DEF Answers
  <2>2. \A b \in Waiting(manager') : b \in Waiting(manager) \/ b \in Own(x)
    BY <1>1, <1>3 DEF Waiting
  <2>3. \A b \in Waiting(manager') :
           \A a \in (IF b \in Own(x) THEN latest ELSE call[b].about) :
              a \in latest' \/ worker'[a] = "exited"
    BY <1>1, <2>2 DEF Inv, WaitInv, workerVars
  <2>4. /\ {} \subseteq Waiting(manager) \cup Own(x) /\ Waiting(manager') \cap {} = {}
        /\ \A b \in Calls : worker'[b] = worker[b]
        /\ \A b \in manager'.waiters : b \in manager.waiters \/ x = Msg("await", b)
        /\ UNCHANGED readied /\ Own(x) # {}
    BY <1>1, <1>3 DEF workerVars
  <2> HIDE DEF x
  <2>5. Handling(x, {}, To({}, "timeout"), latest)
    BY <1>1, <1>2, <1>3, <2>1, <2>3, <2>4 DEF Handling
  <2> QED
    BY <2>5, HandlingKeeps
<1>5. TypeOK'
  <2>1. timers' \subseteq [type : Timeouts, of : Calls]
    BY <1>1 DEF TypeOK, Msg, Timeouts
  <2> QED
    BY <1>1, <1>3, <1>4, <2>1 DEF TypeOK, Handled, workerVars
<1>6. ManagerInv(manager', latest', worker', readied')
  BY <1>1, <1>3 DEF Inv, ManagerInv, workerVars
<1>7. \A b \in Calls : WorkerInv(b, manager', worker', told', pipe', open', lifetime', readied')
  BY <1>1, <1>3 DEF Inv, WorkerInv, workerVars
<1> QED
  BY <1>4, <1>5, <1>6, <1>7 DEF Inv, Handled

-----------------------------------------------------------------------------
(* The handlers of messages of ports and timers.                           *)

\* What the first message of the mailbox tells.
LEMMA HeadTells ==
    ASSUME TypeOK, Inv, NEW type, NEW c \in Calls, Handles(type, c)
    PROVE  /\ type = "ready" => c \in readied
           /\ type = "exit_status" => worker[c] = "exited"
<1>1. mailbox \in Seq(Messages) /\ mailbox # <<>> /\ Head(mailbox) = Msg(type, c)
  BY DEF Handles, TypeOK
<1>2. 1 \in DOMAIN mailbox /\ mailbox[1] = Msg(type, c)
  BY <1>1, TailOfMail
<1>3. MessageInv(Msg(type, c), manager, call, worker, readied)
  BY <1>2 DEF Inv
<1> QED
  BY <1>3 DEF MessageInv, Msg

LEMMA LauncherSettled ==
    ASSUME TypeOK, Inv, NEW c \in Calls, HandleReady(c) \/ HandleError(c)
    PROVE  TypeOK' /\ Inv'
<1>1. /\ manager \in Managers /\ manager.port = {c} /\ manager.phase = "starting"
      /\ ManagerInv(manager, latest, worker, readied)
  BY DEF HandleReady, HandleError, Starting, TypeOK, Inv
<1>2. manager.launcher \in SUBSET Waiting(manager) /\ manager.launcher \in SUBSET Calls
      /\ manager.launcher \subseteq {c}
  BY <1>1 DEF Waiting, Managers, ManagerInv
<1>3. \A b \in manager.launcher : b \notin manager.waiters \cup manager.canceller
  BY DEF Inv, WaitInv
<1>4. CASE HandleReady(c)
  <2> DEFINE state == [manager EXCEPT !.phase = "running", !.launcher = {}]
  <2>1. PICK cancelled : Settle("ready", c, To(manager.launcher, "started"), cancelled, state)
    BY <1>4 DEF HandleReady
  <2>2. c \in readied
    BY <2>1, HeadTells DEF Settle
  <2>3. /\ state \in Managers /\ state.port = manager.port /\ state.launcher = {}
        /\ state.waiters = manager.waiters /\ state.canceller = manager.canceller
        /\ state.phase = "running" /\ state.terminal = manager.terminal
    BY <1>1 DEF Managers, Phases
  <2> HIDE DEF state
  <2>4. ManagerInv(state, latest, worker, readied)
    BY <1>1, <2>2, <2>3 DEF ManagerInv
  <2>5. To(manager.launcher, "started") \in [manager.launcher -> Answers]
        /\ \A b \in manager.launcher :
              IsTrue(b, call[b].about, To(manager.launcher, "started")[b], worker, readied)
    BY <1>2, <2>2 DEF IsTrue, To, Answers
  <2>6. /\ Waiting(state) \cap manager.launcher = {}
        /\ \A k \in manager.port : worker[k] \in Alive => k \in state.port \cup told
        /\ "ready" \notin Kinds
    BY <1>3, <2>3 DEF Waiting, Kinds
  <2> QED
    BY <1>2, <2>1, <2>3, <2>4, <2>5, <2>6, SettleKeeps
<1>5. CASE HandleError(c)
  <2> DEFINE state == [manager EXCEPT !.phase = "unknown", !.launcher = {}]
  <2>1. PICK cancelled :
           Settle("error", c, To(manager.launcher, "launch_failed"), cancelled, state)
    BY <1>5 DEF HandleError
  <2>3. /\ state \in Managers /\ state.port = manager.port /\ state.launcher = {}
        /\ state.waiters = manager.waiters /\ state.canceller = manager.canceller
        /\ state.phase = "unknown" /\ state.terminal = manager.terminal
    BY <1>1 DEF Managers, Phases
  <2> HIDE DEF state
  <2>4. ManagerInv(state, latest, worker, readied)
    BY <1>1, <2>3 DEF ManagerInv
  <2>5. To(manager.launcher, "launch_failed") \in [manager.launcher -> Answers]
        /\ \A b \in manager.launcher :
              IsTrue(b, call[b].about, To(manager.launcher, "launch_failed")[b], worker, readied)
    BY DEF IsTrue, To, Answers
  <2>6. /\ Waiting(state) \cap manager.launcher = {}
        /\ \A k \in manager.port : worker[k] \in Alive => k \in state.port \cup told
        /\ "error" \notin Kinds
    BY <1>3, <2>3 DEF Waiting, Kinds
  <2> QED
    BY <1>2, <2>1, <2>3, <2>4, <2>5, <2>6, SettleKeeps
<1> QED
  BY <1>4, <1>5

LEMMA ExitStatusKeeps ==
    ASSUME TypeOK, Inv, NEW c \in Calls, HandleExitStatus(c)
    PROVE  TypeOK' /\ Inv'
<1> DEFINE state == [Fresh EXCEPT !.terminal = "exited"]
           replies == And(To(manager.launcher, "launch_failed"),
                          And(To(manager.waiters, "exited"), To(manager.canceller, "ok")))
<1>1. manager \in Managers /\ manager.port = {c}
      /\ ManagerInv(manager, latest, worker, readied)
  BY DEF HandleExitStatus, TypeOK, Inv
<1>2. PICK cancelled : Settle("exit_status", c, replies, cancelled, state)
  BY DEF HandleExitStatus, Exited
<1>3. worker[c] = "exited" /\ latest = {c}
  BY <1>1, <1>2, HeadTells DEF Settle, ManagerInv
<1>4. /\ replies \in [Waiting(manager) -> Answers]
      /\ \A b \in Waiting(manager) : replies[b] \in {"launch_failed", "exited", "ok"}
  BY DEF And, To, Waiting, Answers
<1>5. \A b \in Waiting(manager) : \A a \in call[b].about : worker[a] = "exited"
  BY <1>3 DEF Inv, WaitInv
<1>6. /\ state \in Managers /\ state.port = {} /\ state.launcher = {}
      /\ state.waiters = {} /\ state.canceller = {}
      /\ state.phase = "idle" /\ state.terminal = "exited"
  BY DEF Managers, Fresh, Phases
<1> HIDE DEF state, replies
<1>8. \A b \in Waiting(manager) : IsTrue(b, call[b].about, replies[b], worker, readied)
  BY <1>4, <1>5 DEF IsTrue
<1>9. ManagerInv(state, latest, worker, readied)
  BY <1>3, <1>6 DEF ManagerInv
<1>10. /\ Waiting(state) \cap Waiting(manager) = {}
       /\ \A k \in manager.port : worker[k] \in Alive => k \in state.port \cup told
       /\ "exit_status" \notin Kinds
  BY <1>1, <1>3, <1>6 DEF Waiting, Alive, Kinds
<1> QED
  BY <1>2, <1>4, <1>6, <1>8, <1>9, <1>10, SettleKeeps

LEMMA ExitStatusMissingKeeps ==
    ASSUME TypeOK, Inv, NEW c \in Calls, HandleExitStatusMissing(c)
    PROVE  TypeOK' /\ Inv'
<1> DEFINE state == [Fresh EXCEPT !.port = manager.port, !.phase = "unknown",
                                  !.terminal = "missing"]
           replies == And(To(manager.launcher, "launch_failed"),
                          To(manager.waiters \cup manager.canceller, "missing"))
<1>1. manager \in Managers /\ ManagerInv(manager, latest, worker, readied)
  BY DEF TypeOK, Inv
<1>2. PICK cancelled : Settle("exit_status_missing", c, replies, cancelled, state)
  BY DEF HandleExitStatusMissing
<1>3. /\ replies \in [Waiting(manager) -> Answers]
      /\ \A b \in Waiting(manager) : replies[b] \in {"launch_failed", "missing"}
  BY DEF And, To, Waiting, Answers
<1>4. /\ state \in Managers /\ state.port = manager.port /\ state.launcher = {}
      /\ state.waiters = {} /\ state.canceller = {}
      /\ state.phase = "unknown" /\ state.terminal = "missing"
  BY <1>1 DEF Managers, Fresh, Phases
<1> HIDE DEF state, replies
<1>5. \A b \in Waiting(manager) : IsTrue(b, call[b].about, replies[b], worker, readied)
  BY <1>3 DEF IsTrue
<1>6. ManagerInv(state, latest, worker, readied)
  BY <1>1, <1>4 DEF ManagerInv
<1>7. /\ Waiting(state) \cap Waiting(manager) = {}
      /\ \A k \in manager.port : worker[k] \in Alive => k \in state.port \cup told
      /\ "exit_status_missing" \notin Kinds
  BY <1>4 DEF Waiting, Kinds
<1> QED
  BY <1>2, <1>3, <1>4, <1>5, <1>6, <1>7, SettleKeeps

\* One that waits has waited long enough.
LEMMA TimeoutKeeps ==
    ASSUME TypeOK, Inv, NEW c \in Calls, HandleCancelTimeout(c) \/ HandleTerminalTimeout(c)
    PROVE  TypeOK' /\ Inv'
<1>1. manager \in Managers /\ ManagerInv(manager, latest, worker, readied)
      /\ WaitInv(manager, call, latest, worker)
  BY DEF TypeOK, Inv
<1>2. /\ To({c}, "timeout") \in [{c} -> Answers]
      /\ \A b \in {c} : IsTrue(b, call[b].about, To({c}, "timeout")[b], worker, readied)
      /\ "cancel_timeout" \notin Kinds /\ "terminal_timeout" \notin Kinds
  BY DEF IsTrue, To, Answers, Kinds
<1>3. CASE HandleCancelTimeout(c)
  <2> DEFINE state == [manager EXCEPT !.phase = "unknown", !.canceller = {}]
  <2>1. manager.canceller = {c}
        /\ Settle("cancel_timeout", c, To({c}, "timeout"), {}, state)
    BY <1>3 DEF HandleCancelTimeout
  <2>2. /\ state \in Managers /\ state.port = manager.port
        /\ state.launcher = manager.launcher
        /\ state.waiters = manager.waiters /\ state.canceller = {}
        /\ state.phase = "unknown" /\ state.terminal = manager.terminal
    BY <1>1 DEF Managers, Phases
  <2> HIDE DEF state
  <2>3. ManagerInv(state, latest, worker, readied)
    BY <1>1, <2>2 DEF ManagerInv
  <2>4. /\ Waiting(state) \cap {c} = {} /\ {c} \in SUBSET Waiting(manager)
        /\ \A k \in manager.port : worker[k] \in Alive => k \in state.port \cup told
    BY <1>1, <2>1, <2>2 DEF Waiting, WaitInv
  <2> QED
    BY <1>2, <2>1, <2>2, <2>3, <2>4, SettleKeeps
<1>4. CASE HandleTerminalTimeout(c)
  <2> DEFINE state == [manager EXCEPT !.waiters = @ \ {c}]
  <2>1. c \in manager.waiters
        /\ Settle("terminal_timeout", c, To({c}, "timeout"), {}, state)
    BY <1>4 DEF HandleTerminalTimeout
  <2>2. /\ state \in Managers /\ state.port = manager.port
        /\ state.launcher = manager.launcher
        /\ state.waiters = manager.waiters \ {c} /\ state.canceller = manager.canceller
        /\ state.phase = manager.phase /\ state.terminal = manager.terminal
    BY <1>1 DEF Managers
  <2> HIDE DEF state
  <2>3. ManagerInv(state, latest, worker, readied)
    BY <1>1, <2>2 DEF ManagerInv
  <2>4. /\ Waiting(state) \cap {c} = {} /\ {c} \in SUBSET Waiting(manager)
        /\ \A k \in manager.port : worker[k] \in Alive => k \in state.port \cup told
    BY <1>1, <2>1, <2>2 DEF Waiting, WaitInv
  <2> QED
    BY <1>2, <2>1, <2>2, <2>3, <2>4, SettleKeeps
<1> QED
  BY <1>3, <1>4

\* Nobody is answered.
LEMMA NobodyAnswered ==
    ASSUME TypeOK
    PROVE  Answered(To({}, "unknown")) = call
BY DEF Answered, To, TypeOK

\* A message that is no call and answers nobody.
LEMMA QuietKeeps ==
    ASSUME TypeOK, Inv, NEW x, mailbox # <<>>, x = Head(mailbox), x.type \notin Kinds,
           mailbox' = Tail(mailbox), manager' \in Managers,
           \A b \in Waiting(manager) : b \in Calls,
           manager'.port = manager.port, manager'.terminal = manager.terminal,
           manager'.launcher = manager.launcher, manager'.waiters = manager.waiters,
           manager'.canceller = manager.canceller,
           manager'.phase \in {manager.phase, "unknown"},
           timers' \subseteq [type : Timeouts, of : Calls],
           UNCHANGED <<workerVars, call, latest, crashes>>
    PROVE  TypeOK' /\ Inv'
<1>1. Handled
  <2>1. To({}, "unknown") \in [{} -> Answers]
    BY ToSome DEF Answers
  <2>2. /\ call' = Answered(To({}, "unknown")) /\ Own(x) = {}
        /\ Waiting(manager') = Waiting(manager)
    BY NobodyAnswered DEF Own, Waiting
  <2>3. \A b \in Waiting(manager') :
           \A a \in (IF b \in Own(x) THEN {} ELSE call[b].about) :
              a \in latest' \/ worker'[a] = "exited"
    BY <2>2 DEF Inv, WaitInv, workerVars
  <2>4. UNCHANGED <<worker, readied>>
    BY DEF workerVars
  <2>5. Handling(x, {}, To({}, "unknown"), {})
    BY <2>1, <2>2, <2>3, <2>4 DEF Handling
  <2> QED
    BY <2>5, HandlingKeeps
<1>2. TypeOK'
  BY <1>1 DEF TypeOK, Handled, workerVars
<1>3. ManagerInv(manager', latest', worker', readied')
  BY DEF Inv, ManagerInv, workerVars
<1>4. \A b \in Calls : WorkerInv(b, manager', worker', told', pipe', open', lifetime', readied')
  BY DEF Inv, WorkerInv, workerVars
<1> QED
  BY <1>1, <1>2, <1>3, <1>4 DEF Inv, Handled

LEMMA ExitOrIgnoredKeeps ==
    ASSUME TypeOK, Inv, Ignore \/ \E c \in Calls : HandleExit(c)
    PROVE  TypeOK' /\ Inv'
<1>1. manager \in Managers /\ \A b \in Waiting(manager) : b \in Calls
  BY DEF TypeOK, Waiting, Managers
<1>2. CASE Ignore
  BY <1>1, <1>2, QuietKeeps DEF Ignore, Done, TypeOK
<1>3. CASE \E c \in Calls : HandleExit(c)
  <2>1. PICK c \in Calls : HandleExit(c)
    BY <1>3
  <2>2. /\ manager' = [manager EXCEPT !.phase = "unknown", !.grace = TRUE]
        /\ timers' = timers \cup {Msg("exit_status_missing", c)}
        /\ mailbox # <<>> /\ Head(mailbox) = Msg("EXIT", c) /\ mailbox' = Tail(mailbox)
        /\ UNCHANGED <<workerVars, call, latest, crashes>>
    BY <2>1 DEF HandleExit, Handles, Done
  <2>3. /\ manager' \in Managers
        /\ manager'.port = manager.port /\ manager'.terminal = manager.terminal
        /\ manager'.launcher = manager.launcher /\ manager'.waiters = manager.waiters
        /\ manager'.canceller = manager.canceller /\ manager'.phase = "unknown"
    BY <1>1, <2>2 DEF Managers, Phases
  <2>4. timers' \subseteq [type : Timeouts, of : Calls]
    BY <2>2 DEF TypeOK, Msg, Timeouts
  <2>5. Head(mailbox).type \notin Kinds
    BY <2>2 DEF Msg, Kinds
  <2> QED
    BY <1>1, <2>2, <2>3, <2>4, <2>5, QuietKeeps
<1> QED
  BY <1>2, <1>3

LEMMA ReadyTimeoutKeeps ==
    ASSUME TypeOK, Inv, NEW c \in Calls, HandleReadyTimeout(c)
    PROVE  TypeOK' /\ Inv'
<1> DEFINE x == Msg("ready_timeout", c)
           replies == To(manager.launcher, "ready_timeout")
<1>1. /\ mailbox # <<>> /\ x = Head(mailbox) /\ manager.port = {c}
      /\ x.type = "ready_timeout" /\ x.of = c /\ Own(x) = {}
      /\ call' = Answered(replies)
      /\ manager' = [manager EXCEPT !.phase = "unknown", !.launcher = {}]
      /\ UNCHANGED <<timers, worker, pipe, lifetime, readied, latest, crashes>>
  BY DEF HandleReadyTimeout, Starting, Answer, Handles, Msg, Own, Kinds
<1>2. manager \in Managers /\ ManagerInv(manager, latest, worker, readied)
  BY DEF TypeOK, Inv
<1>3. /\ manager' \in Managers /\ manager'.port = manager.port /\ manager'.launcher = {}
      /\ manager'.waiters = manager.waiters /\ manager'.canceller = manager.canceller
      /\ manager'.phase = "unknown" /\ manager'.terminal = manager.terminal
  BY <1>1, <1>2 DEF Managers, Phases
<1>4. /\ \/ mailbox' = Tail(mailbox)
         \/ mailbox' = Append(Tail(mailbox), Msg("EXIT", c))
      /\ told' \subseteq Calls /\ open' \subseteq Calls /\ told \subseteq told'
      /\ \A b \in Calls : worker[b] \in Alive /\ b \in open \cup told => b \in open' \cup told'
  <2>1. CASE WriteStop(c)
    BY <2>1, <1>1, StopWritten
  <2>2. CASE Done /\ UNCHANGED <<told, open>>
    BY <2>2 DEF Done, TypeOK
  <2> QED
    BY <2>1, <2>2 DEF HandleReadyTimeout
<1>5. Handled
  <2>1. /\ replies \in [manager.launcher -> Answers]
        /\ \A b \in manager.launcher : IsTrue(b, IF b \in Own(x) THEN {} ELSE call[b].about,
                                              replies[b], worker, readied)
    BY DEF To, Answers, IsTrue
  <2>2. \A b \in manager.launcher : b \notin manager.waiters \cup manager.canceller
    BY DEF Inv, WaitInv
  <2>3. /\ Waiting(manager') \cap manager.launcher = {}
        /\ Waiting(manager') \subseteq Waiting(manager)
        /\ manager.launcher \subseteq Waiting(manager) \cup Own(x)
    BY <1>3, <2>2 DEF Waiting
  <2>4. \A b \in Waiting(manager') :
           \A a \in (IF b \in Own(x) THEN {} ELSE call[b].about) :
              a \in latest' \/ worker'[a] = "exited"
    BY <1>1, <2>3 DEF Inv, WaitInv
  <2> HIDE DEF x, replies
  <2>5. Handling(x, manager.launcher, replies, {})
    BY <1>1, <1>3, <1>4, <2>1, <2>3, <2>4 DEF Handling
  <2> QED
    BY <2>5, HandlingKeeps
<1>6. TypeOK'
  BY <1>1, <1>3, <1>4, <1>5 DEF TypeOK, Handled
<1>7. ManagerInv(manager', latest', worker', readied')
  BY <1>1, <1>2, <1>3 DEF ManagerInv
<1>8. \A b \in Calls : WorkerInv(b, manager', worker', told', pipe', open', lifetime', readied')
  BY <1>1, <1>3, <1>4 DEF Inv, WorkerInv
<1> QED
  BY <1>5, <1>6, <1>7, <1>8 DEF Inv, Handled

LEMMA HandleKeeps ==
    ASSUME TypeOK, Inv, Handle
    PROVE  TypeOK' /\ Inv'
<1>1. ASSUME NEW c \in Calls, Handler(c)
      PROVE  TypeOK' /\ Inv'
  BY <1>1, RequestKeeps, CancelKeeps, CancelWhileRunningKeeps, AwaitKeeps, LauncherSettled,
     ExitStatusKeeps, ExitOrIgnoredKeeps, ExitStatusMissingKeeps, ReadyTimeoutKeeps, TimeoutKeeps
     DEF Handler
<1> QED
  BY <1>1, ExitOrIgnoredKeeps DEF Handle

-----------------------------------------------------------------------------
(* What happens outside the manager.                                       *)

\* A message that is no call joins the mailbox; workers and calls stay as they are.
LEMMA ArrivalKeeps ==
    ASSUME TypeOK, Inv, NEW mail \in Seq(Messages), NEW y \in Messages, y.type \notin Kinds,
           OnceInMail(mail),
           \A i \in DOMAIN mail : MessageInv(mail[i], manager, call, worker, readied),
           MessageInv(y, manager, call, worker, readied)
    PROVE  /\ Append(mail, y) \in Seq(Messages)
           /\ OnceInMail(Append(mail, y))
           /\ \A i \in DOMAIN Append(mail, y) :
                 MessageInv(Append(mail, y)[i], manager, call, worker, readied)
BY AppendToMail

LEMMA DeliverKeeps ==
    ASSUME TypeOK, Inv, NEW c \in Calls, Deliver(c)
    PROVE  TypeOK' /\ Inv'
<1>0. /\ mailbox \in Seq(Messages) /\ OnceInMail(mailbox)
      /\ \A i \in DOMAIN mailbox : MessageInv(mailbox[i], manager, call, worker, readied)
      /\ \A b \in Calls : WorkerInv(b, manager, worker, told, pipe, open, lifetime, readied)
  BY DEF TypeOK, Inv
<1>1. CASE DeliverFrame(c)
  <2> DEFINE y == Msg(Head(pipe[c]), c)
  <2>1. /\ pipe[c] \in Seq({"ready", "error"}) /\ pipe[c] # <<>>
        /\ mailbox' = Append(mailbox, y)
        /\ pipe' = [pipe EXCEPT ![c] = Tail(pipe[c])]
        /\ UNCHANGED <<manager, timers, worker, told, open, lifetime, readied, call,
                       latest, crashes>>
    BY <1>1 DEF DeliverFrame, TypeOK
  <2>2. /\ Head(pipe[c]) \in {"ready", "error"} /\ Head(pipe[c]) = pipe[c][1]
        /\ 1 \in DOMAIN pipe[c]
        /\ Tail(pipe[c]) \in Seq({"ready", "error"})
        /\ \A i \in DOMAIN Tail(pipe[c]) :
              i + 1 \in DOMAIN pipe[c] /\ Tail(pipe[c])[i] = pipe[c][i + 1]
    BY <2>1
  <2>3. Head(pipe[c]) = "ready" => c \in readied
    BY <1>0, <2>2 DEF WorkerInv
  <2>4. /\ y \in Messages /\ y.type \notin Kinds
        /\ MessageInv(y, manager, call, worker, readied)
    BY <2>2, <2>3 DEF Msg, Messages, Kinds, MessageInv
  <2>5. /\ mailbox' \in Seq(Messages) /\ OnceInMail(mailbox')
        /\ \A i \in DOMAIN mailbox' : MessageInv(mailbox'[i], manager, call, worker, readied)
    <3> HIDE DEF y
    <3> QED
      BY <1>0, <2>1, <2>4, ArrivalKeeps
  <2>6. \A b \in Calls : b # c => pipe'[b] = pipe[b]
    BY <2>1 DEF TypeOK
  <2>7. pipe'[c] = Tail(pipe[c]) /\ pipe' \in [Calls -> Seq({"ready", "error"})]
    BY <2>1, <2>2 DEF TypeOK
  <2>8. TypeOK'
    BY <2>1, <2>5, <2>7 DEF TypeOK
  <2>9. ASSUME NEW b \in Calls
        PROVE  WorkerInv(b, manager, worker, told, pipe', open, lifetime, readied)
    <3>1. WorkerInv(b, manager, worker, told, pipe, open, lifetime, readied)
      BY <1>0
    <3>2. CASE b = c
      <4>1. \A i \in DOMAIN pipe'[c] : pipe'[c][i] = "ready" => c \in readied
        BY <3>1, <3>2, <2>2, <2>7 DEF WorkerInv
      <4> QED
        BY <3>1, <3>2, <4>1 DEF WorkerInv
    <3>3. CASE b # c
      BY <3>1, <3>3, <2>6 DEF WorkerInv
    <3> QED
      BY <3>2, <3>3
  <2> QED
    BY <2>1, <2>5, <2>8, <2>9 DEF Inv
<1>2. CASE DeliverExit(c)
  <2> DEFINE first == Msg("exit_status", c)
             second == Msg("EXIT", c)
  <2>1. /\ worker[c] = "exited"
        /\ mailbox' = mailbox \o <<first, second>>
        /\ open' = open \ {c}
        /\ UNCHANGED <<manager, timers, worker, told, pipe, lifetime, readied, call,
                       latest, crashes>>
    BY <1>2 DEF DeliverExit
  <2>2. /\ first \in Messages /\ first.type \notin Kinds
        /\ MessageInv(first, manager, call, worker, readied)
        /\ second \in Messages /\ second.type \notin Kinds
        /\ MessageInv(second, manager, call, worker, readied)
    BY <2>1 DEF Msg, Messages, Kinds, MessageInv
  <2> HIDE DEF first, second
  <2>3. mailbox \o <<first, second>> = Append(Append(mailbox, first), second)
    BY <1>0, <2>2
  <2>4. /\ Append(mailbox, first) \in Seq(Messages) /\ OnceInMail(Append(mailbox, first))
        /\ \A i \in DOMAIN Append(mailbox, first) :
              MessageInv(Append(mailbox, first)[i], manager, call, worker, readied)
    BY <1>0, <2>2, ArrivalKeeps
  <2>5. /\ mailbox' \in Seq(Messages) /\ OnceInMail(mailbox')
        /\ \A i \in DOMAIN mailbox' : MessageInv(mailbox'[i], manager, call, worker, readied)
    <3> DEFINE mail == Append(mailbox, first)
    <3>1. mailbox' = Append(mail, second)
      BY <2>1, <2>3
    <3> HIDE DEF mail
    <3> QED
      BY <2>2, <2>4, <3>1, ArrivalKeeps DEF mail
  <2>6. TypeOK'
    BY <2>1, <2>5 DEF TypeOK
  <2>7. \A b \in Calls : WorkerInv(b, manager, worker, told, pipe, open', lifetime, readied)
    BY <1>0, <2>1 DEF WorkerInv, Alive
  <2> QED
    BY <2>1, <2>5, <2>6, <2>7 DEF Inv
<1> QED
  BY <1>1, <1>2 DEF Deliver

LEMMA FireKeeps ==
    ASSUME TypeOK, Inv, NEW t \in timers, Fire(t)
    PROVE  TypeOK' /\ Inv'
<1>1. /\ timers' = timers \ {t} /\ mailbox' = Append(mailbox, t)
      /\ UNCHANGED <<manager, workerVars, call, latest, crashes>>
  BY DEF Fire
<1>2. /\ t \in Messages /\ t.type \notin Kinds
      /\ MessageInv(t, manager, call, worker, readied)
  BY DEF TypeOK, Timeouts, Messages, Kinds, MessageInv
<1>3. /\ mailbox' \in Seq(Messages) /\ OnceInMail(mailbox')
      /\ \A i \in DOMAIN mailbox' : MessageInv(mailbox'[i], manager, call, worker, readied)
  BY <1>1, <1>2, ArrivalKeeps DEF TypeOK, Inv
<1>4. TypeOK'
  BY <1>1, <1>3 DEF TypeOK, workerVars
<1> QED
  BY <1>1, <1>3, <1>4 DEF Inv, workerVars

LEMMA IssueKeeps ==
    ASSUME TypeOK, Inv, NEW c \in Calls, Issue(c)
    PROVE  TypeOK' /\ Inv'
<1>1. PICK kind \in KindsOf[c] : /\ call' = [call EXCEPT ![c].kind = kind]
                                 /\ mailbox' = Append(mailbox, Msg(kind, c))
  BY DEF Issue
<1>2. kind \in Kinds
  BY <1>1, ManagerAssumption DEF Calls
<1>3. /\ call[c].kind = "none" /\ call \in [Calls -> CallStates]
      /\ UNCHANGED <<manager, timers, workerVars, latest, crashes>>
  BY DEF Issue, TypeOK
<1>4. call[c].answers = <<>> /\ worker[c] = "unborn"
  BY <1>3 DEF Inv, CallInv
<1>5. /\ call' \in [Calls -> CallStates]
      /\ \A b \in Calls : b # c => call'[b] = call[b]
      /\ call'[c].kind = kind /\ call'[c].answers = <<>> /\ call'[c].about = call[c].about
  <2>1. ASSUME NEW k \in CallStates
        PROVE  /\ [k EXCEPT !.kind = kind] \in CallStates
               /\ [k EXCEPT !.kind = kind].kind = kind
               /\ [k EXCEPT !.kind = kind].answers = k.answers
               /\ [k EXCEPT !.kind = kind].about = k.about
    BY <1>2 DEF CallStates
  <2> QED
    BY <1>1, <1>3, <1>4, <2>1
<1>6. c \notin Waiting(manager)
  BY <1>3 DEF Inv, WaitInv, Waiting
<1> DEFINE y == Msg(kind, c)
<1>7. y \in Messages /\ y.type = kind /\ y.of = c
  BY <1>2 DEF Msg, Messages
<1>8. \A i \in DOMAIN mailbox : mailbox[i].type \in Kinds => mailbox[i].of # c
  BY <1>3 DEF Inv, MessageInv, Kinds
<1>9. MessageInv(y, manager, call', worker, readied)
  BY <1>2, <1>4, <1>5, <1>6, <1>7 DEF MessageInv, Kinds
<1>10. \A i \in DOMAIN mailbox : MessageInv(mailbox[i], manager, call', worker, readied)
  <2>1. \A i \in DOMAIN mailbox : mailbox[i] \in Messages
    BY DEF TypeOK
  <2> QED
    BY <1>5, <1>8, <2>1 DEF Inv, MessageInv, Messages
<1>11. /\ mailbox' \in Seq(Messages) /\ OnceInMail(mailbox')
       /\ \A i \in DOMAIN mailbox' : MessageInv(mailbox'[i], manager, call', worker, readied)
  <2>1. \A i \in DOMAIN mailbox : mailbox[i] # y
    BY <1>2, <1>7, <1>8
  <2>2. mailbox' = Append(mailbox, y) /\ mailbox \in Seq(Messages) /\ OnceInMail(mailbox)
    BY <1>1 DEF TypeOK, Inv
  <2> HIDE DEF y
  <2> QED
    BY <1>7, <1>9, <1>10, <2>1, <2>2, AppendToMail
<1>12. TypeOK'
  BY <1>3, <1>5, <1>11 DEF TypeOK, workerVars
<1>13. ASSUME NEW b \in Calls
       PROVE  CallInv(b, call'[b], worker, readied)
  <2>1. CASE b = c
    <3>1. Len(<<>>) <= 1 /\ DOMAIN <<>> = {}
      OBVIOUS
    <3> QED
      BY <1>2, <1>5, <2>1, <3>1 DEF CallInv, Kinds
  <2>2. CASE b # c
    BY <1>5, <2>2 DEF Inv
  <2> QED
    BY <2>1, <2>2
<1>14. WaitInv(manager, call', latest, worker)
  <2>1. \A b \in Waiting(manager) : b \in Calls /\ call'[b] = call[b]
    BY <1>5, <1>6 DEF TypeOK, Waiting, Managers
  <2> QED
    BY <2>1 DEF Inv, WaitInv, Waiting
<1> QED
  BY <1>3, <1>11, <1>12, <1>13, <1>14 DEF Inv, workerVars

\* Whatever the manager was doing, it starts afresh.
LEMMA CrashKeeps ==
    ASSUME TypeOK, Inv, Crash
    PROVE  TypeOK' /\ Inv'
<1> DEFINE D == {c \in Calls : call[c].kind # "none" /\ call[c].answers = <<>>}
           replies == To(D, "down")
<1>1. /\ manager' = Fresh /\ mailbox' = <<>> /\ timers' = {} /\ told' = told \cup open
      /\ open' = {} /\ latest' = {} /\ crashes' = crashes + 1
      /\ call' = Answered(replies)
      /\ UNCHANGED <<worker, pipe, lifetime, readied>>
  BY DEF Crash, Answer
<1>2. D \in SUBSET Calls /\ replies \in [D -> Answers] /\ \A b \in D : replies[b] = "down"
  BY DEF To, Answers
<1>3. \A b \in D : call[b].answers = <<>> /\ call[b].kind # "none"
  OBVIOUS
<1> HIDE DEF D, replies
<1>4. /\ call' \in [Calls -> CallStates]
      /\ \A b \in Calls : /\ call'[b].kind = call[b].kind /\ call'[b].about = call[b].about
                          /\ (b \notin D => call'[b].answers = call[b].answers)
                          /\ (b \in D => call'[b].answers = <<replies[b]>>)
  BY <1>1, <1>2, <1>3, AnsweredCalls
<1>5. /\ Fresh \in Managers /\ Fresh.port = {} /\ Fresh.launcher = {} /\ Fresh.waiters = {}
      /\ Fresh.canceller = {} /\ Fresh.phase = "idle" /\ Fresh.terminal = "none"
  BY DEF Fresh, Managers, Phases
<1>6. TypeOK'
  BY <1>1, <1>4, <1>5 DEF TypeOK
<1>7. ASSUME NEW b \in Calls
      PROVE  CallInv(b, call'[b], worker, readied)
  <2>1. CallInv(b, call[b], worker, readied)
    BY DEF Inv
  <2>2. CASE b \in D
    <3>1. /\ call'[b].answers = <<replies[b]>> /\ Len(<<replies[b]>>) <= 1
          /\ \A i \in DOMAIN <<replies[b]>> : <<replies[b]>>[i] = replies[b]
      BY <2>2, <1>4
    <3>2. IsTrue(b, call'[b].about, replies[b], worker, readied)
      BY <2>2, <1>2 DEF IsTrue
    <3> QED
      BY <3>1, <3>2, <2>2, <1>3, <1>4 DEF CallInv
  <2>3. CASE b \notin D
    BY <2>1, <2>3, <1>4 DEF CallInv
  <2> QED
    BY <2>2, <2>3
<1>8. WaitInv(manager', call', latest', worker')
  BY <1>1, <1>5 DEF WaitInv, Waiting
<1>9. ManagerInv(manager', latest', worker', readied')
  BY <1>1, <1>5 DEF ManagerInv
<1>10. \A b \in Calls : WorkerInv(b, manager', worker', told', pipe', open', lifetime', readied')
  BY <1>1, <1>5 DEF Inv, WorkerInv
<1>11. DOMAIN mailbox' = {} /\ OnceInMail(mailbox')
  BY <1>1 DEF OnceInMail
<1> QED
  BY <1>1, <1>6, <1>7, <1>8, <1>9, <1>10, <1>11 DEF Inv

-----------------------------------------------------------------------------
(* The workers.                                                            *)

\* A worker that goes on, or ends, changes nothing for calls, manager and mailbox.
LEMMA GoingKeeps ==
    ASSUME TypeOK, Inv, NEW c \in Calls, NEW from \in SUBSET Alive,
           NEW to \in Alive \cup {"exited"}, Goes(c, from, to), readied \subseteq readied'
    PROVE  /\ worker' \in [Calls -> Alive \cup {"unborn", "exited"}]
           /\ worker'[c] = to /\ worker[c] \in from /\ \A b \in Calls : b # c => worker'[b] = worker[b]
           /\ \A b \in Calls : CallInv(b, call'[b], worker', readied')
           /\ WaitInv(manager', call', latest', worker')
           /\ ManagerInv(manager', latest', worker', readied')
           /\ \A i \in DOMAIN mailbox' :
                 MessageInv(mailbox'[i], manager', call', worker', readied')
           /\ OnceInMail(mailbox')
<1>1. /\ worker[c] \in from /\ worker' = [worker EXCEPT ![c] = to]
      /\ UNCHANGED <<manager, mailbox, timers, told, open, call, latest, crashes>>
  BY DEF Goes
<1>2. /\ worker' \in [Calls -> Alive \cup {"unborn", "exited"}]
      /\ worker'[c] = to /\ \A b \in Calls : b # c => worker'[b] = worker[b]
  BY <1>1 DEF TypeOK
<1>3. /\ \A b \in Calls : worker[b] = "unborn" <=> worker'[b] = "unborn"
      /\ \A b \in Calls : worker[b] = "exited" => worker'[b] = "exited"
  BY <1>1, <1>2 DEF Alive
<1>4. /\ \A b \in Calls : call[b] \in CallStates /\ call[b].about \subseteq Calls
      /\ latest \subseteq Calls /\ Waiting(manager) \subseteq Calls
      /\ \A i \in DOMAIN mailbox : mailbox[i] \in Messages /\ mailbox[i].of \in Calls
  <2>1. \A i \in DOMAIN mailbox : mailbox[i] \in Messages
    BY DEF TypeOK
  <2>2. \A b \in Calls : call[b] \in CallStates
    BY DEF TypeOK
  <2>3. \A k \in CallStates : k.about \subseteq Calls
    BY DEF CallStates
  <2>4. \A x \in Messages : x.of \in Calls
    BY DEF Messages
  <2>5. latest \subseteq Calls /\ Waiting(manager) \subseteq Calls
    BY DEF TypeOK, Waiting, Managers
  <2> QED
    BY <2>1, <2>2, <2>3, <2>4, <2>5
<1>5. ASSUME NEW b \in Calls
      PROVE  CallInv(b, call[b], worker', readied')
  <2>1. CallInv(b, call[b], worker, readied)
    BY DEF Inv
  <2>2. ASSUME NEW answer, IsTrue(b, call[b].about, answer, worker, readied)
        PROVE  IsTrue(b, call[b].about, answer, worker', readied')
    BY <2>2, <1>3, <1>4 DEF IsTrue
  <2> QED
    BY <2>1, <2>2, <1>3 DEF CallInv
<1>6. WaitInv(manager, call, latest, worker')
  BY <1>3, <1>4 DEF Inv, WaitInv
<1>7. ManagerInv(manager, latest, worker', readied')
  BY <1>3, <1>4 DEF Inv, ManagerInv
<1>8. \A i \in DOMAIN mailbox : MessageInv(mailbox[i], manager, call, worker', readied')
  BY <1>3, <1>4 DEF Inv, MessageInv
<1> QED
  BY <1>1, <1>2, <1>5, <1>6, <1>7, <1>8 DEF Inv

LEMMA WorkKeeps ==
    ASSUME TypeOK, Inv, NEW c \in Calls, Work(c)
    PROVE  TypeOK' /\ Inv'
<1> DEFINE Workers == \A b \in Calls : WorkerInv(b, manager', worker', told', pipe', open',
                                                 lifetime', readied')
<1>0. /\ \A b \in Calls : WorkerInv(b, manager, worker, told, pipe, open, lifetime, readied)
      /\ pipe \in [Calls -> Seq({"ready", "error"})]
  BY DEF Inv, TypeOK
<1>1. ASSUME NEW from \in SUBSET Alive, NEW to \in Alive \cup {"exited"}, Goes(c, from, to),
             readied' \in {readied, readied \cup {c}}, lifetime' \subseteq Calls,
             pipe' \in [Calls -> Seq({"ready", "error"})], Workers
      PROVE  TypeOK' /\ Inv'
  <2>1. /\ worker' \in [Calls -> Alive \cup {"unborn", "exited"}]
        /\ \A b \in Calls : CallInv(b, call'[b], worker', readied')
        /\ WaitInv(manager', call', latest', worker')
        /\ ManagerInv(manager', latest', worker', readied')
        /\ \A i \in DOMAIN mailbox' :
              MessageInv(mailbox'[i], manager', call', worker', readied')
        /\ OnceInMail(mailbox')
    BY <1>1, GoingKeeps
  <2>2. UNCHANGED <<manager, mailbox, timers, told, open, call, latest, crashes>>
    BY <1>1 DEF Goes
  <2>3. TypeOK'
    BY <1>1, <2>1, <2>2 DEF TypeOK
  <2> QED
    BY <1>1, <2>1, <2>3 DEF Inv
\* Only c moves, to a state without the lock, and the lock is as it was, or free of c.
<1>2. ASSUME NEW from \in SUBSET Alive, NEW to \in {"armed", "failing", "exited"},
             Goes(c, from, to), lifetime' \in {lifetime, lifetime \ {c}}, UNCHANGED readied,
             \A b \in Calls : b # c => pipe'[b] = pipe[b],
             \A i \in DOMAIN pipe'[c] : pipe'[c][i] = "ready" => c \in readied
      PROVE  Workers
  <2>1. /\ worker[c] \in Alive /\ worker'[c] = to
        /\ \A b \in Calls : b # c => worker'[b] = worker[b]
        /\ UNCHANGED <<manager, mailbox, timers, told, open, call, latest, crashes>>
    BY <1>2 DEF Goes, TypeOK
  <2>2. ASSUME NEW b \in Calls
        PROVE  WorkerInv(b, manager, worker', told, pipe', open, lifetime', readied)
    <3>1. WorkerInv(b, manager, worker, told, pipe, open, lifetime, readied)
      BY <1>0
    <3>2. CASE b = c
      BY <1>2, <2>1, <3>1, <3>2 DEF WorkerInv, Alive
    <3>3. CASE b # c
      BY <1>2, <2>1, <3>1, <3>3 DEF WorkerInv
    <3> QED
      BY <3>2, <3>3
  <2> QED
    BY <1>2, <2>1, <2>2
<1> HIDE DEF Workers
<1>3. CASE Arm(c)
  <2>1. /\ Goes(c, {"spawned"}, "armed") /\ {"spawned"} \in SUBSET Alive
        /\ UNCHANGED <<pipe, lifetime, readied>>
    BY <1>3 DEF Arm, Alive
  <2>2. Workers
    BY <1>0, <1>2, <2>1 DEF WorkerInv
  <2> QED
    BY <1>0, <1>1, <2>1, <2>2 DEF TypeOK, Alive
<1>4. CASE TakeLifetimeLock(c)
  <2>1. /\ Goes(c, {"armed"}, "locked") /\ {"armed"} \in SUBSET Alive
        /\ lifetime = {} /\ lifetime' = {c} /\ UNCHANGED <<pipe, readied>>
        /\ worker[c] = "armed" /\ UNCHANGED <<manager, told, open>>
    BY <1>4 DEF TakeLifetimeLock, Alive, Goes
  <2>2. worker'[c] = "locked" /\ \A b \in Calls : b # c => worker'[b] = worker[b]
    BY <2>1 DEF Goes, TypeOK
  <2>3. Workers
    BY <1>0, <2>1, <2>2 DEF WorkerInv, Alive, Workers
  <2> QED
    BY <1>0, <1>1, <2>1, <2>3 DEF Alive
<1>5. CASE EmitReady(c)
  <2>1. /\ Goes(c, {"locked"}, "replaying") /\ {"locked"} \in SUBSET Alive
        /\ pipe' = [pipe EXCEPT ![c] = Append(pipe[c], "ready")]
        /\ readied' = readied \cup {c} /\ UNCHANGED lifetime
        /\ worker[c] = "locked" /\ UNCHANGED <<manager, told, open>>
    BY <1>0, <1>5 DEF EmitReady, Alive, Goes
  <2>2. worker'[c] = "replaying" /\ \A b \in Calls : b # c => worker'[b] = worker[b]
    BY <2>1 DEF Goes, TypeOK
  <2>3. /\ pipe' \in [Calls -> Seq({"ready", "error"})]
        /\ \A b \in Calls : b # c => pipe'[b] = pipe[b]
    BY <1>0, <2>1
  <2>4. ASSUME NEW b \in Calls
        PROVE  WorkerInv(b, manager', worker', told', pipe', open', lifetime', readied')
    <3>1. WorkerInv(b, manager, worker, told, pipe, open, lifetime, readied)
      BY <1>0
    <3>2. CASE b = c
      BY <2>1, <2>2, <3>1, <3>2 DEF WorkerInv, Alive
    <3>3. CASE b # c
      BY <2>1, <2>2, <2>3, <3>1, <3>3 DEF WorkerInv
    <3> QED
      BY <3>2, <3>3
  <2>5. Workers
    BY <2>4 DEF Workers
  <2> QED
    BY <1>1, <2>1, <2>3, <2>5 DEF Alive, TypeOK
<1>6. CASE Fail(c)
  <2>1. PICK from \in SUBSET Alive : Goes(c, from, "failing")
    BY <1>6 DEF Fail, Alive
  <2>2. /\ lifetime' = lifetime \ {c} /\ UNCHANGED readied
        /\ pipe' = IF c \in open THEN [pipe EXCEPT ![c] = Append(pipe[c], "error")] ELSE pipe
    BY <1>0, <1>6 DEF Fail
  <2>3. pipe[c] \in Seq({"ready", "error"})
        /\ \A i \in DOMAIN pipe[c] : pipe[c][i] = "ready" => c \in readied
    BY <1>0 DEF WorkerInv
  <2>4. /\ Append(pipe[c], "error") \in Seq({"ready", "error"})
        /\ \A i \in DOMAIN Append(pipe[c], "error") :
              Append(pipe[c], "error")[i] = "ready" => c \in readied
    BY <2>3
  <2>5. /\ pipe' \in [Calls -> Seq({"ready", "error"})]
        /\ \A b \in Calls : b # c => pipe'[b] = pipe[b]
        /\ pipe'[c] \in {pipe[c], Append(pipe[c], "error")}
    BY <1>0, <2>2, <2>4
  <2>6. \A i \in DOMAIN pipe'[c] : pipe'[c][i] = "ready" => c \in readied
    BY <2>3, <2>4, <2>5
  <2>7. Workers
    BY <1>2, <2>1, <2>2, <2>5, <2>6
  <2> QED
    BY <1>1, <2>1, <2>2, <2>5, <2>7 DEF TypeOK, Alive
<1>7. ASSUME NEW from \in SUBSET Alive, Exit(c, from)
      PROVE  TypeOK' /\ Inv'
  <2>1. /\ Goes(c, from, "exited") /\ lifetime' = lifetime \ {c} /\ UNCHANGED <<pipe, readied>>
    BY <1>7 DEF Exit
  <2>2. Workers
    BY <1>0, <1>2, <2>1 DEF WorkerInv
  <2> QED
    BY <1>0, <1>1, <2>1, <2>2 DEF TypeOK
<1>8. CASE Finish(c) \/ Stopped(c) \/ Killed(c)
  BY <1>7, <1>8 DEF Finish, Stopped, Killed, Alive
<1> QED
  BY <1>3, <1>4, <1>5, <1>6, <1>8 DEF Work

-----------------------------------------------------------------------------
(* The theorems.                                                           *)

LEMMA InitHolds == ASSUME Init PROVE TypeOK /\ Inv
<1>1. /\ Fresh \in Managers /\ Fresh.port = {} /\ Fresh.launcher = {} /\ Fresh.waiters = {}
      /\ Fresh.canceller = {} /\ Fresh.phase = "idle" /\ Fresh.terminal = "none"
  BY DEF Fresh, Managers, Phases
<1>2. TypeOK
  BY <1>1 DEF Init, TypeOK, CallStates, Alive
<1>3. Len(<<>>) <= 1 /\ DOMAIN <<>> = {}
  OBVIOUS
<1>4. \A c \in Calls : CallInv(c, call[c], worker, readied)
  BY <1>3 DEF Init, CallInv
<1>5. WaitInv(manager, call, latest, worker) /\ ManagerInv(manager, latest, worker, readied)
  BY <1>1 DEF Init, WaitInv, ManagerInv, Waiting
<1>6. \A c \in Calls : WorkerInv(c, manager, worker, told, pipe, open, lifetime, readied)
  BY <1>3 DEF Init, WorkerInv, Alive
<1> QED
  BY <1>2, <1>3, <1>4, <1>5, <1>6 DEF Inv, Init, OnceInMail

LEMMA NextKeeps == ASSUME TypeOK, Inv, [Next]_vars PROVE TypeOK' /\ Inv'
<1>1. CASE UNCHANGED vars
  BY <1>1 DEF TypeOK, Inv, vars, workerVars
<1>2. CASE Next
  <2>1. ASSUME NEW c \in Calls, Issue(c) \/ Deliver(c) \/ Work(c)
        PROVE  TypeOK' /\ Inv'
    BY <2>1, IssueKeeps, DeliverKeeps, WorkKeeps
  <2> QED
    BY <1>2, <2>1, HandleKeeps, FireKeeps, CrashKeeps DEF Next
<1> QED
  BY <1>1, <1>2

\* Everything that happens to the manager, its workers and its callers keeps the
\* invariant.
THEOREM SupervisionInvariant == Spec => [](TypeOK /\ Inv)
<1>1. Init => TypeOK /\ Inv
  BY InitHolds
<1>2. (TypeOK /\ Inv) /\ [Next]_vars => (TypeOK /\ Inv)'
  BY NextKeeps
<1> QED
  BY <1>1, <1>2, PTL DEF Spec

\* No caller of rebuild_manager.ex is answered twice, and what callers are told of
\* a worker is true, for every number of calls, retries and crashes.
THEOREM AnswersTrue == Spec => []AnsweredOnceAndTruly
<1>1. TypeOK /\ Inv => AnsweredOnceAndTruly
  BY DEF Inv, CallInv, IsTrue, AnsweredOnceAndTruly
<1> QED
  BY <1>1, SupervisionInvariant, PTL

\* A worker the manager gave up, replaced or lost in a crash has been told to stop.
THEOREM OrphansTold == Spec => []OrphansAreTold
<1>1. TypeOK /\ Inv => OrphansAreTold
  BY DEF Inv, WorkerInv, OrphansAreTold
<1> QED
  BY <1>1, SupervisionInvariant, PTL

\* However many workers are alive, the lifetime lock lets one of them replay.
THEOREM OneReplaysOnly == Spec => []OneReplays
<1>1. ASSUME TypeOK, Inv
      PROVE  OneReplays
  <2> DEFINE replaying == {c \in Calls : worker[c] = "replaying"}
  <2>1. \A c \in replaying : lifetime = {c}
    BY <1>1 DEF Inv, WorkerInv
  <2>2. CASE replaying = {}
    BY <2>2, FS_EmptySet DEF OneReplays
  <2>3. CASE replaying # {}
    <3>1. PICK c \in replaying : TRUE
      BY <2>3
    <3>2. replaying = {c}
      BY <2>1, <3>1
    <3>3. Cardinality(replaying) = 1
      BY <3>2, FS_Singleton
    <3> QED
      BY <3>3 DEF OneReplays
  <2> QED
    BY <2>2, <2>3
<1> QED
  BY <1>1, SupervisionInvariant, PTL
=============================================================================
