-------------------------- MODULE McpSessionProofs --------------------------
(***************************************************************************)
(* What McpSession guarantees for every number of lines of every kind and  *)
(* every number of restarts, kills and crashes: an answer is the answer to *)
(* its request, nothing is executed twice, and end of file drains the      *)
(* session.                                                                *)
(***************************************************************************)
EXTENDS McpSession, TLAPS

Messages == [type : {"data", "cast"}, of : Lines \cup {Eof}]

AnswerKinds == {"local", "result", "refused", "parse_error", "timeout", "port_closed",
                "port_unavailable"}

Outputs == [of : Lines, answer : AnswerKinds, result : Lines \cup {None}]

TypeOK ==
    /\ vm \in {"starting", "running", "halted", "failed", "abandoned"}
    /\ kind \in [Lines -> Kinds]
    /\ unread \in Nat \ {0}
    /\ inbox \in Seq(Messages)
    /\ server \in BOOLEAN
    /\ calling \in Lines \cup {None}
    /\ out \in Seq(Outputs)
    /\ manager \in {"handshake", "idle", "suspended", "collecting", "down"}
    /\ current \in Lines \cup {None}
    /\ waiting \in Seq(Lines)
    /\ frames \in Seq(Replies)
    /\ pipe \in Seq(Lines)
    /\ rust \in {"booting", "serving", "gone"}
    /\ busy \in Lines \cup {None}
    /\ executed \in [Lines -> Nat]
    /\ restarts \in Nat /\ kills \in Nat /\ crashes \in Nat

Sorted(s) == \A i, j \in DOMAIN s : i < j => s[i] < s[j]

\* n comes before every line of s.
Before(n, s) == \A i \in DOMAIN s : n < s[i]

\* McpServer has taken n out of its mailbox for good: what it will still handle
\* comes later.
Past(n, mail, u) == n < u /\ \A i \in DOMAIN mail : n < mail[i].of

\* Data and casts keep their order, and casts are earlier lines than data.
InboxInv(mail, u) ==
    /\ \A i \in DOMAIN mail : mail[i].of < u
    /\ \A i, j \in DOMAIN mail :
          mail[i].type = mail[j].type /\ i < j => mail[i].of < mail[j].of
    /\ \A i, j \in DOMAIN mail :
          mail[i].type = "cast" /\ mail[j].type = "data" => mail[i].of < mail[j].of

\* Requests move on in the order of their lines: executed, busy, in the pipe,
\* waiting, and still in the mailbox.
OrderInv ==
    /\ InboxInv(inbox, unread)
    /\ Sorted(waiting) /\ \A i \in DOMAIN waiting : Past(waiting[i], inbox, unread)
    /\ Sorted(pipe)
    /\ \A i \in DOMAIN pipe : Past(pipe[i], inbox, unread) /\ Before(pipe[i], waiting)
    /\ busy # None => Past(busy, inbox, unread) /\ Before(busy, waiting) /\ Before(busy, pipe)
    /\ \A n \in Lines : executed[n] # 0 =>
          /\ executed[n] = 1
          /\ Past(n, inbox, unread) /\ Before(n, waiting) /\ Before(n, pipe)
          /\ busy # None => n < busy

\* A frame with an id is the reply to that request, which was executed or refused.
FramesInv ==
    \A i \in DOMAIN frames : frames[i].id # None =>
        /\ frames[i].id = frames[i].of
        /\ kind[frames[i].of] # "refused" => executed[frames[i].of] = 1

CallingInv ==
    /\ calling # None => Past(calling, inbox, unread) /\ kind[calling] # "silent"
    /\ manager = "collecting" => current # None
    /\ manager = "suspended" => waiting # <<>>

\* Answers come in order, for lines that want one, all of them done with.
OutInv ==
    /\ \A i, j \in DOMAIN out : i < j => out[i].of < out[j].of
    /\ \A i \in DOMAIN out : /\ Past(out[i].of, inbox, unread)
                             /\ (calling # None => out[i].of < calling)
                             /\ kind[out[i].of] # "silent"

ResultInv ==
    \A i \in DOMAIN out : out[i].answer \in {"result", "refused"} =>
        /\ out[i].result = out[i].of
        /\ out[i].answer = "result" => executed[out[i].of] = 1

\* A request that port_unavailable answered is nowhere on its way to being executed.
UnavailableInv ==
    \A i \in DOMAIN out : out[i].answer = "port_unavailable" =>
        /\ executed[out[i].of] = 0 /\ out[i].of # busy
        /\ \A j \in DOMAIN pipe : pipe[j] # out[i].of
        /\ \A j \in DOMAIN waiting : waiting[j] # out[i].of

\* Line n has been answered.
InOut(n, outs) == \E i \in DOMAIN outs : outs[i].of = n

\* No line gets lost, unless McpServer crashes or the supervisor gives up.
DrainInv ==
    /\ crashes = 0 /\ vm # "abandoned" =>
          \A n \in Lines : n < unread /\ kind[n] # "silent" =>
              InOut(n, out) \/ calling = n \/ \E i \in DOMAIN inbox : inbox[i].of = n
    /\ vm = "halted" => calling = None
    /\ vm = "halted" /\ crashes = 0 =>
          \A n \in Lines : kind[n] # "silent" => InOut(n, out)

Inv == OrderInv /\ FramesInv /\ CallingInv /\ OutInv /\ ResultInv /\ UnavailableInv /\ DrainInv

-----------------------------------------------------------------------------
(* Sequences of lines and messages.                                        *)

LEMMA Numbers == N \in Nat /\ Lines \subseteq Nat /\ Eof \in Nat /\ None \notin Lines
                 /\ (\A n \in Lines : n # Eof /\ n < Eof) /\ Eof \notin Lines /\ None # Eof
BY SessionAssumption DEF Lines, Eof, None

LEMMA MessageFacts ==
    ASSUME NEW mail \in Seq(Messages)
    PROVE  \A i \in DOMAIN mail : mail[i] \in Messages /\ mail[i].of \in Nat
                                 /\ mail[i].type \in {"data", "cast"}
<1>1. \A i \in DOMAIN mail : mail[i] \in Messages
  OBVIOUS
<1>2. \A x \in Messages : x.of \in Nat /\ x.type \in {"data", "cast"}
  BY Numbers DEF Messages
<1> QED
  BY <1>1, <1>2

LEMMA TailFacts ==
    ASSUME NEW S, NEW s \in Seq(S), s # <<>>
    PROVE  /\ Head(s) \in S /\ Head(s) = s[1] /\ 1 \in DOMAIN s
           /\ Tail(s) \in Seq(S)
           /\ \A i \in DOMAIN Tail(s) :
                 i \in Nat /\ i + 1 \in DOMAIN s /\ 1 < i + 1 /\ Tail(s)[i] = s[i + 1]
           /\ \A i \in DOMAIN s : i # 1 => i - 1 \in DOMAIN Tail(s) /\ Tail(s)[i - 1] = s[i]
OBVIOUS

LEMMA AppendFacts ==
    ASSUME NEW S, NEW s \in Seq(S), NEW x \in S
    PROVE  /\ Append(s, x) \in Seq(S)
           /\ Len(s) + 1 \in DOMAIN Append(s, x) /\ Append(s, x)[Len(s) + 1] = x
           /\ \A i \in DOMAIN s : i \in DOMAIN Append(s, x) /\ Append(s, x)[i] = s[i]
                                    /\ i < Len(s) + 1 /\ i \in Nat
           /\ \A i \in DOMAIN Append(s, x) : i \in DOMAIN s \/ i = Len(s) + 1
OBVIOUS

\* The mailbox after its first message is taken.
LEMMA MailTaken ==
    ASSUME NEW mail \in Seq(Messages), mail # <<>>, NEW u \in Nat, InboxInv(mail, u)
    PROVE  /\ Tail(mail) \in Seq(Messages) /\ InboxInv(Tail(mail), u)
           /\ \A n \in Nat : Past(n, mail, u) => Past(n, Tail(mail), u)
           /\ Head(mail).type = "cast" => Past(Head(mail).of, Tail(mail), u)
           /\ Head(mail) \in Messages
           /\ \A i \in DOMAIN mail : i # 1 => \E j \in DOMAIN Tail(mail) : Tail(mail)[j] = mail[i]
           /\ Head(mail) = mail[1]
<1>1. /\ Head(mail) \in Messages /\ Head(mail) = mail[1] /\ 1 \in DOMAIN mail
      /\ Tail(mail) \in Seq(Messages)
      /\ \A i \in DOMAIN Tail(mail) :
            i \in Nat /\ i + 1 \in DOMAIN mail /\ 1 < i + 1 /\ Tail(mail)[i] = mail[i + 1]
      /\ \A i \in DOMAIN mail : i # 1 => i - 1 \in DOMAIN Tail(mail) /\ Tail(mail)[i - 1] = mail[i]
  BY TailFacts
<1>2. \A i \in DOMAIN mail : mail[i] \in Messages /\ mail[i].of \in Nat
                             /\ mail[i].type \in {"data", "cast"}
  BY MessageFacts
<1>3. InboxInv(Tail(mail), u)
  <2>1. \A i, j \in DOMAIN Tail(mail) : i < j => i + 1 < j + 1
    BY <1>1
  <2> QED
    BY <1>1, <2>1 DEF InboxInv
<1>4. \A n \in Nat : Past(n, mail, u) => Past(n, Tail(mail), u)
  BY <1>1 DEF Past
<1>5. ASSUME Head(mail).type = "cast"
      PROVE  Past(Head(mail).of, Tail(mail), u)
  <2>1. mail[1].of < u
    BY <1>1 DEF InboxInv
  <2>2. ASSUME NEW i \in DOMAIN Tail(mail)
        PROVE  mail[1].of < mail[i + 1].of
    BY <1>1, <1>2, <1>5 DEF InboxInv
  <2> QED
    BY <1>1, <2>1, <2>2 DEF Past
<1> QED
  BY <1>1, <1>3, <1>4, <1>5

\* ... and put behind the others, as a cast.
FramedMail(mail) == Append(Tail(mail), [Head(mail) EXCEPT !.type = "cast"])

LEMMA MailFramed ==
    ASSUME NEW mail \in Seq(Messages), mail # <<>>, NEW u \in Nat, InboxInv(mail, u),
           Head(mail).type = "data"
    PROVE  /\ FramedMail(mail) \in Seq(Messages) /\ InboxInv(FramedMail(mail), u)
           /\ \A n \in Nat : Past(n, mail, u) => Past(n, FramedMail(mail), u)
           /\ \A i \in DOMAIN mail :
                 \E j \in DOMAIN FramedMail(mail) : FramedMail(mail)[j].of = mail[i].of
<1> DEFINE framed == FramedMail(mail)
           tail == Tail(mail)
           x == [Head(mail) EXCEPT !.type = "cast"]
<1>1. /\ Head(mail) \in Messages /\ Head(mail) = mail[1] /\ 1 \in DOMAIN mail
      /\ tail \in Seq(Messages) /\ InboxInv(tail, u)
      /\ \A i \in DOMAIN tail :
            i \in Nat /\ i + 1 \in DOMAIN mail /\ 1 < i + 1 /\ tail[i] = mail[i + 1]
      /\ \A i \in DOMAIN mail : i # 1 => i - 1 \in DOMAIN tail /\ tail[i - 1] = mail[i]
  BY TailFacts, MailTaken
<1>2. \A i \in DOMAIN mail : mail[i] \in Messages /\ mail[i].of \in Nat
                             /\ mail[i].type \in {"data", "cast"}
  BY MessageFacts
<1>3. x \in Messages /\ x.type = "cast" /\ x.of = mail[1].of /\ x.of \in Nat
  BY <1>1, <1>2 DEF Messages
<1>4. framed = Append(tail, x)
  BY DEF FramedMail
<1>5. /\ mail[1].of < u
      /\ \A i \in DOMAIN tail : tail[i].type = "cast" => tail[i].of < x.of
      /\ \A i \in DOMAIN tail : tail[i].type = "data" => x.of < tail[i].of
  BY <1>1, <1>2, <1>3 DEF InboxInv
<1> HIDE DEF tail, x, framed
<1>6. /\ framed \in Seq(Messages)
      /\ Len(tail) + 1 \in DOMAIN framed /\ framed[Len(tail) + 1] = x
      /\ \A i \in DOMAIN tail : i \in DOMAIN framed /\ framed[i] = tail[i] /\ i < Len(tail) + 1
      /\ \A i \in DOMAIN framed : i \in DOMAIN tail \/ i = Len(tail) + 1
      /\ \A i \in DOMAIN tail : i \in Nat
      /\ Len(tail) \in Nat
  BY <1>1, <1>3, <1>4, AppendFacts
<1>7. InboxInv(framed, u)
  <2>1. \A i \in DOMAIN framed : framed[i].of < u
    BY <1>1, <1>3, <1>5, <1>6 DEF InboxInv
  <2>2. ASSUME NEW i \in DOMAIN framed, NEW j \in DOMAIN framed,
               framed[i].type = framed[j].type, i < j
        PROVE  framed[i].of < framed[j].of
    <3>1. i \in DOMAIN tail
      BY <1>6, <2>2
    <3>2. CASE j \in DOMAIN tail
      BY <1>1, <1>6, <2>2, <3>1, <3>2 DEF InboxInv
    <3>3. CASE j = Len(tail) + 1
      BY <1>3, <1>5, <1>6, <2>2, <3>1, <3>3
    <3> QED
      BY <1>6, <3>2, <3>3
  <2>3. ASSUME NEW i \in DOMAIN framed, NEW j \in DOMAIN framed,
               framed[i].type = "cast", framed[j].type = "data"
        PROVE  framed[i].of < framed[j].of
    <3>1. j \in DOMAIN tail
      BY <1>3, <1>6, <2>3
    <3>2. CASE i \in DOMAIN tail
      BY <1>1, <1>6, <2>3, <3>1, <3>2 DEF InboxInv
    <3>3. CASE i = Len(tail) + 1
      BY <1>3, <1>5, <1>6, <2>3, <3>1, <3>3
    <3> QED
      BY <1>6, <3>2, <3>3
  <2> QED
    BY <2>1, <2>2, <2>3 DEF InboxInv
<1>8. \A n \in Nat : Past(n, mail, u) => Past(n, framed, u)
  <2>1. ASSUME NEW n \in Nat, Past(n, mail, u), NEW i \in DOMAIN framed
        PROVE  n < framed[i].of
    <3>1. \A j \in DOMAIN mail : n < mail[j].of
      BY <2>1 DEF Past
    <3>2. CASE i \in DOMAIN tail
      BY <1>1, <1>6, <3>1, <3>2
    <3>3. CASE i = Len(tail) + 1
      BY <1>1, <1>3, <1>6, <3>1, <3>3
    <3> QED
      BY <1>6, <3>2, <3>3
  <2> QED
    BY <2>1 DEF Past
<1>9. \A i \in DOMAIN mail : \E j \in DOMAIN framed : framed[j].of = mail[i].of
  <2>1. SUFFICES ASSUME NEW i \in DOMAIN mail
                 PROVE  \E j \in DOMAIN framed : framed[j].of = mail[i].of
    OBVIOUS
  <2>2. CASE i = 1
    BY <1>3, <1>6, <2>2
  <2>3. CASE i # 1
    <3>1. i - 1 \in DOMAIN tail /\ tail[i - 1] = mail[i]
      BY <1>1, <2>3 DEF tail
    <3>2. i - 1 \in DOMAIN framed /\ framed[i - 1] = tail[i - 1]
      BY <1>6, <3>1
    <3> QED
      BY <3>1, <3>2
  <2> QED
    BY <2>2, <2>3
<1> QED
  BY <1>6, <1>7, <1>8, <1>9 DEF framed

\* A line, or end of file, arrives.
GrownMail(mail, u) == Append(mail, [type |-> "data", of |-> u])

LEMMA MailArrives ==
    ASSUME NEW mail \in Seq(Messages), NEW u \in Nat \ {0}, u <= Eof, InboxInv(mail, u)
    PROVE  /\ GrownMail(mail, u) \in Seq(Messages) /\ InboxInv(GrownMail(mail, u), u + 1)
           /\ \A n \in Nat : Past(n, mail, u) => Past(n, GrownMail(mail, u), u + 1)
           /\ \A i \in DOMAIN mail :
                 \E j \in DOMAIN GrownMail(mail, u) : GrownMail(mail, u)[j].of = mail[i].of
           /\ \E j \in DOMAIN GrownMail(mail, u) : GrownMail(mail, u)[j].of = u
<1> DEFINE grown == GrownMail(mail, u)
           x == [type |-> "data", of |-> u]
<1>1. x \in Messages /\ x.type = "data" /\ x.of = u
  BY SessionAssumption DEF Messages, Lines, Eof
<1>2. \A i \in DOMAIN mail : mail[i] \in Messages /\ mail[i].of \in Nat
                             /\ mail[i].type \in {"data", "cast"}
  BY MessageFacts
<1>3. grown = Append(mail, x)
  BY DEF GrownMail
<1> HIDE DEF x, grown
<1>4. /\ grown \in Seq(Messages)
      /\ Len(mail) + 1 \in DOMAIN grown /\ grown[Len(mail) + 1] = x
      /\ \A i \in DOMAIN mail : i \in DOMAIN grown /\ grown[i] = mail[i] /\ i < Len(mail) + 1
      /\ \A i \in DOMAIN grown : i \in DOMAIN mail \/ i = Len(mail) + 1
      /\ \A i \in DOMAIN mail : i \in Nat
      /\ Len(mail) \in Nat
  BY <1>1, <1>3, AppendFacts
<1>5. InboxInv(grown, u + 1)
  <2>1. \A i \in DOMAIN grown : grown[i].of < u + 1
    BY <1>1, <1>2, <1>4 DEF InboxInv
  <2>2. ASSUME NEW i \in DOMAIN grown, NEW j \in DOMAIN grown,
               grown[i].type = grown[j].type, i < j
        PROVE  grown[i].of < grown[j].of
    <3>1. i \in DOMAIN mail
      BY <1>4, <2>2
    <3>2. CASE j \in DOMAIN mail
      BY <1>4, <2>2, <3>1, <3>2 DEF InboxInv
    <3>3. CASE j = Len(mail) + 1
      BY <1>1, <1>4, <2>2, <3>1, <3>3 DEF InboxInv
    <3> QED
      BY <1>4, <3>2, <3>3
  <2>3. ASSUME NEW i \in DOMAIN grown, NEW j \in DOMAIN grown,
               grown[i].type = "cast", grown[j].type = "data"
        PROVE  grown[i].of < grown[j].of
    <3>1. i \in DOMAIN mail
      BY <1>1, <1>4, <2>3
    <3>2. CASE j \in DOMAIN mail
      BY <1>4, <2>3, <3>1, <3>2 DEF InboxInv
    <3>3. CASE j = Len(mail) + 1
      BY <1>1, <1>4, <2>3, <3>1, <3>3 DEF InboxInv
    <3> QED
      BY <1>4, <3>2, <3>3
  <2> QED
    BY <2>1, <2>2, <2>3 DEF InboxInv
<1>6. \A n \in Nat : Past(n, mail, u) => Past(n, grown, u + 1)
  BY <1>1, <1>4 DEF Past
<1> QED
  BY <1>1, <1>4, <1>5, <1>6 DEF grown

-----------------------------------------------------------------------------
(* PortManager.                                                            *)

\* One more answer, to a line after all those answered.
LEMMA OutGrows ==
    ASSUME TypeOK, Inv, NEW n \in Lines, NEW a \in AnswerKinds, NEW r \in Lines \cup {None},
           Answer(n, a, r), \A i \in DOMAIN out : out[i].of < n
    PROVE  LET x == [of |-> n, answer |-> a, result |-> r] IN
           /\ out' \in Seq(Outputs)
           /\ \A i, j \in DOMAIN out' : i < j => out'[i].of < out'[j].of
           /\ \A i \in DOMAIN out' : (i \in DOMAIN out /\ out'[i] = out[i]) \/ out'[i] = x
           /\ \A k \in Lines : InOut(k, out) => InOut(k, out')
           /\ InOut(n, out')
<1> DEFINE x == [of |-> n, answer |-> a, result |-> r]
<1>1. x \in Outputs /\ x.of = n /\ out \in Seq(Outputs) /\ out' = Append(out, x)
  BY DEF Outputs, Answer, TypeOK
<1> HIDE DEF x
<1>2. /\ out' \in Seq(Outputs)
      /\ Len(out) + 1 \in DOMAIN out' /\ out'[Len(out) + 1] = x
      /\ \A i \in DOMAIN out : i \in DOMAIN out' /\ out'[i] = out[i]
                               /\ i < Len(out) + 1 /\ i \in Nat
      /\ \A i \in DOMAIN out' : i \in DOMAIN out \/ i = Len(out) + 1
      /\ Len(out) \in Nat
  BY <1>1, AppendFacts
<1>3. ASSUME NEW i \in DOMAIN out', NEW j \in DOMAIN out', i < j
      PROVE  out'[i].of < out'[j].of
  <2>1. i \in DOMAIN out
    BY <1>2, <1>3
  <2>2. CASE j \in DOMAIN out
    BY <1>2, <1>3, <2>1, <2>2 DEF Inv, OutInv
  <2>3. CASE j = Len(out) + 1
    BY <1>1, <1>2, <2>1, <2>3
  <2> QED
    BY <1>2, <2>2, <2>3
<1>4. \A k \in Lines : InOut(k, out) => InOut(k, out')
  BY <1>2 DEF InOut
<1>5. InOut(n, out')
  BY <1>1, <1>2 DEF InOut
<1> QED
  BY <1>2, <1>3, <1>4, <1>5 DEF x

\* What PortManager owes to the session, whatever it does but pass on a request: it
\* may drop the calls that wait, and answers at most McpServer's call, with its own
\* result; port_unavailable it says only of a call that still waits, dropping it.
Answers(a, r) ==
    /\ calling # None /\ calling' = None
    /\ Answer(calling, a, r)
    /\ a \in AnswerKinds /\ r \in Lines \cup {None}
    /\ a \in {"result", "refused"} => r = calling
    /\ a = "result" => executed[calling] = 1
    /\ a = "port_unavailable" =>
          waiting' = <<>> /\ \E i \in DOMAIN waiting : waiting[i] = calling

ManagerStep ==
    /\ UNCHANGED <<kind, unread, inbox, pipe, busy, executed, restarts, kills, crashes>>
    /\ vm' = vm \/ (vm = "starting" /\ vm' \in {"failed", "running"})
    /\ server' \in BOOLEAN /\ rust' \in {"booting", "serving", "gone"}
    /\ waiting' \in {waiting, <<>>}
    /\ frames' = frames \/ frames' = <<>> \/ (frames # <<>> /\ frames' = Tail(frames))
    /\ manager' \in {"handshake", "idle", "suspended", "collecting", "down"}
    /\ current' \in Lines \cup {None}
    /\ manager' = "collecting" => current' # None
    /\ manager' = "suspended" => waiting' # <<>>
    /\ UNCHANGED <<out, calling>> \/ \E a, r : Answers(a, r)

LEMMA ManagerKeeps ==
    ASSUME TypeOK, Inv, ManagerStep
    PROVE  TypeOK' /\ Inv'
<1>0. /\ UNCHANGED <<kind, unread, inbox, pipe, busy, executed, restarts, kills, crashes>>
      /\ vm' = vm \/ (vm = "starting" /\ vm' \in {"failed", "running"})
      /\ server' \in BOOLEAN /\ rust' \in {"booting", "serving", "gone"}
      /\ waiting' \in {waiting, <<>>}
      /\ frames' = frames \/ frames' = <<>> \/ (frames # <<>> /\ frames' = Tail(frames))
      /\ manager' \in {"handshake", "idle", "suspended", "collecting", "down"}
      /\ current' \in Lines \cup {None}
      /\ manager' = "collecting" => current' # None
      /\ manager' = "suspended" => waiting' # <<>>
  BY DEF ManagerStep
<1>1. OrderInv'
  <2>1. Sorted(<<>>) /\ (\A n : Before(n, <<>>)) /\ DOMAIN <<>> = {}
    BY DEF Sorted, Before
  <2>2. CASE waiting' = waiting
    BY <1>0, <2>2 DEF Inv, OrderInv
  <2>3. CASE waiting' = <<>>
    BY <1>0, <2>1, <2>3 DEF Inv, OrderInv
  <2> QED
    BY <1>0, <2>2, <2>3
<1>2. FramesInv' /\ frames' \in Seq(Replies)
  <2>1. frames \in Seq(Replies)
    BY DEF TypeOK
  <2>2. CASE frames' = frames
    BY <1>0, <2>1, <2>2 DEF Inv, FramesInv
  <2>3. CASE frames' = <<>>
    BY <2>3 DEF FramesInv
  <2>4. CASE frames # <<>> /\ frames' = Tail(frames)
    <3>1. /\ Tail(frames) \in Seq(Replies)
          /\ \A i \in DOMAIN Tail(frames) : i + 1 \in DOMAIN frames
                                            /\ Tail(frames)[i] = frames[i + 1]
      BY <2>1, <2>4, TailFacts
    <3> QED
      BY <1>0, <2>4, <3>1 DEF Inv, FramesInv
  <2> QED
    BY <1>0, <2>2, <2>3, <2>4
<1>3. /\ waiting' \in Seq(Lines)
      /\ vm' \in {"starting", "running", "halted", "failed", "abandoned"}
  <2>1. waiting \in Seq(Lines) /\ <<>> \in Seq(Lines)
    BY DEF TypeOK
  <2>2. vm \in {"starting", "running", "halted", "failed", "abandoned"}
    BY DEF TypeOK
  <2> QED
    BY <1>0, <2>1, <2>2
<1>4. CASE UNCHANGED <<out, calling>>
  <2>1. TypeOK'
    BY <1>0, <1>2, <1>4, <1>3 DEF TypeOK
  <2>2. CallingInv' /\ OutInv' /\ ResultInv' /\ DrainInv'
    BY <1>0, <1>4 DEF Inv, CallingInv, OutInv, ResultInv, DrainInv
  <2>3. UnavailableInv'
    <3>1. DOMAIN <<>> = {}
      OBVIOUS
    <3> QED
      BY <1>0, <1>4, <3>1 DEF Inv, UnavailableInv
  <2> QED
    BY <1>1, <1>2, <2>1, <2>2, <2>3 DEF Inv
<1>5. CASE \E a, r : Answers(a, r)
  <2>1. PICK a, r : Answers(a, r)
    BY <1>5
  <2> DEFINE x == [of |-> calling, answer |-> a, result |-> r]
  <2>2. /\ calling \in Lines /\ calling' = None /\ Answer(calling, a, r) /\ calling # None
        /\ a \in AnswerKinds /\ r \in Lines \cup {None}
        /\ Past(calling, inbox, unread) /\ kind[calling] # "silent"
        /\ \A i \in DOMAIN out : out[i].of < calling
    BY <2>1 DEF Answers, TypeOK, Inv, CallingInv, OutInv
  <2>3. /\ out' \in Seq(Outputs)
        /\ \A i, j \in DOMAIN out' : i < j => out'[i].of < out'[j].of
        /\ \A i \in DOMAIN out' : (i \in DOMAIN out /\ out'[i] = out[i]) \/ out'[i] = x
        /\ \A k \in Lines : InOut(k, out) => InOut(k, out')
        /\ InOut(calling, out')
    BY <2>2, OutGrows
  <2>4. x.of = calling /\ x.answer = a /\ x.result = r
    OBVIOUS
  <2> HIDE DEF x
  <2>5. TypeOK'
    BY <1>0, <1>2, <1>3, <2>2, <2>3 DEF TypeOK
  <2>6. CallingInv' /\ OutInv'
    BY <1>0, <2>2, <2>3, <2>4 DEF Inv, CallingInv, OutInv
  <2>7. ResultInv'
    BY <1>0, <2>1, <2>3, <2>4 DEF Inv, ResultInv, Answers
  <2>8. UnavailableInv'
    <3>1. ASSUME a = "port_unavailable"
          PROVE  /\ waiting' = <<>> /\ executed[calling] = 0 /\ calling # busy
                 /\ \A j \in DOMAIN pipe : pipe[j] # calling
      <4>1. PICK i \in DOMAIN waiting : waiting[i] = calling
        BY <2>1, <3>1 DEF Answers
      <4>2. ASSUME NEW n \in Nat, Before(n, waiting)
            PROVE  n < calling
        BY <4>1, <4>2 DEF Before
      <4>3. calling \in Nat /\ \A j \in DOMAIN pipe : pipe[j] \in Nat
        <5>1. \A j \in DOMAIN pipe : pipe[j] \in Lines
          BY DEF TypeOK
        <5> QED
          BY <2>2, <5>1, Numbers
      <4>4. busy # None => busy \in Nat /\ busy < calling
        BY <4>2, Numbers DEF Inv, OrderInv, TypeOK
      <4>5. \A j \in DOMAIN pipe : pipe[j] < calling
        BY <4>2, <4>3 DEF Inv, OrderInv
      <4>6. executed[calling] = 0
        <5>1. executed[calling] # 0 => calling < calling
          BY <2>2, <4>2, <4>3 DEF Inv, OrderInv
        <5> QED
          BY <4>3, <5>1
      <4>7. waiting' = <<>>
        BY <2>1, <3>1 DEF Answers
      <4> QED
        BY <2>2, <4>3, <4>4, <4>5, <4>6, <4>7
    <3>2. DOMAIN <<>> = {}
      OBVIOUS
    <3>3. ASSUME NEW i \in DOMAIN out', out'[i].answer = "port_unavailable"
          PROVE  /\ executed[out'[i].of] = 0 /\ out'[i].of # busy
                 /\ \A j \in DOMAIN pipe : pipe[j] # out'[i].of
                 /\ \A j \in DOMAIN waiting' : waiting'[j] # out'[i].of
      <4>1. CASE i \in DOMAIN out /\ out'[i] = out[i]
        BY <1>0, <3>2, <3>3, <4>1 DEF Inv, UnavailableInv
      <4>2. CASE out'[i] = x
        BY <2>4, <3>1, <3>2, <3>3, <4>2
      <4> QED
        BY <2>3, <4>1, <4>2
    <3> QED
      BY <1>0, <3>3 DEF UnavailableInv
  <2>9. DrainInv'
    BY <1>0, <2>2, <2>3 DEF Inv, DrainInv
  <2> QED
    BY <1>1, <1>2, <2>5, <2>6, <2>7, <2>8, <2>9 DEF Inv
<1> QED
  BY <1>4, <1>5 DEF ManagerStep

\* PortManager stops: a call that waits is unavailable, the one it collects is not.
LEMMA StopAnswers ==
    ASSUME TypeOK, Inv, NEW n \in Lines \cup {None}, NEW answer \in AnswerKinds,
           answer \notin {"result", "refused"}, n # None => answer # "port_unavailable", Stop(n, answer)
    PROVE  /\ manager' = "down" /\ current' = None /\ waiting' = <<>> /\ frames' = <<>>
           /\ UNCHANGED <<out, calling>> \/ \E a, r : Answers(a, r)
<1>1. CASE calling # None /\ calling = n
  <2>1. Answer(calling, answer, None) /\ calling' = None
    BY <1>1 DEF Stop, Reply
  <2>2. Answers(answer, None)
    BY <1>1, <2>1 DEF Answers
  <2> QED
    BY <2>2 DEF Stop
<1>2. CASE calling # None /\ calling # n /\ calling \in ToSet(waiting)
  <2>1. Answer(calling, "port_unavailable", None) /\ calling' = None /\ waiting' = <<>>
    BY <1>2 DEF Stop, Reply
  <2>2. \E i \in DOMAIN waiting : waiting[i] = calling
    BY <1>2 DEF ToSet
  <2>3. Answers("port_unavailable", None)
    BY <1>2, <2>1, <2>2 DEF Answers, AnswerKinds
  <2> QED
    BY <2>3 DEF Stop
<1>3. CASE calling = None \/ (calling # n /\ calling \notin ToSet(waiting))
  BY <1>3 DEF Stop
<1> QED
  BY <1>1, <1>2, <1>3

\* What it collects is the answer to the call McpServer waits for, or to nobody's.
LEMMA CollectedAnswers ==
    ASSUME TypeOK, Inv, manager = "collecting", NEW a \in AnswerKinds,
           NEW r \in Lines \cup {None}, a # "port_unavailable",
           a \in {"result", "refused"} => r = current,
           a = "result" => executed[current] = 1,
           Collected(a, r)
    PROVE  UNCHANGED <<out, calling>> \/ \E b, q : Answers(b, q)
<1>1. current # None
  BY DEF Inv, CallingInv
<1>2. CASE calling = current
  <2>1. Answers(a, r)
    BY <1>1, <1>2 DEF Collected, Reply, Answers
  <2> QED
    BY <2>1
<1>3. CASE calling # current
  BY <1>3 DEF Collected, Reply
<1> QED
  BY <1>2, <1>3

LEMMA CollectKeeps ==
    ASSUME TypeOK, Inv, CollectReply \/ CollectMalformed \/ Deadline
    PROVE  TypeOK' /\ Inv'
<1>1. manager = "collecting"
  BY DEF CollectReply, CollectMalformed, Deadline, NextFrame
<1>2. \/ frames' = frames
      \/ frames # <<>> /\ frames' = Tail(frames)
  BY DEF CollectReply, CollectMalformed, Deadline, NextFrame
<1>3. PICK a, r : /\ Collected(a, r) /\ a \in AnswerKinds /\ a # "port_unavailable"
                  /\ r \in Lines \cup {None}
                  /\ a \in {"result", "refused"} => r = current
                  /\ a = "result" => executed[current] = 1
  <2>1. CASE CollectReply
    <3>1. /\ frames \in Seq(Replies) /\ frames # <<>> /\ Head(frames).id = current
          /\ Collected(AnswerIn(Head(frames)), Head(frames).of)
      BY <2>1 DEF CollectReply, NextFrame, TypeOK
    <3>2. Head(frames) = frames[1] /\ 1 \in DOMAIN frames /\ Head(frames) \in Replies
      BY <3>1
    <3>3. current # None
      BY <1>1 DEF Inv, CallingInv
    <3>4. Head(frames).of = current /\ (kind[current] # "refused" => executed[current] = 1)
      BY <3>1, <3>2, <3>3 DEF Inv, FramesInv
    <3>5. Head(frames).of \in Lines
      BY <3>2 DEF Replies
    <3>6. /\ AnswerIn(Head(frames)) \in {"result", "refused"}
          /\ AnswerIn(Head(frames)) = "result" => executed[current] = 1
      BY <3>4 DEF AnswerIn
    <3> QED
      BY <3>1, <3>4, <3>5, <3>6 DEF AnswerKinds
  <2>2. CASE CollectMalformed
    BY <2>2 DEF CollectMalformed, AnswerKinds
  <2>3. CASE Deadline
    BY <2>3 DEF Deadline, AnswerKinds
  <2> QED
    BY <2>1, <2>2, <2>3
<1>4. UNCHANGED <<out, calling>> \/ \E b, q : Answers(b, q)
  BY <1>1, <1>3, CollectedAnswers
<1>5. ManagerStep
  BY <1>2, <1>3, <1>4 DEF Collected, ManagerOnly, rustVars, ManagerStep, TypeOK
<1> QED
  BY <1>5, ManagerKeeps

LEMMA StopKeeps ==
    ASSUME TypeOK, Inv, SendRaises \/ CollectExit \/ IdleExit \/ HandshakeFails
    PROVE  TypeOK' /\ Inv'
<1>1. /\ manager' = "down" /\ current' = None /\ waiting' = <<>> /\ frames' = <<>>
      /\ UNCHANGED <<out, calling>> \/ \E a, r : Answers(a, r)
  <2>1. CASE CollectExit
    <3>1. Stop(current, "port_closed") /\ current \in Lines \cup {None}
      BY <2>1 DEF CollectExit, TypeOK
    <3> QED
      BY <3>1, StopAnswers DEF AnswerKinds
  <2>2. CASE SendRaises \/ IdleExit \/ HandshakeFails
    <3>1. Stop(None, "port_unavailable")
      BY <2>2 DEF SendRaises, IdleExit, HandshakeFails
    <3> QED
      BY <3>1, StopAnswers DEF AnswerKinds
  <2> QED
    BY <2>1, <2>2
<1>2. /\ UNCHANGED <<kind, unread, inbox, server, rustVars, restarts, kills, crashes>>
      /\ vm' = vm \/ (vm = "starting" /\ vm' = "failed")
  BY DEF SendRaises, CollectExit, IdleExit, HandshakeFails, ManagerOnly
<1>3. ManagerStep
  BY <1>1, <1>2 DEF rustVars, ManagerStep, TypeOK
<1> QED
  BY <1>3, ManagerKeeps

LEMMA QuietManagerKeeps ==
    ASSUME TypeOK, Inv, Ready \/ SendSuspends \/ DiscardReply \/ IdleData
    PROVE  TypeOK' /\ Inv'
<1>1. CASE Ready
  <2>1. ManagerStep
    BY <1>1 DEF Ready, ManagerStep, TypeOK
  <2> QED
    BY <2>1, ManagerKeeps
<1>2. CASE DiscardReply \/ IdleData
  <2>1. ManagerStep
    BY <1>2 DEF DiscardReply, IdleData, NextFrame, ManagerOnly, rustVars, ManagerStep,
                TypeOK, Inv, CallingInv
  <2> QED
    BY <2>1, ManagerKeeps
<1>3. CASE SendSuspends
  <2>1. ManagerStep
    BY <1>3 DEF SendSuspends, ManagerOnly, rustVars, ManagerStep, TypeOK
  <2> QED
    BY <2>1, ManagerKeeps
<1> QED
  BY <1>1, <1>2, <1>3

\* A request that has waited goes to Rust, behind those sent before.
LEMMA SendsKeeps ==
    ASSUME TypeOK, Inv, Sends, waiting # <<>>
    PROVE  TypeOK' /\ Inv'
<1> DEFINE n == Head(waiting)
<1>1. /\ waiting # <<>> /\ manager' = "collecting" /\ current' = n
      /\ waiting' = Tail(waiting)
      /\ pipe' = pipe \/ pipe' = Append(pipe, n)
      /\ waiting \in Seq(Lines) /\ pipe \in Seq(Lines)
      /\ UNCHANGED <<vm, kind, unread, serverVars, frames, rust, busy, executed,
                     restarts, kills, crashes>>
  BY DEF Sends, TypeOK
<1>2. /\ n \in Lines /\ n = waiting[1] /\ 1 \in DOMAIN waiting
      /\ waiting' \in Seq(Lines)
      /\ \A i \in DOMAIN waiting' :
            i \in Nat /\ i + 1 \in DOMAIN waiting /\ 1 < i + 1 /\ waiting'[i] = waiting[i + 1]
  BY <1>1, TailFacts
<1>3. /\ n \in Nat /\ n # None /\ Lines \subseteq Nat
      /\ \A i \in DOMAIN pipe : pipe[i] \in Lines
      /\ \A i \in DOMAIN waiting : waiting[i] \in Lines
  <2> HIDE DEF n
  <2>1. \A i \in DOMAIN pipe : pipe[i] \in Lines
    BY <1>1
  <2>2. \A i \in DOMAIN waiting : waiting[i] \in Lines
    BY <1>1
  <2> QED
    BY <1>2, <2>1, <2>2, Numbers
<1>4. /\ Past(n, inbox, unread) /\ Before(n, waiting')
      /\ \A k \in Nat : Before(k, waiting) => Before(k, waiting') /\ k < n
      /\ Sorted(waiting')
      /\ \A i \in DOMAIN waiting' : Past(waiting'[i], inbox, unread)
  <2>1. Sorted(waiting) /\ \A i \in DOMAIN waiting : Past(waiting[i], inbox, unread)
    BY DEF Inv, OrderInv
  <2>2. \A i, j \in DOMAIN waiting' : i < j => i + 1 < j + 1
    BY <1>2
  <2>3. Sorted(waiting')
    BY <1>2, <2>1, <2>2 DEF Sorted
  <2>4. Before(n, waiting')
    BY <1>2, <2>1 DEF Sorted, Before
  <2>5. \A k \in Nat : Before(k, waiting) => Before(k, waiting') /\ k < n
    BY <1>2 DEF Before
  <2> QED
    BY <1>2, <2>1, <2>3, <2>4, <2>5
<1> HIDE DEF n
<1>5. /\ pipe' \in Seq(Lines)
      /\ \A i \in DOMAIN pipe' : \/ i \in DOMAIN pipe /\ pipe'[i] = pipe[i]
                                 \/ pipe'[i] = n /\ i = Len(pipe) + 1
      /\ \A i \in DOMAIN pipe : i \in Nat /\ i < Len(pipe) + 1
  <2>1. CASE pipe' = pipe
    BY <1>1, <2>1
  <2>2. CASE pipe' = Append(pipe, n)
    BY <1>1, <1>2, <2>2, AppendFacts
  <2> QED
    BY <1>1, <2>1, <2>2
<1>6. \A k \in Nat : Before(k, waiting) /\ Before(k, pipe) => Before(k, pipe')
  BY <1>4, <1>5 DEF Before
<1>7. Sorted(pipe')
  <2>1. \A i \in DOMAIN pipe : pipe[i] < n
    BY <1>3, <1>4 DEF Inv, OrderInv
  <2>2. ASSUME NEW i \in DOMAIN pipe', NEW j \in DOMAIN pipe', i < j
        PROVE  pipe'[i] < pipe'[j]
    <3>1. i \in DOMAIN pipe
      BY <1>5, <2>2
    <3>2. CASE j \in DOMAIN pipe /\ pipe'[j] = pipe[j]
      BY <1>5, <2>2, <3>1, <3>2 DEF Inv, OrderInv, Sorted
    <3>3. CASE pipe'[j] = n /\ j = Len(pipe) + 1
      BY <1>5, <2>1, <2>2, <3>1, <3>3
    <3> QED
      BY <1>5, <3>2, <3>3
  <2> QED
    BY <2>2 DEF Sorted
<1>8. UNCHANGED <<inbox, unread, busy, executed, calling, out, kind>>
  BY <1>1 DEF serverVars
<1>9. OrderInv'
  <2>1. \A i \in DOMAIN pipe' : Past(pipe'[i], inbox, unread) /\ Before(pipe'[i], waiting')
    <3>1. \A i \in DOMAIN pipe : Past(pipe[i], inbox, unread) /\ Before(pipe[i], waiting')
      BY <1>3, <1>4 DEF Inv, OrderInv
    <3> QED
      BY <1>4, <1>5, <3>1
  <2>2. busy # None => /\ Past(busy, inbox, unread)
                       /\ Before(busy, waiting') /\ Before(busy, pipe')
    <3>1. busy # None => busy \in Nat
      BY Numbers DEF TypeOK
    <3> QED
      BY <3>1, <1>4, <1>6 DEF Inv, OrderInv
  <2>3. \A k \in Lines : executed[k] # 0 =>
          /\ executed[k] = 1
          /\ Past(k, inbox, unread) /\ Before(k, waiting') /\ Before(k, pipe')
          /\ busy # None => k < busy
    BY <1>3, <1>4, <1>6 DEF Inv, OrderInv
  <2> QED
    BY <1>4, <1>7, <1>8, <2>1, <2>2, <2>3 DEF Inv, OrderInv
<1>10. UnavailableInv'
  BY <1>2, <1>5, <1>8 DEF Inv, UnavailableInv
<1>11. FramesInv' /\ CallingInv' /\ OutInv' /\ ResultInv' /\ DrainInv'
  BY <1>1, <1>3, <1>8 DEF Inv, FramesInv, CallingInv, OutInv, ResultInv, DrainInv
<1>12. TypeOK'
  BY <1>1, <1>2, <1>5, <1>8 DEF TypeOK, serverVars
<1> QED
  BY <1>9, <1>10, <1>11, <1>12 DEF Inv

LEMMA ManageKeeps == ASSUME TypeOK, Inv, Manage \/ SendResumes PROVE TypeOK' /\ Inv'
<1>1. CASE SendRequest \/ SendResumes
  <2>1. Sends /\ waiting # <<>>
    BY <1>1 DEF SendRequest, SendResumes, Inv, CallingInv
  <2> QED
    BY <2>1, SendsKeeps
<1> QED
  BY <1>1, CollectKeeps, StopKeeps, QuietManagerKeeps DEF Manage

-----------------------------------------------------------------------------
(* McpServer.                                                              *)

\* Whatever the mailbox becomes, what was past it stays past it, and so the requests
\* that have left it keep their order.
LEMMA MailMoves ==
    ASSUME TypeOK, Inv, NEW u \in Nat, u = unread', InboxInv(inbox', u),
           \A n \in Nat : Past(n, inbox, unread) => Past(n, inbox', u),
           UNCHANGED <<kind, manager, current, waiting, frames, rustVars>>
    PROVE  OrderInv' /\ FramesInv'
<1>1. /\ Lines \subseteq Nat
      /\ \A i \in DOMAIN pipe : pipe[i] \in Lines
      /\ \A i \in DOMAIN waiting : waiting[i] \in Lines
      /\ busy # None => busy \in Lines
  <2>1. \A i \in DOMAIN pipe : pipe[i] \in Lines
    BY DEF TypeOK
  <2>2. \A i \in DOMAIN waiting : waiting[i] \in Lines
    BY DEF TypeOK
  <2>3. busy # None => busy \in Lines
    BY DEF TypeOK
  <2> QED
    BY <2>1, <2>2, <2>3, Numbers
<1>2. UNCHANGED <<pipe, rust, busy, executed>>
  BY DEF rustVars
<1>3. OrderInv'
  BY <1>1, <1>2 DEF Inv, OrderInv
<1>4. FramesInv'
  BY <1>2 DEF Inv, FramesInv
<1> QED
  BY <1>3, <1>4

LEMMA OutLines == TypeOK => \A i \in DOMAIN out : out[i] \in Outputs /\ out[i].of \in Nat
<1>1. ASSUME TypeOK
      PROVE  \A i \in DOMAIN out : out[i] \in Outputs
  BY <1>1 DEF TypeOK
<1>2. \A x \in Outputs : x.of \in Nat
  BY Numbers DEF Outputs
<1> QED
  BY <1>1, <1>2

\* A step of McpServer that neither answers nor calls.
LEMMA ServerKeeps ==
    ASSUME TypeOK, Inv, unread' \in Nat \ {0}, inbox' \in Seq(Messages), server' \in BOOLEAN,
           InboxInv(inbox', unread'), crashes' \in Nat,
           \A n \in Nat : Past(n, inbox, unread) => Past(n, inbox', unread'),
           UNCHANGED <<kind, managerVars, rustVars, out, restarts, kills>>,
           calling' = calling \/ calling' = None,
           vm' \in {"starting", "running", "halted", "failed", "abandoned"},
           DrainInv'
    PROVE  TypeOK' /\ Inv'
<1>0. UNCHANGED <<manager, current, waiting, frames, pipe, rust, busy, executed>>
  BY DEF managerVars, rustVars
<1>1. OrderInv' /\ FramesInv'
  BY <1>0, MailMoves
<1>2. CallingInv'
  <2>1. calling # None => calling \in Nat
    BY Numbers DEF TypeOK
  <2> QED
    BY <1>0, <2>1 DEF Inv, CallingInv
<1>3. OutInv'
  <2>1. \A i \in DOMAIN out : Past(out[i].of, inbox', unread')
    BY OutLines DEF Inv, OutInv
  <2> QED
    BY <2>1 DEF Inv, OutInv
<1>4. ResultInv' /\ UnavailableInv'
  BY <1>0 DEF Inv, ResultInv, UnavailableInv
<1>5. TypeOK'
  BY <1>0 DEF TypeOK
<1> QED
  BY <1>1, <1>2, <1>3, <1>4, <1>5 DEF Inv

LEMMA ArriveKeeps ==
    ASSUME TypeOK, Inv, Arrive
    PROVE  TypeOK' /\ Inv'
<1>1. /\ vm = "running" /\ unread <= Eof /\ unread' = unread + 1
      /\ inbox' = Append(inbox, [type |-> "data", of |-> unread])
      /\ UNCHANGED <<vm, kind, server, calling, out, managerVars, rustVars,
                     restarts, kills, crashes>>
  BY DEF Arrive
<1>2. inbox \in Seq(Messages) /\ unread \in Nat \ {0} /\ InboxInv(inbox, unread)
  BY DEF TypeOK, Inv, OrderInv
<1>3. /\ inbox' \in Seq(Messages) /\ InboxInv(inbox', unread + 1)
      /\ \A n \in Nat : Past(n, inbox, unread) => Past(n, inbox', unread + 1)
      /\ \A i \in DOMAIN inbox : \E j \in DOMAIN inbox' : inbox'[j].of = inbox[i].of
      /\ \E j \in DOMAIN inbox' : inbox'[j].of = unread
  <2>1. unread <= Eof /\ inbox' = GrownMail(inbox, unread)
    BY <1>1 DEF GrownMail
  <2> QED
    BY <1>2, <2>1, MailArrives
<1>4. DrainInv'
  <2>1. ASSUME crashes = 0, NEW n \in Lines, n < unread + 1, kind[n] # "silent"
        PROVE  InOut(n, out) \/ calling = n \/ \E i \in DOMAIN inbox' : inbox'[i].of = n
    <3>1. n < unread \/ n = unread
      BY <1>2, <2>1, Numbers
    <3> QED
      BY <1>1, <1>3, <2>1, <3>1 DEF Inv, DrainInv
  <2> QED
    BY <1>1, <2>1 DEF DrainInv
<1>5. /\ unread' \in Nat \ {0} /\ server' \in BOOLEAN /\ crashes' \in Nat
      /\ vm' \in {"starting", "running", "halted", "failed", "abandoned"}
  BY <1>1, <1>2 DEF TypeOK
<1> QED
  BY <1>1, <1>3, <1>4, <1>5, ServerKeeps

\* Taking a message.
LEMMA TakesFacts ==
    ASSUME TypeOK, Inv, NEW type, NEW S, Takes(type, S)
    PROVE  /\ vm = "running" /\ calling = None /\ inbox # <<>> /\ inbox \in Seq(Messages)
           /\ Head(inbox).type = type /\ Head(inbox).of \in S
           /\ unread \in Nat \ {0} /\ InboxInv(inbox, unread)
           /\ Head(inbox) = inbox[1] /\ 1 \in DOMAIN inbox /\ Head(inbox) \in Messages
           /\ Tail(inbox) \in Seq(Messages) /\ InboxInv(Tail(inbox), unread)
           /\ \A n \in Nat : Past(n, inbox, unread) => Past(n, Tail(inbox), unread)
           /\ type = "cast" => Past(Head(inbox).of, Tail(inbox), unread)
           /\ \A i \in DOMAIN inbox : i # 1 =>
                 \E j \in DOMAIN Tail(inbox) : Tail(inbox)[j] = inbox[i]
<1>1. /\ vm = "running" /\ calling = None /\ inbox # <<>> /\ inbox \in Seq(Messages)
      /\ Head(inbox).type = type /\ Head(inbox).of \in S
      /\ unread \in Nat \ {0} /\ InboxInv(inbox, unread)
  BY DEF Takes, TypeOK, Inv, OrderInv
<1> QED
  BY <1>1, MailTaken, TailFacts

LEMMA FrameOrIgnoreKeeps ==
    ASSUME TypeOK, Inv, Frame \/ IgnoreLine
    PROVE  TypeOK' /\ Inv'
<1>1. /\ UNCHANGED <<vm, calling, out, kind, unread, server, managerVars, rustVars,
                     restarts, kills, crashes>>
  BY DEF Frame, IgnoreLine, ServerOnly
<1>2. /\ inbox' \in Seq(Messages) /\ InboxInv(inbox', unread)
      /\ \A n \in Nat : Past(n, inbox, unread) => Past(n, inbox', unread)
      /\ \A i \in DOMAIN inbox : inbox[i].of \in Lines /\ kind[inbox[i].of] # "silent" =>
            \E j \in DOMAIN inbox' : inbox'[j].of = inbox[i].of
  <2>1. CASE Frame
    <3>1. /\ Takes("data", Lines \cup {Eof})
          /\ inbox' = Append(Tail(inbox), [Head(inbox) EXCEPT !.type = "cast"])
      BY <2>1 DEF Frame
    <3>2. /\ inbox # <<>> /\ inbox \in Seq(Messages) /\ Head(inbox).type = "data"
          /\ unread \in Nat /\ InboxInv(inbox, unread)
      BY <3>1, TakesFacts
    <3> QED
      <4>1. inbox' = FramedMail(inbox)
        BY <3>1 DEF FramedMail
      <4> QED
        BY <3>2, <4>1, MailFramed
  <2>2. CASE IgnoreLine
    <3>1. Takes("cast", OfKind({"silent"})) /\ inbox' = Tail(inbox)
      BY <2>2 DEF IgnoreLine
    <3>2. /\ Head(inbox).of \in OfKind({"silent"}) /\ Head(inbox) = inbox[1]
          /\ Tail(inbox) \in Seq(Messages) /\ InboxInv(Tail(inbox), unread)
          /\ \A n \in Nat : Past(n, inbox, unread) => Past(n, Tail(inbox), unread)
          /\ \A i \in DOMAIN inbox : i # 1 =>
                \E j \in DOMAIN Tail(inbox) : Tail(inbox)[j] = inbox[i]
      BY <3>1, TakesFacts
    <3> QED
      BY <3>1, <3>2 DEF OfKind
  <2> QED
    BY <2>1, <2>2
<1>3. DrainInv'
  BY <1>1, <1>2 DEF Inv, DrainInv
<1>4. /\ unread' \in Nat \ {0} /\ server' \in BOOLEAN /\ crashes' \in Nat
      /\ vm' \in {"starting", "running", "halted", "failed", "abandoned"}
  BY <1>1 DEF TypeOK
<1> QED
  BY <1>1, <1>2, <1>3, <1>4, ServerKeeps

\* At end of file nothing earlier is left in the mailbox.
LEMMA HaltKeeps ==
    ASSUME TypeOK, Inv, Halt
    PROVE  TypeOK' /\ Inv'
<1>1. /\ Takes("cast", {Eof}) /\ vm' = "halted"
      /\ UNCHANGED <<inbox, calling, out, kind, unread, server, managerVars, rustVars,
                     restarts, kills, crashes>>
  BY DEF Halt, ServerOnly
<1>2. /\ vm = "running" /\ calling = None /\ inbox \in Seq(Messages)
      /\ unread \in Nat \ {0} /\ InboxInv(inbox, unread)
      /\ inbox[1].type = "cast" /\ inbox[1].of = Eof /\ 1 \in DOMAIN inbox
  BY <1>1, TakesFacts
<1>3. ASSUME NEW i \in DOMAIN inbox
      PROVE  inbox[i].of \notin Lines
  <2>1. i \in Nat /\ i >= 1 /\ inbox[i].type \in {"data", "cast"} /\ inbox[i].of \in Nat
    BY <1>2, MessageFacts
  <2>2. i # 1 => Eof < inbox[i].of
    BY <1>2, <2>1 DEF InboxInv
  <2> QED
    BY <1>2, <2>1, <2>2, Numbers
<1>4. Eof < unread
  BY <1>2 DEF InboxInv
<1>5. DrainInv'
  <2>1. ASSUME crashes = 0, NEW n \in Lines, kind[n] # "silent"
        PROVE  InOut(n, out)
    <3>1. n < unread
      BY <1>2, <1>4, Numbers
    <3>2. calling # n
      BY <1>2, Numbers
    <3> QED
      BY <1>2, <1>3, <2>1, <3>1, <3>2 DEF Inv, DrainInv
  <2> QED
    BY <1>1, <1>2, <2>1 DEF DrainInv
<1>6. /\ unread' \in Nat \ {0} /\ server' \in BOOLEAN /\ crashes' \in Nat
      /\ inbox' \in Seq(Messages) /\ InboxInv(inbox', unread')
      /\ \A n \in Nat : Past(n, inbox, unread) => Past(n, inbox', unread')
  BY <1>1, <1>2 DEF TypeOK
<1> QED
  BY <1>1, <1>5, <1>6, ServerKeeps

\* Whatever has left the mailbox comes before its first message.
LEMMA PastFirst ==
    ASSUME TypeOK, Inv, NEW S, Takes("cast", S)
    PROVE  \A k \in Nat : Past(k, inbox, unread) =>
              k < Head(inbox).of /\ Past(k, Tail(inbox), unread)
BY TakesFacts DEF Past

\* A line that is answered at once.
LEMMA HeadAnswered ==
    ASSUME TypeOK, Inv, NEW S, Takes("cast", S), S \subseteq {n \in Lines : kind[n] # "silent"},
           NEW a \in {"local", "port_unavailable"}, Answer(Head(inbox).of, a, None),
           inbox' = Tail(inbox),
           UNCHANGED <<vm, kind, unread, server, calling, managerVars, rustVars,
                       restarts, kills, crashes>>
    PROVE  TypeOK' /\ Inv'
<1> DEFINE n == Head(inbox).of
           x == [of |-> n, answer |-> a, result |-> None]
<1>0. UNCHANGED <<manager, current, waiting, frames, pipe, rust, busy, executed>>
  BY DEF managerVars, rustVars
<1>1. /\ vm = "running" /\ calling = None /\ n \in S /\ unread \in Nat \ {0}
      /\ inbox[1].of = n /\ 1 \in DOMAIN inbox
      /\ inbox' \in Seq(Messages) /\ InboxInv(inbox', unread)
      /\ Past(n, inbox', unread)
      /\ \A i \in DOMAIN inbox : i # 1 => \E j \in DOMAIN inbox' : inbox'[j] = inbox[i]
  BY TakesFacts
<1>2. \A k \in Nat : Past(k, inbox, unread) => k < n /\ Past(k, inbox', unread)
  BY PastFirst
<1>3. n \in Lines /\ n \in Nat /\ kind[n] # "silent"
  BY <1>1, Numbers
<1>4. \A i \in DOMAIN out : out[i].of < n
  BY <1>2, OutLines DEF Inv, OutInv
<1>5. x.of = n /\ x.answer = a /\ x.result = None
  OBVIOUS
<1>6. a \in AnswerKinds /\ Answer(n, a, None)
  BY DEF AnswerKinds
<1> HIDE DEF n, x
<1>7. /\ out' \in Seq(Outputs)
      /\ \A i, j \in DOMAIN out' : i < j => out'[i].of < out'[j].of
      /\ \A i \in DOMAIN out' : (i \in DOMAIN out /\ out'[i] = out[i]) \/ out'[i] = x
      /\ \A k \in Lines : InOut(k, out) => InOut(k, out')
      /\ InOut(n, out')
  BY <1>3, <1>4, <1>6, OutGrows DEF x
<1>8. OrderInv' /\ FramesInv'
  BY <1>0, <1>1, <1>2, MailMoves
<1>9. TypeOK'
  BY <1>0, <1>1, <1>7 DEF TypeOK
<1>10. CallingInv'
  BY <1>0, <1>1 DEF Inv, CallingInv
<1>11. OutInv'
  <2>1. \A i \in DOMAIN out : Past(out[i].of, inbox', unread) /\ kind[out[i].of] # "silent"
    BY <1>2, OutLines DEF Inv, OutInv
  <2> QED
    BY <1>1, <1>3, <1>5, <1>7, <2>1 DEF OutInv
<1>12. ResultInv'
  BY <1>0, <1>5, <1>7 DEF Inv, ResultInv
<1>13. UnavailableInv'
  <2>1. \A k \in Lines : k \in Nat
    BY Numbers
  <2>2. \A i \in DOMAIN pipe : pipe[i] # n
    <3>1. \A i \in DOMAIN pipe : pipe[i] \in Lines
      BY DEF TypeOK
    <3> QED
      BY <1>2, <1>3, <2>1, <3>1 DEF Inv, OrderInv
  <2>3. \A i \in DOMAIN waiting : waiting[i] # n
    <3>1. \A i \in DOMAIN waiting : waiting[i] \in Lines
      BY DEF TypeOK
    <3> QED
      BY <1>2, <1>3, <2>1, <3>1 DEF Inv, OrderInv
  <2>4. busy # n
    BY <1>2, <1>3, <2>1, Numbers DEF Inv, OrderInv, TypeOK
  <2>5. executed[n] = 0
    BY <1>2, <1>3 DEF Inv, OrderInv
  <2>6. ASSUME NEW i \in DOMAIN out', out'[i].answer = "port_unavailable"
        PROVE  /\ executed[out'[i].of] = 0 /\ out'[i].of # busy
               /\ \A j \in DOMAIN pipe : pipe[j] # out'[i].of
               /\ \A j \in DOMAIN waiting : waiting[j] # out'[i].of
    <3>1. CASE i \in DOMAIN out /\ out'[i] = out[i]
      BY <2>6, <3>1 DEF Inv, UnavailableInv
    <3>2. CASE out'[i] = x
      BY <1>5, <2>2, <2>3, <2>4, <2>5, <3>2
    <3> QED
      BY <1>7, <3>1, <3>2
  <2> QED
    BY <1>0, <2>6 DEF UnavailableInv
<1>14. DrainInv'
  <2>1. ASSUME crashes = 0, NEW k \in Lines, k < unread, kind[k] # "silent"
        PROVE  InOut(k, out') \/ \E i \in DOMAIN inbox' : inbox'[i].of = k
    <3>1. CASE InOut(k, out)
      BY <1>7, <3>1
    <3>2. CASE ~InOut(k, out)
      <4>1. calling # k
        BY <1>1, Numbers
      <4>2. PICK i \in DOMAIN inbox : inbox[i].of = k
        BY <1>1, <2>1, <3>2, <4>1 DEF Inv, DrainInv
      <4>3. CASE i = 1
        BY <1>1, <1>7, <4>2, <4>3
      <4>4. CASE i # 1
        BY <1>1, <4>2, <4>4
      <4> QED
        BY <4>3, <4>4
    <3> QED
      BY <3>1, <3>2
  <2>2. vm' = "running" /\ UNCHANGED <<crashes, unread, kind>>
    BY <1>1
  <2> QED
    BY <2>1, <2>2 DEF DrainInv
<1> QED
  BY <1>8, <1>9, <1>10, <1>11, <1>12, <1>13, <1>14 DEF Inv

LEMMA AnswerLocallyKeeps ==
    ASSUME TypeOK, Inv, AnswerLocally
    PROVE  TypeOK' /\ Inv'
<1>1. /\ Takes("cast", OfKind({"local"})) /\ inbox' = Tail(inbox)
      /\ Answer(Head(inbox).of, "local", None)
      /\ UNCHANGED <<vm, kind, unread, server, calling, managerVars, rustVars,
                     restarts, kills, crashes>>
  BY DEF AnswerLocally, ServerOnly
<1>2. OfKind({"local"}) \subseteq {n \in Lines : kind[n] # "silent"}
  BY DEF OfKind
<1> QED
  BY <1>1, <1>2, HeadAnswered

LEMMA CallPortKeeps ==
    ASSUME TypeOK, Inv, CallPort
    PROVE  TypeOK' /\ Inv'
<1> DEFINE S == OfKind({"request", "bulky", "refused"})
           n == Head(inbox).of
<1>1. /\ Takes("cast", S) /\ inbox' = Tail(inbox)
      /\ UNCHANGED <<vm, kind, unread, server, manager, current, frames, rustVars,
                     restarts, kills, crashes>>
  BY DEF CallPort
<1>2. S \subseteq {k \in Lines : kind[k] # "silent"}
  BY DEF OfKind
<1>3. CASE Answer(n, "port_unavailable", None) /\ UNCHANGED <<calling, waiting>>
  <2>1. UNCHANGED managerVars
    BY <1>1, <1>3 DEF managerVars
  <2> QED
    BY <1>1, <1>2, <1>3, <2>1, HeadAnswered
<1>4. CASE calling' = n /\ waiting' = Append(waiting, n) /\ UNCHANGED out
  <2>1. /\ vm = "running" /\ calling = None /\ n \in S /\ unread \in Nat \ {0}
        /\ inbox[1].of = n /\ 1 \in DOMAIN inbox
        /\ inbox' \in Seq(Messages) /\ InboxInv(inbox', unread)
        /\ Past(n, inbox', unread)
        /\ \A i \in DOMAIN inbox : i # 1 => \E j \in DOMAIN inbox' : inbox'[j] = inbox[i]
    BY <1>1, TakesFacts
  <2>2. \A k \in Nat : Past(k, inbox, unread) => k < n /\ Past(k, inbox', unread)
    BY <1>1, PastFirst
  <2>3. n \in Lines /\ n \in Nat /\ kind[n] # "silent" /\ Lines \subseteq Nat /\ n # None
    BY <1>2, <2>1, Numbers
  <2>4. waiting \in Seq(Lines) /\ waiting' = Append(waiting, n)
    BY <1>4 DEF TypeOK
  <2> HIDE DEF n, S
  <2>5. /\ waiting' \in Seq(Lines)
        /\ \A i \in DOMAIN waiting : i \in Nat /\ i < Len(waiting) + 1
                                     /\ waiting[i] \in Nat
        /\ \A i \in DOMAIN waiting' : \/ i \in DOMAIN waiting /\ waiting'[i] = waiting[i]
                                      \/ i = Len(waiting) + 1 /\ waiting'[i] = n
    <3>1. \A i \in DOMAIN waiting : waiting[i] \in Lines
      BY <2>4
    <3>2. /\ waiting' \in Seq(Lines)
          /\ waiting'[Len(waiting) + 1] = n
          /\ \A i \in DOMAIN waiting : waiting'[i] = waiting[i]
                                       /\ i < Len(waiting) + 1 /\ i \in Nat
          /\ \A i \in DOMAIN waiting' : i \in DOMAIN waiting \/ i = Len(waiting) + 1
      BY <2>3, <2>4, AppendFacts
    <3> QED
      BY <2>3, <3>1, <3>2
  <2>6. \A k \in Nat : Past(k, inbox, unread) /\ Before(k, waiting) => Before(k, waiting')
    BY <2>2, <2>5 DEF Before
  <2>7. UNCHANGED <<pipe, rust, busy, executed, kind, unread, out, frames, manager, current,
                    vm, crashes>>
    BY <1>1, <1>4 DEF rustVars
  <2>8. /\ \A i \in DOMAIN pipe : pipe[i] \in Nat
        /\ busy # None => busy \in Nat
    <3>1. \A i \in DOMAIN pipe : pipe[i] \in Lines
      BY DEF TypeOK
    <3> QED
      BY <2>3, <3>1 DEF TypeOK
  <2>9. OrderInv'
    <3>1. Sorted(waiting')
      <4>1. ASSUME NEW i \in DOMAIN waiting', NEW j \in DOMAIN waiting', i < j
            PROVE  waiting'[i] < waiting'[j]
        <5>1. i \in DOMAIN waiting /\ waiting'[i] = waiting[i]
          BY <2>5, <4>1
        <5>2. CASE j \in DOMAIN waiting /\ waiting'[j] = waiting[j]
          BY <4>1, <5>1, <5>2 DEF Inv, OrderInv, Sorted
        <5>3. CASE waiting'[j] = n
          BY <2>2, <2>5, <5>1, <5>3 DEF Inv, OrderInv
        <5> QED
          BY <2>5, <5>2, <5>3
      <4> QED
        BY <4>1 DEF Sorted
    <3>2. \A i \in DOMAIN waiting' : Past(waiting'[i], inbox', unread)
      BY <2>1, <2>2, <2>5 DEF Inv, OrderInv
    <3>3. \A i \in DOMAIN pipe : Past(pipe[i], inbox', unread) /\ Before(pipe[i], waiting')
      BY <2>2, <2>6, <2>8 DEF Inv, OrderInv
    <3>4. busy # None => /\ Past(busy, inbox', unread) /\ Before(busy, waiting')
                         /\ Before(busy, pipe)
      BY <2>2, <2>6, <2>8 DEF Inv, OrderInv
    <3>5. \A k \in Lines : executed[k] # 0 =>
             /\ executed[k] = 1
             /\ Past(k, inbox', unread) /\ Before(k, waiting') /\ Before(k, pipe)
             /\ busy # None => k < busy
      BY <2>2, <2>3, <2>6 DEF Inv, OrderInv
    <3> QED
      BY <2>1, <2>7, <3>1, <3>2, <3>3, <3>4, <3>5 DEF Inv, OrderInv
  <2>10. FramesInv' /\ ResultInv'
    BY <2>7 DEF Inv, FramesInv, ResultInv
  <2>11. CallingInv'
    BY <1>4, <2>1, <2>3, <2>7 DEF Inv, CallingInv
  <2>12. OutInv'
    <3>1. \A i \in DOMAIN out : Past(out[i].of, inbox', unread) /\ out[i].of < n
      BY <2>2, OutLines DEF Inv, OutInv
    <3> QED
      BY <1>4, <2>7, <3>1 DEF Inv, OutInv, n
  <2>13. UnavailableInv'
    <3>1. \A i \in DOMAIN out : out[i].of # n
      BY <2>2, <2>3, OutLines DEF Inv, OutInv
    <3> QED
      BY <2>5, <2>7, <3>1 DEF Inv, UnavailableInv
  <2>14. DrainInv'
    <3>1. calling' = n
      BY <1>4 DEF n
    <3>2. ASSUME crashes = 0, NEW k \in Lines, k < unread, kind[k] # "silent"
          PROVE  InOut(k, out) \/ k = n \/ \E i \in DOMAIN inbox' : inbox'[i].of = k
      <4>1. CASE InOut(k, out)
        BY <4>1
      <4>2. CASE ~InOut(k, out)
        <5>1. calling # k
          BY <2>1, Numbers
        <5>2. PICK i \in DOMAIN inbox : inbox[i].of = k
          BY <2>1, <3>2, <4>2, <5>1 DEF Inv, DrainInv
        <5>3. CASE i = 1
          BY <2>1, <5>2, <5>3
        <5>4. CASE i # 1
          BY <2>1, <5>2, <5>4
        <5> QED
          BY <5>3, <5>4
      <4> QED
        BY <4>1, <4>2
    <3> QED
      BY <2>1, <2>7, <3>1, <3>2 DEF DrainInv
  <2>15. TypeOK'
    <3>1. calling' = n
      BY <1>4 DEF n
    <3> QED
      BY <1>1, <2>1, <2>3, <2>5, <2>7, <3>1 DEF TypeOK
  <2> QED
    BY <2>9, <2>10, <2>11, <2>12, <2>13, <2>14, <2>15 DEF Inv
<1> QED
  BY <1>3, <1>4 DEF CallPort

LEMMA CrashServerKeeps ==
    ASSUME TypeOK, Inv, CrashServer
    PROVE  TypeOK' /\ Inv'
<1>1. /\ vm = "running" /\ server' = FALSE /\ inbox' = <<>> /\ calling' = None
      /\ crashes' = crashes + 1
      /\ UNCHANGED <<vm, kind, unread, out, managerVars, rustVars, restarts, kills>>
  BY DEF CrashServer
<1>2. /\ <<>> \in Seq(Messages) /\ InboxInv(<<>>, unread)
      /\ \A n \in Nat : Past(n, inbox, unread) => Past(n, <<>>, unread)
  BY DEF InboxInv, Past
<1>3. crashes \in Nat /\ unread \in Nat \ {0} /\ vm' = "running" /\ crashes' # 0
      /\ crashes' \in Nat
  BY <1>1 DEF TypeOK
<1>4. DrainInv'
  BY <1>1, <1>3 DEF DrainInv
<1> QED
  BY <1>1, <1>2, <1>3, <1>4, ServerKeeps

-----------------------------------------------------------------------------
(* The supervisor and Rust.                                                *)

LEMMA GiveUpKeeps ==
    ASSUME TypeOK, Inv, GiveUp
    PROVE  TypeOK' /\ Inv'
<1>1. /\ vm' = "abandoned" /\ server' = FALSE /\ inbox' = <<>> /\ calling' = None
      /\ manager' = "down" /\ current' = None /\ waiting' = <<>> /\ frames' = <<>>
      /\ UNCHANGED <<kind, unread, out, pipe, rust, busy, executed, restarts, kills, crashes>>
  BY DEF GiveUp, rustVars
<1>2. /\ InboxInv(<<>>, unread) /\ (\A n : Past(n, inbox, unread) => Past(n, <<>>, unread))
      /\ Sorted(<<>>) /\ (\A n : Before(n, <<>>)) /\ DOMAIN <<>> = {}
  BY DEF InboxInv, Past, Sorted, Before
<1>3. <<>> \in Seq(Messages) /\ <<>> \in Seq(Lines) /\ <<>> \in Seq(Replies)
  OBVIOUS
<1>4. OrderInv'
  BY <1>1, <1>2 DEF Inv, OrderInv
<1>5. FramesInv' /\ CallingInv' /\ OutInv' /\ ResultInv' /\ UnavailableInv' /\ DrainInv'
  BY <1>1, <1>2 DEF Inv, FramesInv, CallingInv, OutInv, ResultInv, UnavailableInv, DrainInv
<1>6. TypeOK'
  BY <1>1, <1>3 DEF TypeOK
<1> QED
  BY <1>4, <1>5, <1>6 DEF Inv

LEMMA RestartServerKeeps ==
    ASSUME TypeOK, Inv, RestartServer \/ ForgetRestart
    PROVE  TypeOK' /\ Inv'
<1>1. /\ UNCHANGED <<vm, kind, unread, inbox, calling, out, manager, current, waiting,
                     frames, pipe, rust, busy, executed, kills, crashes>>
      /\ server' \in BOOLEAN /\ restarts' \in Nat
  <2>1. restarts \in Nat /\ server \in BOOLEAN
    BY DEF TypeOK
  <2>2. CASE RestartServer
    BY <2>1, <2>2 DEF RestartServer, WithinIntensity, managerVars, rustVars
  <2>3. CASE ForgetRestart
    BY <2>1, <2>3 DEF ForgetRestart, serverVars, managerVars, rustVars
  <2> QED
    BY <2>2, <2>3
<1>2. TypeOK'
  BY <1>1 DEF TypeOK
<1>3. OrderInv' /\ FramesInv' /\ CallingInv' /\ OutInv'
  BY <1>1 DEF Inv, OrderInv, FramesInv, CallingInv, OutInv
<1>4. ResultInv' /\ UnavailableInv' /\ DrainInv'
  BY <1>1 DEF Inv, ResultInv, UnavailableInv, DrainInv
<1> QED
  BY <1>2, <1>3, <1>4 DEF Inv

\* Rust takes the next request.
LEMMA ReadRequestKeeps ==
    ASSUME TypeOK, Inv, ReadRequest
    PROVE  TypeOK' /\ Inv'
<1> DEFINE n == Head(pipe)
<1>1. /\ busy = None /\ pipe # <<>> /\ pipe \in Seq(Lines)
      /\ busy' = n /\ pipe' = Tail(pipe)
      /\ UNCHANGED <<vm, kind, unread, inbox, server, calling, out, manager, current,
                     waiting, frames, rust, executed, restarts, kills, crashes>>
  BY DEF ReadRequest, RustOnly, serverVars, TypeOK
<1>2. /\ n \in Lines /\ n = pipe[1] /\ 1 \in DOMAIN pipe /\ pipe' \in Seq(Lines)
      /\ \A i \in DOMAIN pipe' :
            i \in Nat /\ i + 1 \in DOMAIN pipe /\ 1 < i + 1 /\ pipe'[i] = pipe[i + 1]
  BY <1>1, TailFacts
<1> HIDE DEF n
<1>3. /\ Sorted(pipe)
      /\ \A i \in DOMAIN pipe : Past(pipe[i], inbox, unread) /\ Before(pipe[i], waiting)
  BY DEF Inv, OrderInv
<1>4. Sorted(pipe')
  <2>1. \A i, j \in DOMAIN pipe' : i < j => i + 1 < j + 1
    BY <1>2
  <2> QED
    BY <1>2, <1>3, <2>1 DEF Sorted
<1>5. Before(n, pipe')
  BY <1>2, <1>3 DEF Sorted, Before
<1>6. \A k : Before(k, pipe) => Before(k, pipe') /\ k < n
  BY <1>2 DEF Before
<1>7. OrderInv'
  BY <1>1, <1>2, <1>3, <1>4, <1>5, <1>6 DEF Inv, OrderInv
<1>8. UnavailableInv'
  BY <1>1, <1>2 DEF Inv, UnavailableInv
<1>9. FramesInv' /\ CallingInv' /\ OutInv' /\ ResultInv' /\ DrainInv'
  BY <1>1 DEF Inv, FramesInv, CallingInv, OutInv, ResultInv, DrainInv
<1>10. TypeOK'
  BY <1>1, <1>2 DEF TypeOK
<1> QED
  BY <1>7, <1>8, <1>9, <1>10 DEF Inv

\* Rust is done with its request, executed or not, or is replaced; what is still in
\* the pipe may be gone.
RustStep ==
    /\ UNCHANGED <<vm, kind, unread, inbox, server, calling, out, current, waiting, crashes>>
    /\ manager' \in {manager, "handshake"}
    /\ rust' \in {"booting", "serving", "gone"} /\ restarts' \in Nat /\ kills' \in Nat
    /\ pipe' \in {pipe, <<>>} /\ busy' = None
    /\ executed' = executed \/ (busy # None /\ ExecutesBusy)
    /\ \/ frames' = frames
       \/ \E x \in Replies :
             /\ frames' = Append(frames, x)
             /\ x.id # None => /\ x.id = busy /\ x.of = busy /\ busy # None
                               /\ kind[busy] # "refused" => ExecutesBusy

LEMMA RustKeeps ==
    ASSUME TypeOK, Inv, RustStep
    PROVE  TypeOK' /\ Inv'
<1>1. /\ UNCHANGED <<vm, kind, unread, inbox, server, calling, out, current, waiting, crashes>>
      /\ manager' \in {manager, "handshake"}
      /\ rust' \in {"booting", "serving", "gone"} /\ restarts' \in Nat /\ kills' \in Nat
      /\ pipe' \in {pipe, <<>>} /\ busy' = None
  BY DEF RustStep
<1>2. executed \in [Lines -> Nat] /\ busy \in Lines \cup {None}
  BY DEF TypeOK
<1>3. busy # None => executed[busy] = 0
  <2>1. ASSUME busy # None, executed[busy] # 0
        PROVE  FALSE
    <3>1. busy \in Lines /\ busy \in Nat
      BY <1>2, <2>1, Numbers
    <3>2. busy < busy
      BY <2>1, <3>1 DEF Inv, OrderInv
    <3> QED
      BY <3>1, <3>2
  <2> QED
    BY <2>1
<1>4. /\ executed' \in [Lines -> Nat]
      /\ \A n \in Lines : executed'[n] = executed[n] \/ (n = busy /\ executed'[n] = 1)
  <2>1. CASE executed' = executed
    BY <1>2, <2>1
  <2>2. CASE busy # None /\ ExecutesBusy
    <3>1. busy \in Lines
      BY <1>2, <2>2
    <3>2. executed' = [executed EXCEPT ![busy] = executed[busy] + 1]
      BY <2>2 DEF ExecutesBusy
    <3> QED
      BY <1>2, <1>3, <2>2, <3>1, <3>2
  <2> QED
    BY <2>1, <2>2 DEF RustStep
<1>5. \A n \in Lines : executed[n] = 1 => executed'[n] = 1
  BY <1>4
<1>6. /\ pipe' \in Seq(Lines) /\ Sorted(pipe')
      /\ \A n : Before(n, pipe) => Before(n, pipe')
      /\ \A i \in DOMAIN pipe' : i \in DOMAIN pipe /\ pipe'[i] = pipe[i]
  <2>1. pipe \in Seq(Lines) /\ Sorted(pipe)
    BY DEF TypeOK, Inv, OrderInv
  <2>2. /\ <<>> \in Seq(Lines) /\ DOMAIN <<>> = {}
    OBVIOUS
  <2>3. CASE pipe' = pipe
    BY <2>1, <2>3
  <2>4. CASE pipe' = <<>>
    BY <2>2, <2>4 DEF Sorted, Before
  <2> QED
    BY <1>1, <2>3, <2>4
<1>7. OrderInv'
  <2>1. \A i \in DOMAIN pipe' : Past(pipe'[i], inbox, unread) /\ Before(pipe'[i], waiting)
    BY <1>6 DEF Inv, OrderInv
  <2>2. ASSUME NEW n \in Lines, executed'[n] # 0
        PROVE  /\ executed'[n] = 1
               /\ Past(n, inbox, unread) /\ Before(n, waiting) /\ Before(n, pipe')
    <3>1. CASE executed'[n] = executed[n]
      BY <1>6, <2>2, <3>1 DEF Inv, OrderInv
    <3>2. CASE n = busy /\ executed'[n] = 1
      <4>1. n # None
        BY Numbers
      <4> QED
        BY <1>6, <3>2, <4>1 DEF Inv, OrderInv
    <3> QED
      BY <1>4, <3>1, <3>2
  <2>3. InboxInv(inbox, unread) /\ Sorted(waiting)
        /\ \A i \in DOMAIN waiting : Past(waiting[i], inbox, unread)
    BY DEF Inv, OrderInv
  <2> QED
    BY <1>1, <1>6, <2>1, <2>2, <2>3 DEF OrderInv
<1>8. FramesInv' /\ frames' \in Seq(Replies)
  <2>1. frames \in Seq(Replies)
    BY DEF TypeOK
  <2>2. \A i \in DOMAIN frames : frames[i] \in Replies
    BY <2>1
  <2>3. \A i \in DOMAIN frames : frames[i].id # None =>
            /\ frames[i].id = frames[i].of
            /\ kind[frames[i].of] # "refused" => executed'[frames[i].of] = 1
    BY <1>5, <2>2 DEF Inv, FramesInv, Replies
  <2>4. CASE frames' = frames
    BY <1>1, <2>1, <2>3, <2>4 DEF FramesInv
  <2>5. CASE frames' # frames
    <3>1. PICK x \in Replies :
             /\ frames' = Append(frames, x)
             /\ x.id # None => /\ x.id = busy /\ x.of = busy /\ busy # None
                               /\ kind[busy] # "refused" => ExecutesBusy
      BY <2>5 DEF RustStep
    <3>2. /\ frames' \in Seq(Replies)
          /\ \A i \in DOMAIN frames' : \/ i \in DOMAIN frames /\ frames'[i] = frames[i]
                                       \/ frames'[i] = x
      BY <2>1, <3>1, AppendFacts
    <3>3. ASSUME x.id # None
          PROVE  x.id = x.of /\ (kind[x.of] # "refused" => executed'[x.of] = 1)
      <4>1. /\ x.id = busy /\ x.of = busy /\ busy \in Lines
            /\ kind[busy] # "refused" =>
                  executed' = [executed EXCEPT ![busy] = executed[busy] + 1]
        BY <1>2, <3>1, <3>3 DEF ExecutesBusy
      <4> QED
        BY <1>2, <1>3, <4>1, Numbers
    <3> QED
      BY <1>1, <2>3, <3>2, <3>3 DEF FramesInv
  <2> QED
    BY <2>4, <2>5
<1>9. \A i \in DOMAIN out : out[i].of \in Lines
  <2>1. \A i \in DOMAIN out : out[i] \in Outputs
    BY OutLines
  <2> QED
    BY <2>1 DEF Outputs
<1>10. ResultInv'
  BY <1>1, <1>5, <1>9 DEF Inv, ResultInv
<1>11. UnavailableInv'
  <2>1. ASSUME NEW i \in DOMAIN out, out[i].answer = "port_unavailable"
        PROVE  /\ executed'[out[i].of] = 0 /\ out[i].of # None
               /\ \A j \in DOMAIN pipe' : pipe'[j] # out[i].of
               /\ \A j \in DOMAIN waiting : waiting[j] # out[i].of
    BY <1>4, <1>6, <1>9, <2>1, Numbers DEF Inv, UnavailableInv
  <2> QED
    BY <1>1, <2>1 DEF UnavailableInv
<1>12. CallingInv' /\ OutInv' /\ DrainInv'
  BY <1>1 DEF Inv, CallingInv, OutInv, DrainInv
<1>13. TypeOK'
  BY <1>1, <1>4, <1>6, <1>8 DEF TypeOK
<1> QED
  BY <1>7, <1>8, <1>10, <1>11, <1>12, <1>13 DEF Inv

LEMMA RestartManagerKeeps ==
    ASSUME TypeOK, Inv, RestartManager
    PROVE  TypeOK' /\ Inv'
<1>1. RustStep
  BY DEF RestartManager, WithinIntensity, serverVars, RustStep, TypeOK
<1> QED
  BY <1>1, RustKeeps

LEMMA WriteReplyKeeps ==
    ASSUME TypeOK, Inv, WriteReply
    PROVE  TypeOK' /\ Inv'
<1>1. busy # None /\ busy \in Lines
  BY DEF WriteReply, TypeOK
<1>2. /\ executed' = executed \/ ExecutesBusy
      /\ kind[busy] # "refused" => ExecutesBusy
      /\ rust' \in {rust, "gone"} /\ busy' = None /\ UNCHANGED <<pipe, kills>>
      /\ RustOnly
  BY DEF WriteReply
<1>3. \/ frames' = frames
      \/ \E x \in Replies :
            /\ frames' = Append(frames, x)
            /\ x.id # None => /\ x.id = busy /\ x.of = busy /\ busy # None
                              /\ kind[busy] # "refused" => ExecutesBusy
  <2>1. CASE manager \in {"idle", "suspended", "collecting"}
    <3> DEFINE x(id) == [of |-> busy, id |-> id, whole |-> kind[busy] # "bulky"]
    <3>1. PICK id \in ReplyIds : frames' = Append(frames, x(id))
      BY <2>1 DEF WriteReply
    <3>2. id \in {None, busy}
      BY <3>1 DEF ReplyIds
    <3>3. x(id) \in Replies /\ x(id).of = busy /\ x(id).id = id
      BY <1>1, <3>2 DEF Replies
    <3> HIDE DEF x
    <3>4. x(id).id # None => /\ x(id).id = busy /\ x(id).of = busy /\ busy # None
                             /\ kind[busy] # "refused" => ExecutesBusy
      BY <1>1, <1>2, <3>2, <3>3
    <3> QED
      BY <3>1, <3>3, <3>4
  <2>2. CASE manager \notin {"idle", "suspended", "collecting"}
    BY <2>2 DEF WriteReply
  <2> QED
    BY <2>1, <2>2
<1>4. RustStep
  <2>1. /\ UNCHANGED <<vm, kind, unread, inbox, server, calling, out, manager, current,
                       waiting, restarts, crashes>>
        /\ restarts \in Nat /\ kills' \in Nat /\ rust' \in {"booting", "serving", "gone"}
    BY <1>2 DEF RustOnly, serverVars, TypeOK
  <2> QED
    BY <1>1, <1>2, <1>3, <2>1 DEF RustStep
<1> QED
  BY <1>4, RustKeeps

LEMMA DieKeeps ==
    ASSUME TypeOK, Inv, Die
    PROVE  TypeOK' /\ Inv'
<1>1. RustStep
  BY DEF Die, RustOnly, serverVars, RustStep, TypeOK
<1> QED
  BY <1>1, RustKeeps

-----------------------------------------------------------------------------
(* The session.                                                            *)

LEMMA InitHolds == Init => TypeOK /\ Inv
<1> SUFFICES ASSUME Init PROVE TypeOK /\ Inv
  OBVIOUS
<1>1. /\ <<>> \in Seq(Messages) /\ <<>> \in Seq(Lines) /\ <<>> \in Seq(Replies)
      /\ <<>> \in Seq(Outputs) /\ DOMAIN <<>> = {}
  OBVIOUS
<1>2. TypeOK
  <2>1. kind \in [Lines -> Kinds] /\ unread = 1 /\ executed = [n \in Lines |-> 0]
    BY DEF Init
  <2>2. 1 \in Nat \ {0} /\ executed \in [Lines -> Nat]
    BY <2>1
  <2> QED
    BY <1>1, <2>1, <2>2 DEF Init, TypeOK
<1>3. /\ InboxInv(<<>>, 1) /\ Sorted(<<>>) /\ \A n \in Lines : 1 <= n
  BY SessionAssumption DEF InboxInv, Sorted, Lines
<1>4. OrderInv
  BY <1>1, <1>3 DEF Init, OrderInv
<1>5. DrainInv
  BY <1>3, Numbers DEF Init, DrainInv
<1>6. FramesInv /\ CallingInv /\ OutInv /\ ResultInv /\ UnavailableInv
  BY <1>1 DEF Init, FramesInv, CallingInv, OutInv, ResultInv, UnavailableInv
<1> QED
  BY <1>2, <1>4, <1>5, <1>6 DEF Inv

LEMMA StutterKeeps ==
    ASSUME TypeOK, Inv, UNCHANGED vars
    PROVE  TypeOK' /\ Inv'
<1>1. UNCHANGED <<vm, kind, unread, inbox, server, calling, out, manager, current, waiting,
                  frames, pipe, rust, busy, executed, restarts, kills, crashes>>
  BY DEF vars, serverVars, managerVars, rustVars
<1>2. TypeOK'
  BY <1>1 DEF TypeOK
<1>3. OrderInv' /\ FramesInv' /\ CallingInv' /\ OutInv'
  BY <1>1 DEF Inv, OrderInv, FramesInv, CallingInv, OutInv
<1>4. ResultInv' /\ UnavailableInv' /\ DrainInv'
  BY <1>1 DEF Inv, ResultInv, UnavailableInv, DrainInv
<1> QED
  BY <1>2, <1>3, <1>4 DEF Inv

LEMMA NextKeeps ==
    ASSUME TypeOK, Inv, [Next]_vars
    PROVE  TypeOK' /\ Inv'
<1>1. CASE Arrive \/ CrashServer
  BY <1>1, ArriveKeeps, CrashServerKeeps
<1>2. CASE Serve
  BY <1>2, FrameOrIgnoreKeeps, AnswerLocallyKeeps, HaltKeeps, CallPortKeeps DEF Serve
<1>3. CASE Manage \/ SendResumes
  BY <1>3, ManageKeeps
<1>4. CASE Supervise \/ ForgetRestart
  BY <1>4, RestartManagerKeeps, RestartServerKeeps, GiveUpKeeps DEF Supervise
<1>5. CASE ReadRequest \/ WriteReply \/ Die
  BY <1>5, ReadRequestKeeps, WriteReplyKeeps, DieKeeps
<1>6. CASE UNCHANGED vars
  BY <1>6, StutterKeeps
<1> QED
  BY <1>1, <1>2, <1>3, <1>4, <1>5, <1>6 DEF Next

\* Requests leave McpServer, PortManager, the pipe and Rust in the order of their
\* lines, whatever times out, dies or is restarted in between: everything that is
\* proved of the session rests on this.
THEOREM SessionInvariant == Spec => [](TypeOK /\ Inv)
<1>1. Init => TypeOK /\ Inv
  BY InitHolds
<1>2. TypeOK /\ Inv /\ [Next]_vars => (TypeOK /\ Inv)'
  BY NextKeeps
<1> QED
  BY <1>1, <1>2, PTL DEF Spec

\* A result is the result of the request it answers, which was executed: replies to
\* requests that timed out, or that a former McpServer made, are never taken for it.
THEOREM ResultIsOwn == Spec => []OwnResult
<1>1. Inv => OwnResult
  BY DEF Inv, ResultInv, OwnResult
<1> QED
  BY <1>1, SessionInvariant, PTL

\* Nothing is executed twice, and what port_unavailable answered never is.
THEOREM AtMostOnce == Spec => []ExecutedOnce
<1>1. ASSUME TypeOK, Inv
      PROVE  ExecutedOnce
  <2>1. \A n \in Lines : executed[n] <= 1
    <3>1. \A n \in Lines : executed[n] = 0 \/ executed[n] = 1
      BY <1>1 DEF Inv, OrderInv
    <3> QED
      BY <3>1
  <2>2. ASSUME NEW i \in DOMAIN out, out[i].answer = "port_unavailable"
        PROVE  executed[out[i].of] = 0 /\ out[i].of \notin {busy} \cup ToSet(pipe)
    BY <1>1, <2>2 DEF Inv, UnavailableInv, ToSet
  <2> QED
    BY <2>1, <2>2 DEF ExecutedOnce
<1> QED
  BY <1>1, SessionInvariant, PTL

\* Answers come in the order of the lines, one each, and when end of file stopped an
\* application whose McpServer never crashed, to every line that wants one.
THEOREM EofDrains == Spec => []DrainedAtEof
<1>1. ASSUME TypeOK, Inv
      PROVE  DrainedAtEof
  <2>1. \A i, j \in DOMAIN out : i < j => out[i].of < out[j].of
    BY <1>1 DEF Inv, OutInv
  <2>2. \A i \in DOMAIN out : out[i].of \in Answerable
    <3>1. \A i \in DOMAIN out : out[i] \in Outputs
      BY <1>1, OutLines
    <3> QED
      BY <1>1, <3>1 DEF Inv, OutInv, Outputs, Answerable
  <2>3. ASSUME vm = "halted", crashes = 0
        PROVE  {out[i].of : i \in DOMAIN out} = Answerable
    BY <1>1, <2>2, <2>3 DEF Inv, DrainInv, InOut, Answerable
  <2> QED
    BY <2>1, <2>3 DEF DrainedAtEof
<1> QED
  BY <1>1, SessionInvariant, PTL
=============================================================================
