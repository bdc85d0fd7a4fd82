-------------------------- MODULE LogFramingProofs --------------------------
(***************************************************************************)
(* What the text of the log guarantees, for every log that another program *)
(* left, every size of a window, of a batch and of a line's content, and   *)
(* any number of batches, faults and compactions: the backward searches    *)
(* agree with the scan, no step breaks a reader, the cursor splits the log *)
(* between two batches, and readers see whole batches in order.            *)
(***************************************************************************)
EXTENDS LogFraming, FiniteSetTheorems, SequenceTheorems, NaturalsInduction,
        WellFoundedInduction, TLAPS

-----------------------------------------------------------------------------
(* Induction, over a set, and least elements.                              *)

LEMMA LeastIs ==
    ASSUME NEW S \in SUBSET Nat, S # {}
    PROVE  \E m \in S : \A x \in S : m <= x
<1>1. PICK m \in S : \A x \in S : ~(<<x, m>> \in OpToRel(<, Nat))
  BY NatLessThanWellFounded, WFMin
<1>2. \A x \in S : m <= x
  <2> SUFFICES ASSUME NEW x \in S, ~(m <= x) PROVE FALSE
    OBVIOUS
  <2>1. x < m /\ x \in Nat /\ m \in Nat
    OBVIOUS
  <2>2. <<x, m>> \in OpToRel(<, Nat)
    BY <2>1 DEF OpToRel
  <2> QED BY <1>1, <2>2
<1> QED BY <1>2

LEMMA MinIsLeast ==
    ASSUME NEW S \in SUBSET Nat, S # {}
    PROVE  Min(S) \in S /\ \A x \in S : Min(S) <= x
BY LeastIs DEF Min

LEMMA Upwards ==
    ASSUME NEW n \in Nat, NEW S, 0 \in S, \A k \in 0 .. n - 1 : k \in S => k + 1 \in S
    PROVE  \A k \in 0 .. n : k \in S
<1> DEFINE T == (0 .. n) \ S
<1> SUFFICES ASSUME T # {} PROVE FALSE
  OBVIOUS
<1>1. T \subseteq Nat
  OBVIOUS
<1>2. PICK m \in T : \A x \in T : m <= x
  BY <1>1, LeastIs
<1>3. m \in 0 .. n /\ m \notin S /\ m # 0
  OBVIOUS
<1>4. m - 1 \in 0 .. n - 1 /\ (m - 1) + 1 = m
  BY <1>3
<1>5. m - 1 \in T
  BY <1>3, <1>4
<1> QED BY <1>2, <1>3, <1>5

-----------------------------------------------------------------------------
(* Logs, and what a scan knows of them.                                    *)

\* The offset after line k.
End(f, k) == IF k = 0 THEN 0 ELSE IF f[k].ended THEN 2 * k ELSE 2 * k - 1

Scans == [status : {"reading", "ended", "error"}, events : Seq(Lines), committed : Nat,
          span : Seq(Lines), pending : Seq(Lines)]

\* What the scan knows after each of the first n lines.
Scanning(s, f, n) ==
    s = [k \in 0 .. n |-> IF k = 0 THEN ScanStart ELSE ScanLine(s[k - 1], f[k], End(f, k))]

Scanned(f) == CHOOSE s : Scanning(s, f, Len(f))
ScanAt(f, k) == Scanned(f)[k]

LEMMA LogType ==
    ASSUME NEW f, Log(f)
    PROVE  /\ f \in Seq(Lines) /\ Len(f) \in Nat /\ DOMAIN f = 1 .. Len(f)
           /\ \A k \in 1 .. Len(f) : /\ f[k] \in Lines /\ End(f, k) \in Nat
                                     /\ k < Len(f) => f[k].ended
BY DEF Log, End

LEMMA LineIsScanned ==
    ASSUME NEW s \in Scans, NEW line \in Lines, NEW end \in Nat
    PROVE  ScanLine(s, line, end) \in Scans
<1>1. Event(line.batch, line.n) \in Lines
  BY DEF Event, Text, Lines
<1>2. /\ Append(s.events, Event(line.batch, line.n)) \in Seq(Lines)
      /\ Append(s.pending, Event(line.batch, line.n)) \in Seq(Lines)
      /\ s.events \o s.pending \in Seq(Lines)
      /\ <<line>> \in Seq(Lines) /\ <<>> \in Seq(Lines)
  BY <1>1 DEF Scans
<1>3. ScanEvent(s, line, end) \in Scans
  BY <1>2 DEF Scans, ScanEvent
<1>4. ScanCommit(s, line, end) \in Scans
  BY <1>2 DEF Scans, ScanCommit
<1> QED BY <1>2, <1>3, <1>4 DEF Scans, ScanLine

LEMMA StartIsScan == ScanStart \in Scans
<1>1. <<>> \in Seq(Lines)
  OBVIOUS
<1> QED BY <1>1 DEF ScanStart, Scans

(* The first n lines can be scanned, as the lines before them can. *)
LEMMA ScanningGoesOn ==
    ASSUME NEW f, NEW n \in Nat, NEW s, Scanning(s, f, n)
    PROVE  \E t : Scanning(t, f, n + 1)
<1> DEFINE G(t, k) == IF k = 0 THEN ScanStart ELSE ScanLine(t[k - 1], f[k], End(f, k))
           last == ScanLine(s[n], f[n + 1], End(f, n + 1))
           t == [k \in 0 .. n + 1 |-> IF k <= n THEN s[k] ELSE last]
<1>1. \A k \in 0 .. n : s[k] = G(s, k)
  BY DEF Scanning
<1>2. \A k \in 0 .. n : t[k] = s[k]
  OBVIOUS
<1>3. t[n + 1] = last
  OBVIOUS
<1>4. t = [k \in 0 .. n + 1 |-> t[k]]
  OBVIOUS
<1> HIDE DEF t
<1>5. ASSUME NEW k \in 0 .. n + 1 PROVE t[k] = G(t, k)
  <2>1. CASE k = 0
    BY <1>1, <1>2, <2>1
  <2>2. CASE k # 0 /\ k <= n
    <3>1. k \in 0 .. n /\ k - 1 \in 0 .. n
      BY <2>2
    <3> QED BY <1>1, <1>2, <2>2, <3>1
  <2>3. CASE k = n + 1
    <3>1. k # 0 /\ k - 1 = n /\ n \in 0 .. n
      BY <2>3
    <3> QED BY <1>2, <1>3, <2>3, <3>1
  <2> QED BY <2>1, <2>2, <2>3
<1> QED BY <1>4, <1>5 DEF Scanning

LEMMA ScanIs ==
    ASSUME NEW f, Log(f)
    PROVE  /\ ScanAt(f, 0) = ScanStart
           /\ \A k \in 0 .. Len(f) - 1 :
                 ScanAt(f, k + 1) = ScanLine(ScanAt(f, k), f[k + 1], End(f, k + 1))
           /\ \A k \in 0 .. Len(f) : ScanAt(f, k) \in Scans
           /\ Scan(f) = ScanAt(f, Len(f))
<1> DEFINE n == Len(f)
           S == {k \in 0 .. n : \E s : Scanning(s, f, k)}
<1>1. n \in Nat
  BY LogType
<1>2. 0 \in S
  <2>1. \A k \in 0 .. 0 : k = 0
    OBVIOUS
  <2>2. Scanning([j \in 0 .. 0 |-> ScanStart], f, 0)
    BY <2>1 DEF Scanning
  <2> QED BY <1>1, <2>2
<1>3. \A k \in 0 .. n - 1 : k \in S => k + 1 \in S
  BY <1>1, ScanningGoesOn
<1> HIDE DEF S
<1>4. \A k \in 0 .. n : k \in S
  BY <1>1, <1>2, <1>3, Upwards
<1>5. \E s : Scanning(s, f, n)
  BY <1>1, <1>4 DEF S
<1>6. Scanning(Scanned(f), f, n)
  BY <1>5 DEF Scanned
<1>7. \A k \in 0 .. n : ScanAt(f, k) = IF k = 0 THEN ScanStart
                                       ELSE ScanLine(ScanAt(f, k - 1), f[k], End(f, k))
  BY <1>6 DEF Scanning, ScanAt
<1>8. ScanAt(f, 0) = ScanStart
  BY <1>1, <1>7
<1>9. ASSUME NEW k \in 0 .. n - 1
      PROVE  ScanAt(f, k + 1) = ScanLine(ScanAt(f, k), f[k + 1], End(f, k + 1))
  <2>1. k + 1 \in 0 .. n /\ k + 1 # 0 /\ (k + 1) - 1 = k
    BY <1>1
  <2> QED BY <1>7, <2>1
<1>10. \A k \in 0 .. n : ScanAt(f, k) \in Scans
  <2> DEFINE T == {k \in 0 .. n : ScanAt(f, k) \in Scans}
  <2>1. 0 \in T
    BY <1>1, <1>8, StartIsScan
  <2>2. \A k \in 0 .. n - 1 : k \in T => k + 1 \in T
    <3> TAKE k \in 0 .. n - 1
    <3> HAVE k \in T
    <3>1. k + 1 \in 1 .. n
      BY <1>1
    <3>2. f[k + 1] \in Lines /\ End(f, k + 1) \in Nat
      BY <3>1, LogType
    <3> QED BY <1>9, <3>1, <3>2, LineIsScanned
  <2> HIDE DEF T
  <2>3. \A k \in 0 .. n : k \in T
    BY <1>1, <2>1, <2>2, Upwards
  <2> QED BY <2>3 DEF T
<1>11. Scan(f) = ScanAt(f, n)
  <2>1. Scan(f) = (CHOOSE s : Scanning(s, f, n))[n]
    BY DEF Scan, Scanning, End
  <2> QED BY <2>1 DEF ScanAt, Scanned
<1> QED BY <1>8, <1>9, <1>10, <1>11

LEMMA SizeIs ==
    ASSUME NEW f, Log(f)
    PROVE  Size(f) = End(f, Len(f)) /\ Size(f) \in Nat
<1>1. Len(f) \in Nat /\ (Len(f) = 0 <=> f = <<>>)
  BY LogType
<1>2. f # <<>> => Last(f) = f[Len(f)] /\ f[Len(f)].ended \in BOOLEAN
  BY <1>1, LogType DEF Last, Lines
<1> QED BY <1>1, <1>2 DEF Size, LastEnded, End

\* Outside of a span everything is committed; only the end of the text ends a scan.
Told(s, f, k) ==
    /\ s.status = "reading" /\ s.span = <<>> => s.committed = End(f, k) /\ s.pending = <<>>
    /\ s.status = "ended" => k = Len(f)
    /\ s.committed <= End(f, k)
    /\ s.committed = 0 => s.events = <<>>

LEMMA StepTold ==
    ASSUME NEW f, Log(f), NEW k \in 0 .. Len(f) - 1, Told(ScanAt(f, k), f, k)
    PROVE  Told(ScanAt(f, k + 1), f, k + 1)
<1> DEFINE s == ScanAt(f, k)
           line == f[k + 1]
           end == End(f, k + 1)
           t == ScanAt(f, k + 1)
<1>1. /\ s \in Scans /\ line \in Lines /\ end \in Nat
      /\ t = ScanLine(s, line, end)
      /\ k + 1 < Len(f) => line.ended
      /\ Len(f) \in Nat /\ k + 1 <= Len(f)
  BY LogType, ScanIs
<1>2. End(f, k) \in Nat /\ End(f, k) <= end /\ end > 0
  <2>1. k > 0 => f[k].ended
    BY <1>1, LogType
  <2> QED BY <1>1, <2>1 DEF End
<1>3. /\ s.status = "reading" /\ s.span = <<>> => s.committed = End(f, k) /\ s.pending = <<>>
      /\ s.status = "ended" => FALSE
      /\ s.committed <= End(f, k) /\ s.committed \in Nat
      /\ s.committed = 0 => s.events = <<>>
  <2>1. k # Len(f)
    BY <1>1
  <2> QED BY <1>1, <2>1 DEF Told, Scans
<1> HIDE DEF s, line, end, t
<1>4. CASE s.status # "reading"
  <2>1. t = s
    BY <1>1, <1>4 DEF ScanLine
  <2> QED BY <1>1, <1>2, <1>3, <1>4, <2>1 DEF Told, end, t, Scans
<1>5. CASE s.status = "reading"
  <2>1. /\ t.status = "reading" /\ t.span = <<>> => t.committed = end /\ t.pending = <<>>
        /\ t.status = "ended" => ~line.ended
        /\ t.committed \in {s.committed, end}
        /\ t.committed # end => t.events = s.events
    <3>1. CASE line.kind = "torn"
      BY <1>1, <1>3, <1>5, <3>1 DEF ScanLine, Scans, Lines
    <3>2. CASE line.kind = "blank"
      BY <1>1, <1>3, <1>5, <3>2 DEF ScanLine, Scans, Lines
    <3>3. CASE line.kind = "begin"
      BY <1>1, <1>3, <1>5, <3>3 DEF ScanLine, Scans, Lines
    <3>4. CASE line.kind = "commit"
      BY <1>1, <1>3, <1>5, <3>4 DEF ScanLine, ScanCommit, Scans, Lines, Closes
    <3>5. CASE line.kind = "event"
      BY <1>1, <1>3, <1>5, <3>5 DEF ScanLine, ScanEvent, Scans, Lines
    <3> QED BY <1>1, <3>1, <3>2, <3>3, <3>4, <3>5 DEF Lines
  <2>2. t.status = "ended" => k + 1 = Len(f)
    BY <1>1, <2>1
  <2>3. t.committed <= end /\ (t.committed = 0 => t.events = <<>>)
    BY <1>1, <1>2, <1>3, <2>1
  <2> QED BY <2>1, <2>2, <2>3 DEF Told, end, t
<1> QED BY <1>4, <1>5

LEMMA ScanTold ==
    ASSUME NEW f, Log(f)
    PROVE  \A k \in 0 .. Len(f) : Told(ScanAt(f, k), f, k)
<1> DEFINE S == {k \in 0 .. Len(f) : Told(ScanAt(f, k), f, k)}
<1>1. Len(f) \in Nat
  BY LogType
<1>2. 0 \in S
  <2>1. Told(ScanAt(f, 0), f, 0)
    BY ScanIs DEF ScanStart, Told, End
  <2> QED BY <1>1, <2>1
<1>3. \A k \in 0 .. Len(f) - 1 : k \in S => k + 1 \in S
  <2> TAKE k \in 0 .. Len(f) - 1
  <2> HAVE k \in S
  <2>1. Told(ScanAt(f, k + 1), f, k + 1)
    BY StepTold
  <2> QED BY <1>1, <2>1
<1> HIDE DEF S
<1>4. \A k \in 0 .. Len(f) : k \in S
  BY <1>1, <1>2, <1>3, Upwards
<1> QED BY <1>4 DEF S

(* The scan of a readable log reads up to its last line. *)
LEMMA ReadsOn ==
    ASSUME NEW f, Log(f), Readable(f)
    PROVE  /\ \A k \in 0 .. Len(f) : ScanAt(f, k).status # "error"
           /\ \A k \in 0 .. Len(f) : k < Len(f) => ScanAt(f, k).status = "reading"
<1> DEFINE n == Len(f)
           S == {j \in 0 .. n : \A k \in 0 .. j : ScanAt(f, k).status = "error"
                                                     => ScanAt(f, j).status = "error"}
<1>1. n \in Nat
  BY LogType
<1>2. 0 \in S
  BY <1>1
<1>3. \A j \in 0 .. n - 1 : j \in S => j + 1 \in S
  <2> TAKE j \in 0 .. n - 1
  <2> HAVE j \in S
  <2>1. ScanAt(f, j).status = "error" => ScanAt(f, j + 1).status = "error"
    BY ScanIs DEF ScanLine
  <2>2. \A k \in 0 .. j + 1 : k \in 0 .. j \/ k = j + 1
    BY <1>1
  <2>3. j + 1 \in 0 .. n
    BY <1>1
  <2> QED BY <2>1, <2>2, <2>3
<1> HIDE DEF S
<1>4. \A j \in 0 .. n : j \in S
  BY <1>1, <1>2, <1>3, Upwards
<1>5. ScanAt(f, n).status # "error"
  BY ScanIs DEF Readable
<1>6. \A k \in 0 .. n : ScanAt(f, k).status # "error"
  BY <1>1, <1>4, <1>5 DEF S
<1>7. ASSUME NEW k \in 0 .. n, k < n PROVE ScanAt(f, k).status = "reading"
  <2>1. ScanAt(f, k).status # "ended"
    BY <1>1, <1>7, ScanTold DEF Told
  <2>2. ScanAt(f, k) \in Scans
    BY ScanIs
  <2> QED BY <1>6, <2>1, <2>2 DEF Scans
<1> QED BY <1>6, <1>7

-----------------------------------------------------------------------------
(* Spans.                                                                  *)

(* A begin marker that the scan of a readable log gets to follows what is committed,
   and it opens a span. *)
LEMMA BeginOpens ==
    ASSUME NEW f, Log(f), Readable(f), NEW b \in 1 .. Len(f), f[b].kind = "begin"
    PROVE  /\ ScanAt(f, b).status = "reading"
           /\ ScanAt(f, b).span = <<f[b]>> /\ ScanAt(f, b).pending = <<>>
           /\ ScanAt(f, b).committed = 2 * (b - 1)
           /\ ScanAt(f, b - 1).status = "reading" /\ ScanAt(f, b - 1).span = <<>>
<1> DEFINE s == ScanAt(f, b - 1)
<1>1. /\ Len(f) \in Nat /\ b - 1 \in 0 .. Len(f) - 1 /\ (b - 1) + 1 = b
      /\ b - 1 \in 0 .. Len(f) /\ b \in 0 .. Len(f) /\ b - 1 < Len(f)
  BY LogType
<1>2. s \in Scans /\ ScanAt(f, b) = ScanLine(s, f[b], End(f, b))
  BY <1>1, ScanIs
<1>3. s.status = "reading" /\ ScanAt(f, b).status # "error"
  BY <1>1, ReadsOn
<1>4. Told(s, f, b - 1)
  BY <1>1, ScanTold
<1>5. End(f, b - 1) = 2 * (b - 1)
  <2>1. b - 1 > 0 => f[b - 1].ended
    BY <1>1, LogType
  <2> QED BY <1>1, <2>1 DEF End
<1> HIDE DEF s
<1>6. s.span = <<>>
  BY <1>2, <1>3 DEF ScanLine, Scans
<1>7. s.pending = <<>> /\ s.committed = 2 * (b - 1)
  BY <1>3, <1>4, <1>5, <1>6 DEF Told
<1>8. ScanAt(f, b) = [s EXCEPT !.span = <<f[b]>>]
  BY <1>2, <1>3, <1>6 DEF ScanLine
<1> QED BY <1>2, <1>3, <1>6, <1>7, <1>8 DEF Scans, s

\* No line from the one after b to line k is a marker.
NoMarkers(f, b, k) == \A i \in b + 1 .. k : ~IsMarker(f[i])

(* Without markers the span stays open, and nothing is committed. *)
LEMMA StaysOpen ==
    ASSUME NEW f, Log(f), Readable(f), NEW b \in 1 .. Len(f), f[b].kind = "begin",
           NEW k \in b .. Len(f), NoMarkers(f, b, k)
    PROVE  /\ ScanAt(f, k).span = <<f[b]>>
           /\ ScanAt(f, k).committed = 2 * (b - 1)
           /\ ScanAt(f, k).events = ScanAt(f, b - 1).events
<1> DEFINE Open(j) == /\ ScanAt(f, j).span = <<f[b]>>
                      /\ ScanAt(f, j).committed = 2 * (b - 1)
                      /\ ScanAt(f, j).events = ScanAt(f, b - 1).events
           S == {i \in 0 .. k - b : Open(b + i)}
<1>1. Len(f) \in Nat /\ b \in Nat /\ k \in Nat /\ k - b \in Nat /\ b >= 1
  BY LogType
<1>2. 0 \in S
  <2>1. ScanAt(f, b).events = ScanAt(f, b - 1).events
    <3>1. b - 1 \in 0 .. Len(f) - 1 /\ (b - 1) + 1 = b
      BY <1>1
    <3>2. /\ ScanAt(f, b - 1) \in Scans
          /\ ScanAt(f, b) = ScanLine(ScanAt(f, b - 1), f[b], End(f, b))
      BY <1>1, <3>1, ScanIs
    <3> QED BY <3>2, BeginOpens DEF ScanLine, Scans
  <2>2. Open(b) /\ b + 0 = b
    BY <1>1, <2>1, BeginOpens
  <2> QED BY <1>1, <2>2
<1>3. \A i \in 0 .. (k - b) - 1 : i \in S => i + 1 \in S
  <2> TAKE i \in 0 .. (k - b) - 1
  <2> HAVE i \in S
  <2> DEFINE j == b + i
             s == ScanAt(f, j)
             line == f[j + 1]
  <2>0. i \in Nat /\ i + 1 <= k - b /\ k <= Len(f)
    BY <1>1
  <2>1. /\ j \in 0 .. Len(f) - 1 /\ j \in 0 .. Len(f) /\ j < Len(f) /\ j + 1 \in b + 1 .. k
        /\ j + 1 \in 1 .. Len(f) /\ j + 1 \in 0 .. Len(f)
        /\ b + (i + 1) = j + 1 /\ i + 1 \in 0 .. k - b
    <3>1. /\ j \in Nat /\ b <= j /\ j + 1 <= k /\ j + 1 <= Len(f)
          /\ b + (i + 1) = j + 1 /\ i + 1 \in 0 .. k - b
      BY <1>1, <2>0
    <3> HIDE DEF S, s, line, j
    <3> QED BY <1>1, <2>0, <3>1
  <2>2. /\ s \in Scans /\ line \in Lines /\ ~IsMarker(line)
        /\ ScanAt(f, j + 1) = ScanLine(s, line, End(f, j + 1))
    BY <2>1, ScanIs, LogType DEF NoMarkers
  <2>3. s.status = "reading" /\ ScanAt(f, j + 1).status # "error"
    BY <2>1, ReadsOn
  <2>4. Open(j)
    OBVIOUS
  <2> HIDE DEF s, line, j
  <2>5. s.span # <<>>
    BY <2>4 DEF s
  <2>6. /\ ScanAt(f, j + 1).span = s.span /\ ScanAt(f, j + 1).committed = s.committed
        /\ ScanAt(f, j + 1).events = s.events
    BY <2>2, <2>3, <2>5 DEF ScanLine, ScanEvent, Scans, Lines, IsMarker
  <2>7. Open(j + 1)
    BY <2>4, <2>6 DEF s
  <2> QED BY <2>1, <2>7
<1> HIDE DEF S
<1>4. \A i \in 0 .. k - b : i \in S
  BY <1>1, <1>2, <1>3, Upwards
<1>5. k - b \in 0 .. k - b /\ b + (k - b) = k
  BY <1>1
<1>6. Open(k)
  BY <1>4, <1>5 DEF S
<1> QED BY <1>6

(* A log that ends on an intact span is committed to its end. *)
LEMMA IntactIsCommitted ==
    ASSUME NEW f, Log(f), Readable(f), NEW b \in 1 .. Len(f), b < Len(f),
           f[b].kind = "begin", NoMarkers(f, b, Len(f) - 1),
           f[Len(f)].kind = "commit", f[Len(f)].ended
    PROVE  /\ Scan(f).status = "reading" /\ Scan(f).span = <<>>
           /\ Scan(f).committed = Size(f)
<1> DEFINE n == Len(f)
           s == ScanAt(f, n - 1)
           line == f[n]
<1>1. /\ n \in Nat /\ n - 1 \in 0 .. n - 1 /\ (n - 1) + 1 = n /\ n - 1 \in b .. n
      /\ n - 1 \in 0 .. n /\ n - 1 < n /\ n \in 0 .. n /\ n \in 1 .. n
  BY LogType
<1>2. /\ s \in Scans /\ line \in Lines
      /\ Scan(f) = ScanLine(s, line, End(f, n)) /\ Scan(f) = ScanAt(f, n)
  BY <1>1, ScanIs, LogType
<1>3. s.status = "reading" /\ Scan(f).status # "error"
  BY <1>1, <1>2, ReadsOn
<1>4. s.span = <<f[b]>>
  BY <1>1, StaysOpen
<1>5. Size(f) = End(f, n)
  BY SizeIs
<1> HIDE DEF s, line, n
<1>6. line.kind = "commit" /\ line.ended
  BY DEF line, n
<1>7. Scan(f) = ScanCommit(s, line, End(f, n))
  BY <1>2, <1>3, <1>6 DEF ScanLine
<1>8. Closes(s, line)
  BY <1>2, <1>3, <1>7 DEF ScanCommit, Scans
<1> QED BY <1>2, <1>3, <1>5, <1>6, <1>7, <1>8 DEF ScanCommit, Scans

-----------------------------------------------------------------------------
(* Windows.                                                                *)

LEMMA MaxIsLast ==
    ASSUME NEW n \in Nat, NEW S \in SUBSET (1 .. n), S # {}
    PROVE  Max(S) \in S /\ \A x \in S : x <= Max(S)
<1> DEFINE T == {n - i : i \in S}
<1>1. T \in SUBSET Nat /\ T # {}
  <2>1. \A i \in S : n - i \in Nat
    OBVIOUS
  <2>2. PICK i \in S : TRUE
    OBVIOUS
  <2>3. n - i \in T
    OBVIOUS
  <2> QED BY <2>1, <2>3
<1>2. PICK m \in T : \A x \in T : m <= x
  BY <1>1, LeastIs
<1>3. PICK i \in S : m = n - i
  BY <1>2
<1>4. \A j \in S : i >= j
  <2> TAKE j \in S
  <2>1. n - j \in T
    OBVIOUS
  <2> QED BY <1>2, <1>3, <2>1
<1>5. \E x \in S : \A y \in S : x >= y
  BY <1>4
<1>6. Max(S) \in S /\ \A y \in S : Max(S) >= y
  BY <1>5 DEF Max
<1> QED BY <1>6

LEMMA AfterIs ==
    ASSUME NEW f \in Seq(Lines), NEW k \in 0 .. Len(f)
    PROVE  /\ LinesAfter(f, k) \in Seq(Lines) /\ Len(LinesAfter(f, k)) = Len(f) - k
           /\ \A i \in 1 .. Len(f) - k : LinesAfter(f, k)[i] = f[k + i]
<1>1. Len(f) \in Nat /\ k + 1 \in 1 .. Len(f) + 1
  OBVIOUS
<1> QED BY <1>1, SubSeqProperties DEF LinesAfter

LEMMA WindowIs ==
    ASSUME NEW f \in Seq(Lines), NEW w \in 1 .. Len(f)
    PROVE  /\ InWindow(f, w) \in Seq(Lines) /\ Len(InWindow(f, w)) = w
           /\ \A i \in 1 .. w : InWindow(f, w)[i] = f[Len(f) - w + i]
<1>1. Len(f) \in Nat /\ w \in Nat /\ Len(f) - w \in 0 .. Len(f) /\ Len(f) - (Len(f) - w) = w
  OBVIOUS
<1> QED BY <1>1, AfterIs DEF InWindow

Doubling(d, n) == d = [k \in 0 .. n |-> IF k = 0 THEN TailWindow ELSE 2 * d[k - 1]]

LEMMA DoublingGoesOn ==
    ASSUME NEW n \in Nat, NEW d, Doubling(d, n)
    PROVE  \E e : Doubling(e, n + 1)
<1> DEFINE e == [k \in 0 .. n + 1 |-> IF k <= n THEN d[k] ELSE 2 * d[n]]
<1>1. \A k \in 0 .. n : d[k] = IF k = 0 THEN TailWindow ELSE 2 * d[k - 1]
  BY DEF Doubling
<1>2. \A k \in 0 .. n : e[k] = d[k]
  OBVIOUS
<1>3. e[n + 1] = 2 * d[n]
  OBVIOUS
<1>4. e = [k \in 0 .. n + 1 |-> e[k]]
  OBVIOUS
<1> HIDE DEF e
<1>5. ASSUME NEW k \in 0 .. n + 1 PROVE e[k] = IF k = 0 THEN TailWindow ELSE 2 * e[k - 1]
  <2>1. CASE k = 0
    BY <1>1, <1>2, <2>1
  <2>2. CASE k # 0 /\ k <= n
    <3>1. k \in 0 .. n /\ k - 1 \in 0 .. n
      BY <2>2
    <3>2. d[k] = 2 * d[k - 1]
      BY <1>1, <2>2, <3>1
    <3> QED BY <1>2, <2>2, <3>1, <3>2
  <2>3. CASE k = n + 1
    <3>1. k # 0 /\ k - 1 = n /\ n \in 0 .. n
      BY <2>3
    <3> QED BY <1>2, <1>3, <2>3, <3>1
  <2> QED BY <2>1, <2>2, <2>3
<1> QED BY <1>4, <1>5 DEF Doubling

LEMMA DoublingIs ==
    ASSUME NEW n \in Nat
    PROVE  \E d : Doubling(d, n)
<1> DEFINE S == {k \in 0 .. n : \E d : Doubling(d, k)}
<1>1. 0 \in S
  <2>1. \A k \in 0 .. 0 : k = 0
    OBVIOUS
  <2>2. Doubling([k \in 0 .. 0 |-> TailWindow], 0)
    BY <2>1 DEF Doubling
  <2> QED BY <2>2
<1>2. \A k \in 0 .. n - 1 : k \in S => k + 1 \in S
  BY DoublingGoesOn
<1> HIDE DEF S
<1>3. \A k \in 0 .. n : k \in S
  BY <1>1, <1>2, Upwards
<1> QED BY <1>3 DEF S

(* A doubled window grows beyond every number of lines. *)
LEMMA DoublingGrows ==
    ASSUME NEW n \in Nat, NEW d, Doubling(d, n)
    PROVE  \A k \in 0 .. n : d[k] \in Nat /\ d[k] > k
<1> DEFINE S == {k \in 0 .. n : d[k] \in Nat /\ d[k] > k}
<1>1. \A k \in 0 .. n : d[k] = IF k = 0 THEN TailWindow ELSE 2 * d[k - 1]
  BY DEF Doubling
<1>2. 0 \in S
  BY <1>1, FormatAssumption
<1>3. \A k \in 0 .. n - 1 : k \in S => k + 1 \in S
  <2> TAKE k \in 0 .. n - 1
  <2> HAVE k \in S
  <2>1. k + 1 \in 0 .. n /\ k + 1 # 0 /\ (k + 1) - 1 = k
    OBVIOUS
  <2>2. d[k + 1] = 2 * d[k]
    BY <1>1, <2>1
  <2> QED BY <2>1, <2>2
<1> HIDE DEF S
<1>4. \A k \in 0 .. n : k \in S
  BY <1>2, <1>3, Upwards
<1> QED BY <1>4 DEF S

(* The last window holds the file. *)
LEMMA WindowsHold ==
    ASSUME NEW f, Log(f), f # <<>>
    PROVE  Windows(f) \subseteq 1 .. Len(f) /\ Len(f) \in Windows(f)
<1> DEFINE n == Len(f)
           d == CHOOSE e : Doubling(e, n)
<1>1. n \in Nat /\ n > 0
  BY LogType
<1>2. Windows(f) = {IF d[k] < n THEN d[k] ELSE n : k \in 0 .. n}
  BY DEF Windows, Doubling
<1>3. Doubling(d, n)
  BY <1>1, DoublingIs
<1> HIDE DEF d, n
<1>4. \A k \in 0 .. n : d[k] \in Nat /\ d[k] > k
  BY <1>1, <1>3, DoublingGrows
<1>5. \A k \in 0 .. n : (IF d[k] < n THEN d[k] ELSE n) \in 1 .. n
  BY <1>1, <1>4
<1>6. n \in 0 .. n /\ ~(d[n] < n)
  BY <1>1, <1>4
<1>7. n \in Windows(f)
  BY <1>2, <1>6
<1>8. Windows(f) \subseteq 1 .. n
  BY <1>2, <1>5
<1> QED BY <1>7, <1>8 DEF n

(* A search that decides in the largest window decides in the smallest it can. *)
LEMMA LeastWindow ==
    ASSUME NEW f, Log(f), f # <<>>, NEW S \in SUBSET Windows(f), Len(f) \in S
    PROVE  Min(S) \in S /\ Min(S) \in 1 .. Len(f)
<1>1. S \in SUBSET Nat /\ S # {}
  BY WindowsHold
<1>2. Min(S) \in S
  BY <1>1, MinIsLeast
<1> QED BY <1>2, WindowsHold

-----------------------------------------------------------------------------
(* The searches.                                                           *)

(* What a search for an intact span at the end has found. *)
LEMMA IntactIs ==
    ASSUME NEW f, Log(f), EndsOnIntactSpan(f)
    PROVE  /\ f # <<>> /\ f[Len(f)].kind = "commit" /\ f[Len(f)].ended
           /\ \E b \in 1 .. Len(f) : /\ b < Len(f) /\ f[b].kind = "begin"
                                     /\ NoMarkers(f, b, Len(f) - 1)
<1> DEFINE S == {x \in Windows(f) : ClosingSpan(f, x) # {}}
           w == Min(S)
           lines == InWindow(f, w)
           commit == Last(lines)
           begin == w - commit.n - 1
<1>1. f # <<>> /\ ClosingSpan(f, w) = {TRUE}
  BY DEF EndsOnIntactSpan, Decided
<1>2. Len(f) \in S
  <2>1. Len(f) \in Windows(f)
    BY <1>1, WindowsHold
  <2>2. ClosingSpan(f, Len(f)) # {}
    BY DEF ClosingSpan
  <2> QED BY <2>1, <2>2
<1>3. w \in 1 .. Len(f)
  BY <1>1, <1>2, LeastWindow
<1> HIDE DEF w
<1>4. Len(f) \in Nat /\ f \in Seq(Lines)
  BY LogType
<1>5. /\ lines \in Seq(Lines) /\ Len(lines) = w
      /\ \A i \in 1 .. w : lines[i] = f[Len(f) - w + i]
  BY <1>3, <1>4, WindowIs
<1>6. commit = f[Len(f)] /\ commit \in Lines
  <2>1. w \in 1 .. w /\ Len(f) - w + w = Len(f) /\ Len(f) \in 1 .. Len(f)
    BY <1>3, <1>4
  <2>2. commit = lines[w]
    BY <1>5 DEF Last
  <2> QED BY <1>5, <2>1, <2>2, LogType
<1> DEFINE P == /\ \A i \in begin + 1 .. w - 1 : ~IsMarker(lines[i])
                /\ lines[begin] = Ended(Text("begin", commit.batch, commit.n))
<1>7. commit.ended /\ commit.kind = "commit" /\ ~(begin < 1) /\ P
  <2>1. commit.ended /\ commit.kind = "commit"
    BY <1>1 DEF ClosingSpan
  <2>2. ~(begin < 1)
    BY <1>1, <2>1 DEF ClosingSpan
  <2>3. {P} = {TRUE}
    BY <1>1, <2>1, <2>2 DEF ClosingSpan
  <2> HIDE DEF P
  <2>4. P = TRUE
    BY <2>3
  <2> QED BY <2>1, <2>2, <2>4
<1> HIDE DEF lines, commit
<1> DEFINE b == Len(f) - w + begin
<1>a. commit.n \in Nat
  BY <1>6 DEF Lines
<1>8. begin \in 1 .. w /\ begin < w /\ b \in 1 .. Len(f) /\ b < Len(f)
  BY <1>3, <1>4, <1>7, <1>a
<1> HIDE DEF begin
<1>9. f[b].kind = "begin"
  BY <1>5, <1>7, <1>8 DEF Ended, Text
<1>10. NoMarkers(f, b, Len(f) - 1)
  <2> SUFFICES ASSUME NEW i \in b + 1 .. Len(f) - 1 PROVE ~IsMarker(f[i])
    BY DEF NoMarkers
  <2>1. /\ i - (Len(f) - w) \in begin + 1 .. w - 1 /\ i - (Len(f) - w) \in 1 .. w
        /\ Len(f) - w + (i - (Len(f) - w)) = i
    BY <1>3, <1>4, <1>8 DEF b
  <2> QED BY <1>5, <1>7, <2>1
<1> HIDE DEF b
<1> QED BY <1>1, <1>6, <1>7, <1>8, <1>9, <1>10

Counts(line) == line.kind # "blank" /\ (line.kind = "torn" => line.ended)

(* An open span of a readable log has no more events than its marker says. *)
LEMMA CountedFits ==
    ASSUME NEW f, Log(f), Readable(f), NEW b \in 1 .. Len(f), f[b].kind = "begin",
           NoMarkers(f, b, Len(f))
    PROVE  Counted(LinesAfter(f, b)) <= f[b].n
<1> DEFINE m == Len(f) - b
           C(j) == {i \in 1 .. j : Counts(f[b + i])}
           Fits(j) == /\ IsFiniteSet(C(j))
                      /\ Cardinality(C(j)) = Len(ScanAt(f, b + j).pending)
                      /\ Cardinality(C(j)) <= f[b].n
           S == {j \in 0 .. m : Fits(j)}
<1>1. Len(f) \in Nat /\ b \in Nat /\ b >= 1 /\ m \in Nat /\ f \in Seq(Lines)
      /\ f[b] \in Lines /\ f[b].n \in Nat
  BY LogType DEF Lines
<1>2. 0 \in S
  <2>1. C(0) = {}
    OBVIOUS
  <2>2. Cardinality({}) = 0 /\ IsFiniteSet({})
    BY FS_EmptySet
  <2>3. ScanAt(f, b).pending = <<>> /\ b + 0 = b
    BY <1>1, BeginOpens
  <2>4. Fits(0)
    BY <1>1, <2>1, <2>2, <2>3
  <2> QED BY <1>1, <2>4
<1>3. \A j \in 0 .. m - 1 : j \in S => j + 1 \in S
  <2> TAKE j \in 0 .. m - 1
  <2> HAVE j \in S
  <2> DEFINE k == b + j
             s == ScanAt(f, k)
             line == f[k + 1]
             t == ScanAt(f, k + 1)
  <2>1. /\ k \in 0 .. Len(f) - 1 /\ k \in 0 .. Len(f) /\ k < Len(f) /\ k \in b .. Len(f)
        /\ k + 1 \in b + 1 .. Len(f) /\ k + 1 \in 1 .. Len(f) /\ k + 1 \in 0 .. Len(f)
        /\ b + (j + 1) = k + 1 /\ j + 1 \in 0 .. m
    BY <1>1
  <2>2. s \in Scans /\ line \in Lines /\ ~IsMarker(line) /\ t = ScanLine(s, line, End(f, k + 1))
    BY <2>1, ScanIs, LogType DEF NoMarkers
  <2>3. s.status = "reading" /\ t.status # "error"
    BY <2>1, ReadsOn
  <2>4. s.span = <<f[b]>>
    <3>1. NoMarkers(f, b, k)
      <4> SUFFICES ASSUME NEW i \in b + 1 .. k PROVE ~IsMarker(f[i])
        BY DEF NoMarkers
      <4>1. i \in b + 1 .. Len(f)
        BY <1>1, <2>1
      <4> QED BY <4>1 DEF NoMarkers
    <3> QED BY <2>1, <3>1, StaysOpen
  <2>5. Fits(j)
    OBVIOUS
  <2>6. C(j + 1) = IF Counts(line) THEN C(j) \cup {j + 1} ELSE C(j)
    <3>1. \A i \in 1 .. j + 1 : i \in 1 .. j \/ i = j + 1
      BY <1>1
    <3>2. \A i \in 1 .. j : i \in 1 .. j + 1
      BY <1>1
    <3>3. j + 1 \in 1 .. j + 1
      BY <1>1
    <3> QED BY <2>1, <3>1, <3>2, <3>3
  <2>7. j + 1 \notin C(j)
    BY <1>1
  <2> HIDE DEF C, k, s, line, t
  <2>8. s.span # <<>> /\ s.span[1] = f[b]
    BY <2>4
  <2>9. CASE Counts(line)
    <3>1. line.kind = "event"
      BY <2>2, <2>3, <2>9 DEF Counts, ScanLine, Lines, IsMarker, Scans
    <3>2. t = ScanEvent(s, line, End(f, k + 1))
      BY <2>2, <2>3, <3>1 DEF ScanLine
    <3>3. Len(s.pending) < f[b].n
      BY <2>2, <2>3, <2>8, <3>2 DEF ScanEvent, Scans
    <3>4. t.pending = Append(s.pending, Event(line.batch, line.n))
      BY <2>2, <2>8, <3>2, <3>3 DEF ScanEvent, Scans
    <3>5. Len(t.pending) = Len(s.pending) + 1
      <4>1. s.pending \in Seq(Lines)
        BY <2>2 DEF Scans
      <4>2. Event(line.batch, line.n) \in Lines
        BY <2>2 DEF Event, Text, Lines
      <4> QED BY <3>4, <4>1, <4>2
    <3>6. IsFiniteSet(C(j) \cup {j + 1}) /\ Cardinality(C(j) \cup {j + 1}) = Cardinality(C(j)) + 1
      BY <2>5, <2>7, FS_AddElement
    <3>7. Cardinality(C(j)) \in Nat
      BY <2>5, FS_CardinalityType
    <3>a. C(j + 1) = C(j) \cup {j + 1}
      BY <2>6, <2>9
    <3>b. Cardinality(C(j)) = Len(s.pending) /\ t = ScanAt(f, b + (j + 1))
      BY <2>1, <2>5 DEF s, t, k
    <3>c. Cardinality(C(j)) + 1 <= f[b].n
      <4>1. f[b].n \in Nat /\ Cardinality(C(j)) < f[b].n
        BY <1>1, <3>3, <3>b
      <4> QED BY <3>7, <4>1
    <3>8. Fits(j + 1)
      BY <3>5, <3>6, <3>a, <3>b, <3>c
    <3> QED BY <2>1, <3>8
  <2>10. CASE ~Counts(line)
    <3>1. t.pending = s.pending
      BY <2>2, <2>3, <2>10 DEF Counts, ScanLine, Lines, Scans
    <3>2. Fits(j + 1)
      BY <2>1, <2>5, <2>6, <2>10, <3>1 DEF s, t, k
    <3> QED BY <2>1, <3>2
  <2> QED BY <2>9, <2>10
<1> HIDE DEF S
<1>4. \A j \in 0 .. m : j \in S
  BY <1>1, <1>2, <1>3, Upwards
<1>5. Fits(m)
  <2>1. m \in 0 .. m
    BY <1>1
  <2> HIDE DEF m, C
  <2> QED BY <1>4, <2>1 DEF S
<1>6. Counted(LinesAfter(f, b)) = Cardinality(C(m))
  <2> DEFINE g == LinesAfter(f, b)
  <2>1. b \in 0 .. Len(f)
    BY <1>1
  <2>2. g \in Seq(Lines) /\ Len(g) = m /\ \A i \in 1 .. m : g[i] = f[b + i]
    BY <1>1, <2>1, AfterIs
  <2>3. DOMAIN g = 1 .. m
    BY <2>2
  <2>4. {i \in DOMAIN g : g[i].kind # "blank" /\ (g[i].kind = "torn" => g[i].ended)} = C(m)
    BY <2>2, <2>3 DEF Counts
  <2> QED BY <2>4 DEF Counted
<1> QED BY <1>5, <1>6

Even(r) == \E m \in Nat : r = 2 * m

(* What a search of a window for an open span has found in a readable log. *)
LEMMA OpenSpanTells ==
    ASSUME NEW f, Log(f), Readable(f), NEW w \in 1 .. Len(f), NEW r \in OpenSpan(f, w)
    PROVE  r = NoSpan \/ (r = Scan(f).committed /\ Even(r))
<1> DEFINE lines == InWindow(f, w)
           markers == {i \in DOMAIN lines : IsMarker(lines[i])}
           begins == {i \in markers : lines[i].kind = "begin"}
           last == Max(begins)
           b == Len(f) - w + last
<1>1. Len(f) \in Nat /\ f \in Seq(Lines) /\ w \in Nat
  BY LogType
<1>2. /\ lines \in Seq(Lines) /\ Len(lines) = w /\ DOMAIN lines = 1 .. w
      /\ \A i \in 1 .. w : lines[i] = f[Len(f) - w + i]
  BY <1>1, WindowIs
<1>3. CASE begins = {}
  BY <1>3 DEF OpenSpan
<1>4. CASE begins # {} /\ r # NoSpan
  <2>1. /\ Max(markers) = last
        /\ r = IF Counted(LinesAfter(lines, last)) > lines[last].n THEN Malformed
               ELSE 2 * (Len(f) - w + last - 1)
    BY <1>4 DEF OpenSpan
  <2>2. begins \in SUBSET (1 .. w) /\ markers \in SUBSET (1 .. w)
    BY <1>2
  <2>3. last \in begins
    BY <1>1, <1>4, <2>2, MaxIsLast
  <2>4. \A i \in markers : i <= last
    BY <1>1, <2>1, <2>2, <2>3, MaxIsLast
  <2>5. last \in 1 .. w /\ b \in 1 .. Len(f) /\ f[b] = lines[last] /\ lines[last].kind = "begin"
    BY <1>1, <1>2, <2>2, <2>3
  <2>6. NoMarkers(f, b, Len(f))
    <3> SUFFICES ASSUME NEW i \in b + 1 .. Len(f) PROVE ~IsMarker(f[i])
      BY DEF NoMarkers
    <3>1. /\ i - (Len(f) - w) \in 1 .. w /\ i - (Len(f) - w) > last
          /\ Len(f) - w + (i - (Len(f) - w)) = i
      BY <1>1, <2>5
    <3>2. i - (Len(f) - w) \notin markers
      <4> HIDE DEF markers, last
      <4> QED BY <1>1, <2>4, <2>5, <3>1
    <3> QED BY <1>2, <3>1, <3>2
  <2>7. LinesAfter(lines, last) = LinesAfter(f, b)
    <3> HIDE DEF last, lines
    <3>1. last \in 0 .. Len(lines) /\ b \in 0 .. Len(f) /\ Len(lines) - last = Len(f) - b
          /\ \A i \in 1 .. Len(f) - b : last + i \in 1 .. w /\ Len(f) - w + (last + i) = b + i
      BY <1>1, <1>2, <2>5
    <3> HIDE DEF b
    <3>2. /\ LinesAfter(lines, last) \in Seq(Lines) /\ LinesAfter(f, b) \in Seq(Lines)
          /\ Len(LinesAfter(lines, last)) = Len(f) - b /\ Len(LinesAfter(f, b)) = Len(f) - b
          /\ \A i \in 1 .. Len(f) - b : LinesAfter(lines, last)[i] = lines[last + i]
          /\ \A i \in 1 .. Len(f) - b : LinesAfter(f, b)[i] = f[b + i]
      <4>1. /\ LinesAfter(lines, last) \in Seq(Lines)
            /\ Len(LinesAfter(lines, last)) = Len(lines) - last
            /\ \A i \in 1 .. Len(lines) - last : LinesAfter(lines, last)[i] = lines[last + i]
        BY <1>2, <3>1, AfterIs
      <4>2. /\ LinesAfter(f, b) \in Seq(Lines) /\ Len(LinesAfter(f, b)) = Len(f) - b
            /\ \A i \in 1 .. Len(f) - b : LinesAfter(f, b)[i] = f[b + i]
        BY <1>1, <3>1, AfterIs
      <4> QED BY <3>1, <4>1, <4>2
    <3>3. \A i \in 1 .. Len(f) - b : LinesAfter(lines, last)[i] = LinesAfter(f, b)[i]
      BY <1>2, <3>1, <3>2
    <3> QED BY <3>2, <3>3, SeqEqual
  <2>8. Counted(LinesAfter(f, b)) <= f[b].n
    BY <2>5, <2>6, CountedFits
  <2>9. Scan(f).committed = 2 * (b - 1)
    <3>1. Len(f) \in b .. Len(f)
      BY <1>1, <2>5
    <3> HIDE DEF b
    <3>2. f[b].kind = "begin"
      BY <2>5
    <3>3. ScanAt(f, Len(f)).committed = 2 * (b - 1)
      BY <2>5, <2>6, <3>1, <3>2, StaysOpen
    <3> QED BY <3>3, ScanIs
  <2>10. ~(Counted(LinesAfter(lines, last)) > lines[last].n)
    <3>1. lines[last].n \in Nat
      <4> HIDE DEF lines, last
      <4>1. lines[last] \in Lines
        BY <1>2, <2>5
      <4> QED BY <4>1 DEF Lines
    <3>2. Counted(LinesAfter(f, b)) \in Nat
      <4> DEFINE g == LinesAfter(f, b)
      <4>1. b \in 0 .. Len(f)
        BY <1>1, <2>5
      <4>2. g \in Seq(Lines)
        BY <1>1, <4>1, AfterIs
      <4>3. DOMAIN g = 1 .. Len(g) /\ Len(g) \in Nat
        BY <4>2
      <4> HIDE DEF g
      <4>4. IsFiniteSet(DOMAIN g)
        BY <4>3, FS_Interval
      <4>5. IsFiniteSet({i \in DOMAIN g :
                  g[i].kind # "blank" /\ (g[i].kind = "torn" => g[i].ended)})
        BY <4>4, FS_Subset
      <4> QED BY <4>5, FS_CardinalityType DEF Counted, g
    <3> HIDE DEF lines, last, b
    <3> QED BY <2>5, <2>7, <2>8, <3>1, <3>2
  <2>11. r = 2 * (Len(f) - w + last - 1)
    BY <2>1, <2>10
  <2>12. Len(f) - w + last - 1 = b - 1
    BY <1>1, <2>5
  <2>13. b - 1 \in Nat
    BY <2>5
  <2> HIDE DEF b, last
  <2> QED BY <2>9, <2>11, <2>12, <2>13 DEF Even
<1> QED BY <1>3, <1>4

LEMMA DanglingTells ==
    ASSUME NEW f, Log(f), Readable(f)
    PROVE  \/ DanglingSpanStart(f) = NoSpan
           \/ DanglingSpanStart(f) = Scan(f).committed /\ Even(DanglingSpanStart(f))
<1>1. CASE f = <<>>
  BY <1>1 DEF DanglingSpanStart
<1>2. CASE f # <<>>
  <2> DEFINE S == {x \in Windows(f) : OpenSpan(f, x) # {}}
             w == Min(S)
  <2>1. Len(f) \in S
    <3>1. Len(f) \in Windows(f)
      BY <1>2, WindowsHold
    <3>2. OpenSpan(f, Len(f)) # {}
      BY DEF OpenSpan
    <3> QED BY <3>1, <3>2
  <2>2. w \in S /\ w \in 1 .. Len(f)
    BY <1>2, <2>1, LeastWindow
  <2>3. DanglingSpanStart(f) = CHOOSE start \in OpenSpan(f, w) : TRUE
    BY <1>2 DEF DanglingSpanStart, Decided
  <2> HIDE DEF w
  <2>4. OpenSpan(f, w) # {}
    BY <2>2
  <2>5. DanglingSpanStart(f) \in OpenSpan(f, w)
    BY <2>3, <2>4
  <2> QED BY <2>2, <2>5, OpenSpanTells
<1> QED BY <1>1, <1>2

(* The repair trusts a search only with what the scan agrees with. *)
LEMMA TrustedTells ==
    ASSUME NEW f, Log(f), Readable(f)
    PROVE  \/ TrustedDanglingStart(f) = NoSpan
           \/ TrustedDanglingStart(f) = Scan(f).committed /\ Even(TrustedDanglingStart(f))
BY DanglingTells DEF TrustedDanglingStart

LEMMA EmptyScan == Log(<<>>) /\ Scan(<<>>) = ScanStart /\ Size(<<>>) = 0
<1>1. Log(<<>>) /\ Len(<<>>) = 0
  BY DEF Log
<1> QED BY <1>1, ScanIs DEF Size

LEMMA IntactEnds ==
    ASSUME NEW f, Log(f), Readable(f), f = <<>> \/ EndsOnIntactSpan(f)
    PROVE  /\ Scan(f).status = "reading" /\ Scan(f).span = <<>>
           /\ Scan(f).committed = Size(f) /\ (f = <<>> \/ LastEnded(f))
<1>1. CASE f = <<>>
  BY <1>1, EmptyScan DEF ScanStart
<1>2. CASE EndsOnIntactSpan(f)
  <2>1. f # <<>> /\ f[Len(f)].ended
    BY <1>2, IntactIs
  <2> QED BY <1>2, <2>1, IntactIs, IntactIsCommitted DEF LastEnded, Last
<1> QED BY <1>1, <1>2

LEMMA ShortcutIs ==
    ASSUME NEW f, Log(f), Readable(f)
    PROVE  CommittedLen(f) = Scan(f).committed
<1>1. CASE f = <<>> \/ EndsOnIntactSpan(f)
  BY <1>1, IntactEnds DEF CommittedLen
<1>2. CASE ~(f = <<>> \/ EndsOnIntactSpan(f))
  BY <1>2, TrustedTells DEF CommittedLen, Readable
<1> QED BY <1>1, <1>2

-----------------------------------------------------------------------------
(* Parts of a log.                                                         *)

\* Nothing is open at the end of the scan.
Clean(scan) == scan.status = "reading" /\ scan.span = <<>>

LEMMA SamePrefix ==
    ASSUME NEW f, Log(f), NEW g, Log(g), NEW k \in Nat, k <= Len(f), k <= Len(g),
           \A i \in 1 .. k : f[i] = g[i]
    PROVE  \A j \in 0 .. k : ScanAt(f, j) = ScanAt(g, j)
<1> DEFINE S == {j \in 0 .. k : ScanAt(f, j) = ScanAt(g, j)}
<1>1. 0 \in S
  BY ScanIs
<1>2. \A j \in 0 .. k - 1 : j \in S => j + 1 \in S
  <2> TAKE j \in 0 .. k - 1
  <2> HAVE j \in S
  <2>1. /\ j \in 0 .. Len(f) - 1 /\ j \in 0 .. Len(g) - 1 /\ j + 1 \in 1 .. k
        /\ j + 1 \in 0 .. k /\ j + 1 # 0
    BY LogType
  <2>2. End(f, j + 1) = End(g, j + 1) /\ f[j + 1] = g[j + 1]
    BY <2>1 DEF End
  <2>3. /\ ScanAt(f, j + 1) = ScanLine(ScanAt(f, j), f[j + 1], End(f, j + 1))
        /\ ScanAt(g, j + 1) = ScanLine(ScanAt(g, j), g[j + 1], End(g, j + 1))
    BY <2>1, ScanIs
  <2> QED BY <2>1, <2>2, <2>3
<1> HIDE DEF S
<1>3. \A j \in 0 .. k : j \in S
  BY <1>1, <1>2, Upwards
<1> QED BY <1>3 DEF S

\* The first k lines have all that the first j have committed.
Mark(f, j, k) ==
    /\ k \in 0 .. j /\ Clean(ScanAt(f, k))
    /\ ScanAt(f, k).committed = ScanAt(f, j).committed
    /\ ScanAt(f, k).events = ScanAt(f, j).events

LEMMA MarkIs ==
    ASSUME NEW f, Log(f)
    PROVE  \E k \in 0 .. Len(f) : Mark(f, Len(f), k)
<1> DEFINE n == Len(f)
           S == {j \in 0 .. n : \E k \in 0 .. n : Mark(f, j, k)}
<1>1. n \in Nat
  BY LogType
<1>2. 0 \in S
  <2>1. Mark(f, 0, 0)
    BY ScanIs DEF Mark, Clean, ScanStart
  <2> QED BY <1>1, <2>1
<1>3. \A j \in 0 .. n - 1 : j \in S => j + 1 \in S
  <2> TAKE j \in 0 .. n - 1
  <2> HAVE j \in S
  <2> DEFINE s == ScanAt(f, j)
             line == f[j + 1]
             t == ScanAt(f, j + 1)
  <2>1. PICK k \in 0 .. n : Mark(f, j, k)
    OBVIOUS
  <2>2. j \in Nat /\ j + 1 \in 0 .. n /\ j + 1 \in 1 .. n /\ j \in 0 .. n
    BY <1>1
  <2>3. s \in Scans /\ line \in Lines /\ t = ScanLine(s, line, End(f, j + 1))
    BY <2>2, ScanIs, LogType
  <2> HIDE DEF s, line, t
  <2>4. CASE Clean(t)
    <3>1. Mark(f, j + 1, j + 1)
      BY <2>2, <2>4 DEF Mark, t
    <3> QED BY <2>2, <3>1
  <2>5. CASE ~Clean(t)
    <3>1. t.committed = s.committed /\ t.events = s.events
      <4>1. CASE s.status # "reading"
        BY <2>3, <4>1 DEF ScanLine
      <4>2. CASE s.status = "reading" /\ line.kind \in {"torn", "blank", "begin"}
        BY <2>3, <2>5, <4>2 DEF ScanLine, Scans, Lines, Clean
      <4>3. CASE s.status = "reading" /\ line.kind = "commit"
        BY <2>3, <2>5, <4>3 DEF ScanLine, ScanCommit, Scans, Lines, Clean
      <4>4. CASE s.status = "reading" /\ line.kind = "event"
        BY <2>3, <2>5, <4>4 DEF ScanLine, ScanEvent, Scans, Lines, Clean
      <4> QED BY <2>3, <4>1, <4>2, <4>3, <4>4 DEF Lines
    <3>2. Mark(f, j + 1, k)
      BY <2>1, <2>2, <3>1 DEF Mark, s, t
    <3> QED BY <2>2, <3>2
  <2> QED BY <2>4, <2>5
<1> HIDE DEF S
<1>4. \A j \in 0 .. n : j \in S
  BY <1>1, <1>2, <1>3, Upwards
<1> QED BY <1>1, <1>4 DEF S

(* What stands before the end of a line. *)
LEMMA UpToIs ==
    ASSUME NEW f, Log(f), NEW k \in 0 .. Len(f)
    PROVE  /\ Log(UpTo(f, End(f, k))) /\ Len(UpTo(f, End(f, k))) = k
           /\ \A i \in 1 .. k : UpTo(f, End(f, k))[i] = f[i]
           /\ Size(UpTo(f, End(f, k))) = End(f, k)
<1> DEFINE c == End(f, k)
           g == UpTo(f, c)
<1>1. /\ Len(f) \in Nat /\ k \in Nat /\ (k # 0 => k \in 1 .. Len(f))
      /\ \A i \in 1 .. k : i \in 1 .. Len(f) /\ f[i] \in Lines /\ (i < k => f[i].ended)
  BY LogType
<1>2. c \in Nat /\ (c + 1) \div 2 = k
  <2>1. (2 * k + 1) \div 2 = k /\ (2 * k) \div 2 = k /\ 2 * k - 1 + 1 = 2 * k
    BY <1>1
  <2>2. CASE k = 0
    BY <2>2 DEF End
  <2>3. CASE k # 0
    BY <1>1, <2>1, <2>3 DEF End
  <2> QED BY <2>2, <2>3
<1>3. ASSUME NEW i \in 1 .. k PROVE (2 * i <= c) = f[i].ended
  <2>1. CASE i < k
    BY <1>1, <2>1 DEF End, Lines
  <2>2. CASE i = k
    BY <1>1, <2>2 DEF End, Lines
  <2> QED BY <1>1, <2>1, <2>2
<1>4. g = [i \in 1 .. k |-> [f[i] EXCEPT !.ended = 2 * i <= c]]
  BY <1>2 DEF UpTo
<1>5. ASSUME NEW i \in 1 .. k PROVE [f[i] EXCEPT !.ended = 2 * i <= c] = f[i]
  BY <1>1, <1>3 DEF Lines
<1> HIDE DEF c
<1>6. g = [i \in 1 .. k |-> f[i]]
  BY <1>4, <1>5
<1> HIDE DEF g
<1>7. g \in Seq(Lines) /\ Len(g) = k /\ \A i \in 1 .. k : g[i] = f[i]
  BY <1>1, <1>6
<1>8. Log(g)
  BY <1>1, <1>7 DEF Log
<1>9. Size(g) = End(g, k)
  BY <1>7, <1>8, SizeIs
<1>10. End(g, k) = c
  BY <1>1, <1>7 DEF End, c
<1> QED BY <1>7, <1>8, <1>9, <1>10 DEF g, c

(* The committed part of a log says what the log says, and leaves nothing open. *)
LEMMA CommittedIs ==
    ASSUME NEW f, Log(f), NEW g, g = UpTo(f, Scan(f).committed)
    PROVE  /\ Log(g) /\ Clean(Scan(g)) /\ Events(g) = Events(f)
           /\ Size(g) = Scan(f).committed /\ Scan(g).committed = Scan(f).committed
           /\ Even(Scan(f).committed) => g = <<>> \/ LastEnded(g)
<1>1. PICK k \in 0 .. Len(f) : Mark(f, Len(f), k)
  BY MarkIs
<1>2. /\ Clean(ScanAt(f, k)) /\ ScanAt(f, k).committed = Scan(f).committed
      /\ ScanAt(f, k).events = Events(f)
  BY <1>1, ScanIs DEF Mark, Events
<1>3. Scan(f).committed = End(f, k)
  BY <1>2, ScanTold DEF Told, Clean
<1>4. /\ Log(g) /\ Len(g) = k /\ Size(g) = End(f, k)
      /\ \A i \in 1 .. k : g[i] = f[i]
  BY <1>3, UpToIs
<1>5. k \in Nat /\ k <= Len(f)
  BY LogType
<1>6. ScanAt(g, k) = ScanAt(f, k)
  <2>1. \A j \in 0 .. k : ScanAt(f, j) = ScanAt(g, j)
    BY <1>4, <1>5, SamePrefix
  <2> QED BY <1>5, <2>1
<1>7. Scan(g) = ScanAt(f, k)
  BY <1>4, <1>6, ScanIs
<1>8. Even(Scan(f).committed) => g = <<>> \/ LastEnded(g)
  <2> SUFFICES ASSUME NEW m \in Nat, End(f, k) = 2 * m, g # <<>>
               PROVE  LastEnded(g)
    BY <1>3 DEF Even
  <2>1. k # 0 /\ k \in 1 .. k
    BY <1>4, <1>5, LogType
  <2>2. f[k].ended
    BY <1>5, <2>1 DEF End
  <2> QED BY <1>4, <2>1, <2>2 DEF LastEnded, Last
<1> QED BY <1>2, <1>3, <1>4, <1>7, <1>8 DEF Events

-----------------------------------------------------------------------------
(* The invariant.                                                          *)

BatchesIn(log) == {log[i].batch : i \in DOMAIN log}

Whole(b, n) == [i \in 1 .. n |-> Event(b, i)]

SpanLine(b, n, j) ==
    IF j = 1 THEN Text("begin", b, n) ELSE IF j = n + 2 THEN Text("commit", b, n)
    ELSE Event(b, j - 1)

\* What is left of a span after m lines.
Left(todo, b, n, m) ==
    /\ todo \in Seq(Lines) /\ Len(todo) = n + 2 - m
    /\ \A j \in 1 .. Len(todo) : todo[j] = SpanLine(b, n, m + j)

\* m lines of a span are at the end of h, and nothing before them is open.
Written(h, b, n, m, base) ==
    /\ Log(h) /\ (h = <<>> \/ LastEnded(h))
    /\ Scan(h).status = "reading" /\ Events(h) = base
    /\ m = 0 => Scan(h).span = <<>>
    /\ m > 0 => /\ Scan(h).span = <<Ended(Text("begin", b, n))>>
                /\ Scan(h).pending = Whole(b, m - 1)

\* Nobody touches a log that cannot be read.
AllRead == Readable(file) /\ \A g \in disk : Readable(g)
Untouched == cursor = NoCursor /\ writer = Idle /\ disk = {file}

FilesInv ==
    /\ Log(file) /\ told = Events(file)
    /\ \A g \in disk : Log(g)
    /\ AllRead \/ Untouched

\* A cursor is at the end of a part of some log in which nothing is open.
CursorInv ==
    /\ applied \in Seq(Lines)
    /\ cursor # NoCursor => /\ Log(cursor.seen) /\ cursor.off = Size(cursor.seen)
                            /\ Clean(Scan(cursor.seen)) /\ applied = Events(cursor.seen)

Writing == writer.pc \in {"repair", "terminate", "write", "end_line"}
Done == writer.n + 2 - Len(writer.todo)

Writers ==
    [pc : {"idle", "repair", "terminate", "write", "end_line", "sync", "apply"},
     n : Nat, todo : Seq(Lines)]

\* Before its last newline the batch is nowhere, and after it, it is in the log.
WriterInv ==
    /\ writer \in Writers
    /\ At("idle") => writer = Idle
    /\ Writing =>
          /\ writer.n \in 1 .. MaxSize /\ applied = told
          /\ Done \in 0 .. writer.n + 1 /\ Left(writer.todo, lastBatch, writer.n, Done)
    /\ writer.pc \in {"repair", "terminate"} => Done = 0
    /\ At("terminate") => Clean(Scan(file))
    /\ At("write") => Written(file, lastBatch, writer.n, Done, told)
    /\ At("end_line") =>
          \E h \in Seq(Lines) : /\ Written(h, lastBatch, writer.n, Done, told)
                                /\ file = Append(h, Head(writer.todo))
    /\ writer.pc \in {"sync", "apply"} =>
          /\ Clean(Scan(file)) /\ writer.n \in 1 .. MaxSize
          /\ told = applied \o Whole(lastBatch, writer.n)
    /\ At("apply") => disk = {file}

\* Batches are numbered as they are begun.
BatchInv ==
    /\ lastBatch \in Batches
    /\ BatchesIn(told) \subseteq 1 .. lastBatch
    /\ Writing => BatchesIn(told) \subseteq 1 .. lastBatch - 1
    /\ acked \subseteq BatchesIn(told)

\* A power loss takes back whole batches from the end, none of them acknowledged.
Before(g, log, safe) ==
    \E lost \in Seq(Lines) : /\ log = Events(g) \o lost
                             /\ BatchesIn(lost) \cap (safe \cup BatchesIn(Events(g))) = {}

DiskInv == \A g \in disk : Before(g, told, acked)

FramingInv == FilesInv /\ CursorInv /\ WriterInv /\ BatchInv /\ DiskInv

-----------------------------------------------------------------------------
(* One more line.                                                          *)

LEMMA AppendLine ==
    ASSUME NEW h, Log(h), h = <<>> \/ LastEnded(h), NEW line \in Lines
    PROVE  /\ Log(Append(h, line))
           /\ Scan(Append(h, line)) = ScanLine(Scan(h), line, End(Append(h, line), Len(h) + 1))
           /\ Append(h, line) # <<>>
           /\ LastEnded(Append(h, line)) <=> line.ended
<1> DEFINE f == Append(h, line)
           n == Len(h)
<1>1. /\ h \in Seq(Lines) /\ n \in Nat
      /\ \A i \in 1 .. n : h[i] \in Lines
  BY LogType
<1>2. /\ f \in Seq(Lines) /\ Len(f) = n + 1 /\ f[n + 1] = line
      /\ \A i \in 1 .. n : f[i] = h[i]
  BY <1>1
<1>3. \A i \in 1 .. n : h[i].ended
  <2> TAKE i \in 1 .. n
  <2>1. h # <<>> /\ n \in 1 .. n
    BY <1>1
  <2>2. h[n].ended
    BY <2>1 DEF LastEnded, Last
  <2>3. i < n => h[i].ended
    BY LogType
  <2> QED BY <1>1, <2>2, <2>3
<1>4. Log(f)
  BY <1>1, <1>2, <1>3 DEF Log
<1>5. ScanAt(h, n) = ScanAt(f, n)
  <2>1. n <= Len(h) /\ n <= Len(f) /\ n \in 0 .. n
    BY <1>1, <1>2
  <2> QED BY <1>1, <1>2, <1>4, <2>1, SamePrefix
<1>6. n \in 0 .. Len(f) - 1
  BY <1>1, <1>2
<1>7. ScanAt(f, n + 1) = ScanLine(ScanAt(f, n), f[n + 1], End(f, n + 1))
  BY <1>4, <1>6, ScanIs
<1>8. Scan(f) = ScanAt(f, n + 1) /\ Scan(h) = ScanAt(h, n)
  BY <1>2, <1>4, ScanIs
<1>9. f # <<>> /\ Last(f) = line
  BY <1>1, <1>2 DEF Last
<1>10. line.ended \in BOOLEAN
  BY DEF Lines
<1> HIDE DEF f
<1> QED BY <1>2, <1>4, <1>5, <1>7, <1>8, <1>9, <1>10 DEF LastEnded, f

LEMMA WriteIs ==
    ASSUME NEW h, h = <<>> \/ LastEnded(h), NEW text
    PROVE  Write(h, text) = Append(h, text)
BY DEF Write

LEMMA EndLineIs ==
    ASSUME NEW h \in Seq(Lines), NEW line \in Lines
    PROVE  EndLine(Append(h, line)) = Append(h, Ended(line))
<1> DEFINE f == Append(h, line)
           e == EndLine(f)
           g == Append(h, Ended(line))
<1>1. /\ Len(h) \in Nat /\ Len(f) = Len(h) + 1 /\ f \in Seq(Lines)
      /\ f[Len(h) + 1] = line /\ \A i \in 1 .. Len(h) : f[i] = h[i]
  OBVIOUS
<1>2. Ended(line) \in Lines
  BY DEF Ended, Lines
<1>3. /\ g \in Seq(Lines) /\ Len(g) = Len(h) + 1
      /\ g[Len(h) + 1] = Ended(line) /\ \A i \in 1 .. Len(h) : g[i] = h[i]
  BY <1>2
<1> HIDE DEF f, g
<1>4. e = [f EXCEPT ![Len(h) + 1] = Ended(line)]
  BY <1>1 DEF EndLine
<1>5. f = [i \in 1 .. Len(h) + 1 |-> f[i]] /\ g = [i \in 1 .. Len(h) + 1 |-> g[i]]
  BY <1>1, <1>3
<1>6. \A i \in 1 .. Len(h) + 1 : i \in 1 .. Len(h) \/ i = Len(h) + 1
  BY <1>1
<1> QED BY <1>1, <1>3, <1>4, <1>5, <1>6 DEF f, g

LEMMA SpanLineIs ==
    ASSUME NEW b \in Nat, NEW n \in Nat, NEW j \in 1 .. n + 2
    PROVE  SpanLine(b, n, j) \in Lines /\ Ended(SpanLine(b, n, j)) \in Lines
<1>1. j - 1 \in Nat
  OBVIOUS
<1>2. \A k \in {"begin", "commit", "event"}, i \in Nat : Text(k, b, i) \in Lines
  BY DEF Text, Lines
<1>3. SpanLine(b, n, j) \in Lines
  BY <1>1, <1>2 DEF SpanLine, Event
<1>4. \A line \in Lines : Ended(line) \in Lines
  BY DEF Ended, Lines
<1> QED BY <1>3, <1>4

LEMMA SpanIs ==
    ASSUME NEW b \in Nat, NEW n \in Nat
    PROVE  Left(Span(b, n), b, n, 0)
<1> DEFINE begin == <<Text("begin", b, n)>>
           body == [i \in 1 .. n |-> Event(b, i)]
           commit == <<Text("commit", b, n)>>
<1>1. /\ Text("begin", b, n) \in Lines /\ Text("commit", b, n) \in Lines
      /\ \A i \in 1 .. n : Event(b, i) \in Lines
  BY DEF Text, Event, Lines
<1>2. begin \in Seq(Lines) /\ commit \in Seq(Lines) /\ Len(begin) = 1 /\ Len(commit) = 1
  BY <1>1
<1>3. body \in Seq(Lines) /\ Len(body) = n
  BY <1>1
<1>4. begin[1] = Text("begin", b, n) /\ commit[1] = Text("commit", b, n)
  OBVIOUS
<1>5. \A i \in 1 .. n : body[i] = Event(b, i)
  OBVIOUS
<1> HIDE DEF begin, body, commit
<1>6. /\ begin \o body \in Seq(Lines) /\ Len(begin \o body) = n + 1
      /\ \A j \in 1 .. n + 1 : (begin \o body)[j] = SpanLine(b, n, j)
  <2>1. /\ begin \o body \in Seq(Lines) /\ Len(begin \o body) = 1 + n
        /\ \A j \in 1 .. 1 + n : (begin \o body)[j] = IF j <= 1 THEN begin[j] ELSE body[j - 1]
    <3>1. /\ begin \o body \in Seq(Lines) /\ Len(begin \o body) = Len(begin) + Len(body)
          /\ \A j \in 1 .. Len(begin) + Len(body) :
                (begin \o body)[j] = IF j <= Len(begin) THEN begin[j] ELSE body[j - Len(begin)]
      BY <1>2, <1>3, ConcatProperties
    <3> QED BY <1>2, <1>3, <3>1
  <2>2. ASSUME NEW j \in 1 .. n + 1 PROVE (begin \o body)[j] = SpanLine(b, n, j)
    <3>1. CASE j = 1
      BY <2>1, <3>1, <1>4 DEF SpanLine
    <3>2. CASE j # 1
      <4>1. j - 1 \in 1 .. n /\ j # n + 2 /\ ~(j <= 1)
        BY <3>2
      <4> QED BY <2>1, <4>1, <1>5, <3>2 DEF SpanLine
    <3> QED BY <3>1, <3>2
  <2> QED BY <2>1, <2>2
<1>7. Span(b, n) = (begin \o body) \o commit
  BY DEF Span, begin, body, commit
<1>8. /\ Span(b, n) \in Seq(Lines) /\ Len(Span(b, n)) = n + 2
      /\ \A j \in 1 .. n + 2 : Span(b, n)[j] =
             IF j <= n + 1 THEN (begin \o body)[j] ELSE commit[j - (n + 1)]
  <2> DEFINE head == begin \o body
  <2>1. head \in Seq(Lines) /\ Len(head) = n + 1
    BY <1>6
  <2> HIDE DEF head
  <2>2. /\ head \o commit \in Seq(Lines) /\ Len(head \o commit) = n + 2
        /\ \A j \in 1 .. n + 2 : (head \o commit)[j] =
              IF j <= n + 1 THEN head[j] ELSE commit[j - (n + 1)]
    BY <1>2, <2>1, ConcatProperties
  <2> QED BY <1>7, <2>2 DEF head
<1>9. ASSUME NEW j \in 1 .. n + 2 PROVE Span(b, n)[j] = SpanLine(b, n, 0 + j)
  <2>1. CASE j <= n + 1
    <3>1. j \in 1 .. n + 1 /\ 0 + j = j
      BY <2>1
    <3> QED BY <1>6, <1>8, <2>1, <3>1
  <2>2. CASE ~(j <= n + 1)
    <3>1. j = n + 2 /\ j - (n + 1) = 1 /\ j # 1
      BY <2>2
    <3> QED BY <1>4, <1>8, <2>2, <3>1 DEF SpanLine
  <2> QED BY <2>1, <2>2
<1> QED BY <1>8, <1>9 DEF Left


LEMMA WholeIs ==
    ASSUME NEW b \in Nat, NEW m \in Nat
    PROVE  /\ Whole(b, m) \in Seq(Lines) /\ Len(Whole(b, m)) = m
           /\ \A i \in 1 .. m : Whole(b, m)[i] = Event(b, i)
<1>1. \A i \in 1 .. m : Event(b, i) \in Lines
  BY DEF Event, Text, Lines
<1> QED BY <1>1 DEF Whole

LEMMA WholeGrows ==
    ASSUME NEW b \in Nat, NEW m \in Nat, m > 0
    PROVE  Append(Whole(b, m - 1), Event(b, m)) = Whole(b, m)
<1> DEFINE x == Whole(b, m - 1)
           y == Whole(b, m)
           z == Append(x, Event(b, m))
<1>1. m - 1 \in Nat /\ Event(b, m) \in Lines
  BY DEF Event, Text, Lines
<1>2. /\ x \in Seq(Lines) /\ Len(x) = m - 1 /\ \A i \in 1 .. m - 1 : x[i] = Event(b, i)
      /\ y \in Seq(Lines) /\ Len(y) = m /\ \A i \in 1 .. m : y[i] = Event(b, i)
  BY <1>1, WholeIs
<1> HIDE DEF x, y
<1>3. /\ z \in Seq(Lines) /\ Len(z) = m /\ z[m] = Event(b, m)
      /\ \A i \in 1 .. m - 1 : z[i] = x[i]
  BY <1>1, <1>2, AppendProperties
<1> HIDE DEF z
<1>4. z = [i \in 1 .. m |-> z[i]] /\ y = [i \in 1 .. m |-> y[i]]
  BY <1>2, <1>3
<1>5. \A i \in 1 .. m : i \in 1 .. m - 1 \/ i = m
  OBVIOUS
<1>6. \A i \in 1 .. m : z[i] = y[i]
  BY <1>2, <1>3, <1>5
<1>7. z = y
  BY <1>4, <1>6
<1> QED BY <1>7 DEF x, y, z

\* Fields of a span's lines, ended or not.
LEMMA FieldsAre ==
    ASSUME NEW k, NEW b, NEW n
    PROVE  /\ Text(k, b, n).kind = k /\ Text(k, b, n).batch = b /\ Text(k, b, n).n = n
           /\ ~Text(k, b, n).ended
           /\ Ended(Text(k, b, n)).kind = k /\ Ended(Text(k, b, n)).batch = b
           /\ Ended(Text(k, b, n)).n = n /\ Ended(Text(k, b, n)).ended
BY DEF Text, Ended

(* A line of the span that lacks its newline changes nothing for readers. *)
LEMMA UnendedLine ==
    ASSUME NEW b \in Nat, NEW n \in Nat, NEW m \in 0 .. n + 1, NEW base, NEW h,
           Written(h, b, n, m, base), NEW line, line = SpanLine(b, n, m + 1)
    PROVE  /\ Log(Append(h, line)) /\ Readable(Append(h, line))
           /\ Events(Append(h, line)) = base
<1> DEFINE f == Append(h, line)
           s == Scan(h)
           end == End(f, Len(h) + 1)
<1>1. /\ Log(h) /\ (h = <<>> \/ LastEnded(h)) /\ s.status = "reading" /\ s.events = base
      /\ m = 0 => s.span = <<>>
      /\ m > 0 => /\ s.span = <<Ended(Text("begin", b, n))>>
                  /\ s.pending = Whole(b, m - 1)
  BY DEF Written, Events
<1>2. m \in Nat /\ m + 1 \in 1 .. n + 2 /\ line \in Lines
  BY SpanLineIs
<1>3. Log(f) /\ Scan(f) = ScanLine(s, line, end)
  BY <1>1, <1>2, AppendLine
<1>4. s \in Scans
  <2>1. Len(h) \in 0 .. Len(h)
    BY <1>1, LogType
  <2> QED BY <1>1, <2>1, ScanIs
<1> HIDE DEF s, end, f
<1>5. CASE m = 0
  <2>1. line = Text("begin", b, n)
    BY <1>5 DEF SpanLine
  <2>2. line.kind = "begin"
    BY <2>1, FieldsAre
  <2>3. Scan(f) = [s EXCEPT !.span = <<line>>]
    BY <1>1, <1>3, <1>5, <2>2 DEF ScanLine
  <2>4. Scan(f).status = "reading" /\ Scan(f).events = base
    BY <1>1, <1>4, <2>3 DEF Scans
  <2> QED BY <1>3, <2>4 DEF Readable, Events, f
<1>6. CASE m \in 1 .. n
  <2>1. line = Event(b, m) /\ m > 0 /\ m \in Nat /\ m - 1 \in Nat
    BY <1>6 DEF SpanLine
  <2>2. line.kind = "event"
    BY <2>1, FieldsAre DEF Event
  <2>3. s.span # <<>> /\ s.span[1].n = n
    <3>1. s.span = <<Ended(Text("begin", b, n))>>
      BY <1>1, <2>1
    <3>2. s.span # <<>> /\ s.span[1] = Ended(Text("begin", b, n))
      BY <3>1
    <3> QED BY <3>2, FieldsAre
  <2>4. Len(s.pending) < n
    <3>1. s.pending = Whole(b, m - 1)
      BY <1>1, <2>1
    <3>2. Len(Whole(b, m - 1)) = m - 1
      BY <2>1, WholeIs
    <3> QED BY <1>6, <3>1, <3>2
  <2>5. Scan(f) = [s EXCEPT !.pending = Append(@, Event(line.batch, line.n))]
    BY <1>1, <1>3, <2>2, <2>3, <2>4 DEF ScanLine, ScanEvent
  <2>6. Scan(f).status = "reading" /\ Scan(f).events = base
    BY <1>1, <1>4, <2>5 DEF Scans
  <2> QED BY <1>3, <2>6 DEF Readable, Events, f
<1>7. CASE m = n + 1
  <2>1. line = Text("commit", b, n) /\ m > 0 /\ m - 1 = n
    BY <1>7 DEF SpanLine
  <2>2. line.kind = "commit" /\ line.batch = b /\ line.n = n /\ ~line.ended
    BY <2>1, FieldsAre
  <2>3. s.span # <<>> /\ s.span[1].n = n /\ s.span[1].batch = b
    <3>1. s.span = <<Ended(Text("begin", b, n))>>
      BY <1>1, <2>1
    <3>2. s.span # <<>> /\ s.span[1] = Ended(Text("begin", b, n))
      BY <3>1
    <3> QED BY <3>2, FieldsAre
  <2>4. Len(s.pending) = n
    BY <1>1, <2>1, WholeIs
  <2>5. Closes(s, line)
    BY <2>2, <2>3, <2>4 DEF Closes
  <2>6. Scan(f) = [s EXCEPT !.status = "ended"]
    BY <1>1, <1>3, <2>2, <2>5 DEF ScanLine, ScanCommit
  <2>7. Scan(f).status = "ended" /\ Scan(f).events = base
    BY <1>1, <1>4, <2>6 DEF Scans
  <2> QED BY <1>3, <2>7 DEF Readable, Events, f
<1> QED BY <1>5, <1>6, <1>7 DEF f

(* A line of the span is written; with the last, readers get the batch. *)
LEMMA EndedLine ==
    ASSUME NEW b \in Nat, NEW n \in Nat, NEW m \in 0 .. n + 1, NEW base, NEW h,
           Written(h, b, n, m, base), NEW line, line = Ended(SpanLine(b, n, m + 1))
    PROVE  /\ m <= n => Written(Append(h, line), b, n, m + 1, base)
           /\ m = n + 1 => /\ Log(Append(h, line)) /\ Clean(Scan(Append(h, line)))
                           /\ Events(Append(h, line)) = base \o Whole(b, n)
<1> DEFINE g == Append(h, line)
           s == Scan(h)
           end == End(g, Len(h) + 1)
<1>1. /\ Log(h) /\ (h = <<>> \/ LastEnded(h)) /\ s.status = "reading" /\ s.events = base
      /\ m = 0 => s.span = <<>>
      /\ m > 0 => /\ s.span = <<Ended(Text("begin", b, n))>>
                  /\ s.pending = Whole(b, m - 1)
  BY DEF Written, Events
<1>2. m \in Nat /\ m + 1 \in 1 .. n + 2 /\ line \in Lines
  BY SpanLineIs
<1>3. line.ended
  BY <1>2, SpanLineIs DEF Ended, Lines
<1>4. Log(g) /\ LastEnded(g) /\ Scan(g) = ScanLine(s, line, end)
  BY <1>1, <1>2, <1>3, AppendLine
<1>5. s \in Scans
  <2>1. Len(h) \in 0 .. Len(h)
    BY <1>1, LogType
  <2> QED BY <1>1, <2>1, ScanIs
<1> HIDE DEF s, end, g
<1>6. CASE m = 0
  <2>1. line = Ended(Text("begin", b, n))
    BY <1>6 DEF SpanLine
  <2>2. line.kind = "begin"
    BY <2>1, FieldsAre
  <2>3. s.pending = <<>>
    <3>1. Len(h) \in 0 .. Len(h)
      BY <1>1, LogType
    <3>2. Told(s, h, Len(h))
      BY <1>1, <3>1, ScanTold, ScanIs DEF s
    <3> QED BY <1>1, <1>6, <3>2 DEF Told
  <2>4. Scan(g) = [s EXCEPT !.span = <<line>>]
    BY <1>1, <1>4, <1>6, <2>2 DEF ScanLine
  <2>5. /\ Scan(g).status = "reading" /\ Scan(g).events = base
        /\ Scan(g).span = <<line>> /\ Scan(g).pending = <<>>
    BY <1>1, <1>5, <2>3, <2>4 DEF Scans
  <2>6. Whole(b, 0) = <<>>
    BY DEF Whole
  <2> QED BY <1>4, <1>6, <2>1, <2>5, <2>6 DEF Written, Events, g
<1>7. CASE m \in 1 .. n
  <2>1. /\ line = Ended(Event(b, m)) /\ m > 0 /\ m \in Nat /\ m - 1 \in Nat
        /\ m + 1 > 0 /\ (m + 1) - 1 = m /\ m + 1 # 0 /\ m # n + 1
    BY <1>7 DEF SpanLine
  <2>2. line.kind = "event" /\ line.batch = b /\ line.n = m
    BY <2>1, FieldsAre DEF Event
  <2>3. s.span # <<>> /\ s.span[1].n = n
    <3>1. s.span = <<Ended(Text("begin", b, n))>>
      BY <1>1, <2>1
    <3>2. s.span # <<>> /\ s.span[1] = Ended(Text("begin", b, n))
      BY <3>1
    <3> QED BY <3>2, FieldsAre
  <2>4. Len(s.pending) < n
    <3>1. s.pending = Whole(b, m - 1)
      BY <1>1, <2>1
    <3>2. Len(Whole(b, m - 1)) = m - 1
      BY <2>1, WholeIs
    <3> QED BY <1>7, <3>1, <3>2
  <2>5. Scan(g) = [s EXCEPT !.pending = Append(@, Event(b, m))]
    BY <1>1, <1>4, <2>2, <2>3, <2>4 DEF ScanLine, ScanEvent
  <2>6. /\ Scan(g).status = "reading" /\ Scan(g).events = base /\ Scan(g).span = s.span
        /\ Scan(g).pending = Append(Whole(b, m - 1), Event(b, m))
    BY <1>1, <1>5, <2>1, <2>5 DEF Scans
  <2>7. Scan(g).pending = Whole(b, (m + 1) - 1)
    BY <2>1, <2>6, WholeGrows
  <2>8. Written(g, b, n, m + 1, base)
    BY <1>1, <1>4, <2>1, <2>6, <2>7 DEF Written, Events
  <2> QED BY <2>1, <2>8 DEF g
<1>8. CASE m = n + 1
  <2>1. line = Ended(Text("commit", b, n)) /\ m > 0 /\ m - 1 = n /\ ~(m <= n)
    BY <1>8 DEF SpanLine
  <2>2. line.kind = "commit" /\ line.batch = b /\ line.n = n
    BY <2>1, FieldsAre
  <2>3. s.span # <<>> /\ s.span[1].n = n /\ s.span[1].batch = b
    <3>1. s.span = <<Ended(Text("begin", b, n))>>
      BY <1>1, <2>1
    <3>2. s.span # <<>> /\ s.span[1] = Ended(Text("begin", b, n))
      BY <3>1
    <3> QED BY <3>2, FieldsAre
  <2>4. s.pending = Whole(b, n) /\ Len(s.pending) = n
    BY <1>1, <2>1, WholeIs
  <2>5. Closes(s, line)
    BY <2>2, <2>3, <2>4 DEF Closes
  <2>6. Scan(g) = [s EXCEPT !.events = @ \o s.pending, !.committed = end,
                            !.span = <<>>, !.pending = <<>>]
    BY <1>1, <1>3, <1>4, <2>2, <2>5 DEF ScanLine, ScanCommit
  <2>7. Scan(g).status = "reading" /\ Scan(g).events = base \o Whole(b, n) /\ Scan(g).span = <<>>
    BY <1>1, <1>5, <2>4, <2>6 DEF Scans
  <2> QED BY <1>4, <2>1, <2>7 DEF Clean, Events, g
<1> QED BY <1>6, <1>7, <1>8 DEF g

(* Half a line, too. *)
LEMMA TornLine ==
    ASSUME NEW h, Log(h), h = <<>> \/ LastEnded(h), Scan(h).status = "reading",
           NEW f, f = Append(h, Torn)
    PROVE  Log(f) /\ Readable(f) /\ Events(f) = Events(h)
<1>1. Torn \in Lines /\ Torn.kind = "torn" /\ ~Torn.ended
  BY DEF Torn, Text, Lines
<1>2. Log(f) /\ Scan(f) = ScanLine(Scan(h), Torn, End(f, Len(h) + 1))
  BY <1>1, AppendLine
<1>3. Scan(h) \in Scans
  <2>1. Len(h) \in 0 .. Len(h)
    BY LogType
  <2> QED BY <2>1, ScanIs
<1>4. Scan(f) = [Scan(h) EXCEPT !.status = "ended"]
  BY <1>1, <1>2 DEF ScanLine
<1>5. Scan(f).status = "ended" /\ Scan(f).events = Scan(h).events
  BY <1>3, <1>4 DEF Scans
<1> QED BY <1>2, <1>5 DEF Readable, Events

(* Nothing open, and the newline of the last line is missing: it may be added. *)
LEMMA CleanEnd ==
    ASSUME NEW f, Log(f), Clean(Scan(f)), f # <<>>, ~LastEnded(f), NEW e, e = EndLine(f)
    PROVE  Log(e) /\ LastEnded(e) /\ Clean(Scan(e)) /\ Events(e) = Events(f)
<1> DEFINE n == Len(f)
           line == f[n]
           s == ScanAt(f, n - 1)
<1>1. /\ n \in Nat /\ n > 0 /\ n \in 1 .. n /\ n - 1 \in 0 .. n - 1 /\ n - 1 \in 0 .. n
      /\ (n - 1) + 1 = n /\ n - 1 \in Nat /\ n - 1 <= n
  BY LogType
<1>2. /\ f \in Seq(Lines) /\ line \in Lines /\ Ended(line) \in Lines /\ Ended(line).ended
      /\ Ended(line).kind = line.kind /\ Ended(line).batch = line.batch
      /\ Ended(line).n = line.n
      /\ ~line.ended
  <2>1. f \in Seq(Lines) /\ line \in Lines
    BY <1>1, LogType
  <2>2. Last(f) = line
    BY DEF Last
  <2> QED BY <2>1, <2>2 DEF Ended, Lines, LastEnded
<1>3. /\ e \in Seq(Lines) /\ Len(e) = n /\ e[n] = Ended(line) /\ e # <<>>
      /\ \A i \in 1 .. n - 1 : e[i] = f[i]
  BY <1>1, <1>2 DEF EndLine
<1>4. Log(e) /\ LastEnded(e)
  <2>1. \A i \in 1 .. n : i < n => e[i].ended
    <3> SUFFICES ASSUME NEW i \in 1 .. n, i < n PROVE e[i].ended
      OBVIOUS
    <3>1. i \in 1 .. n - 1 /\ f[i].ended
      BY <1>1, LogType
    <3> QED BY <1>3, <3>1
  <2>2. Last(e) = Ended(line)
    BY <1>3 DEF Last
  <2> QED BY <1>2, <1>3, <2>1, <2>2 DEF Log, LastEnded
<1>5. ScanAt(e, n - 1) = s
  <2>1. \A j \in 0 .. n - 1 : ScanAt(e, j) = ScanAt(f, j)
    <3>1. n - 1 <= Len(e) /\ n - 1 <= Len(f)
      BY <1>1, <1>3
    <3> QED BY <1>1, <1>3, <1>4, <3>1, SamePrefix
  <2> QED BY <1>1, <2>1
<1>6. /\ s \in Scans
      /\ Scan(f) = ScanLine(s, line, End(f, n))
      /\ Scan(e) = ScanLine(s, Ended(line), End(e, n))
  <2>1. /\ Scan(f) = ScanAt(f, n) /\ s \in Scans
        /\ ScanAt(f, n) = ScanLine(ScanAt(f, n - 1), f[n], End(f, n))
    BY <1>1, ScanIs
  <2>2. /\ Scan(e) = ScanAt(e, n)
        /\ ScanAt(e, n) = ScanLine(ScanAt(e, n - 1), e[n], End(e, n))
    BY <1>1, <1>3, <1>4, ScanIs
  <2> QED BY <1>3, <1>5, <2>1, <2>2
<1> HIDE DEF s, line, n
<1>7. s.status = "reading"
  BY <1>6 DEF Clean, ScanLine
<1>8. CASE line.kind = "torn"
  <2>1. Scan(f) = [s EXCEPT !.status = "ended"]
    BY <1>2, <1>6, <1>7, <1>8 DEF ScanLine
  <2> QED BY <1>6, <2>1 DEF Clean, Scans
<1>9. CASE line.kind = "blank"
  <2>1. /\ Scan(f) = [s EXCEPT !.committed = IF s.span = <<>> THEN End(f, n) ELSE @]
        /\ Scan(e) = [s EXCEPT !.committed = IF s.span = <<>> THEN End(e, n) ELSE @]
    BY <1>2, <1>6, <1>7, <1>9 DEF ScanLine
  <2>2. /\ Scan(e).status = Scan(f).status /\ Scan(e).span = Scan(f).span
        /\ Scan(e).events = Scan(f).events
    BY <1>6, <2>1 DEF Scans
  <2> QED BY <1>4, <2>2 DEF Clean, Events
<1>10. CASE line.kind = "begin"
  <2>1. Scan(f) = [s EXCEPT !.span = <<line>>] \/ Scan(f) = [s EXCEPT !.status = "error"]
    BY <1>2, <1>6, <1>7, <1>10 DEF ScanLine
  <2>2. Scan(f).span = <<line>> \/ Scan(f).status = "error"
    BY <1>6, <2>1 DEF Scans
  <2>3. <<line>> # <<>>
    OBVIOUS
  <2> QED BY <2>2, <2>3 DEF Clean
<1>11. CASE line.kind = "commit"
  <2>1. Scan(f) = [s EXCEPT !.status = "ended"] \/ Scan(f) = [s EXCEPT !.status = "error"]
    BY <1>2, <1>6, <1>7, <1>11 DEF ScanLine, ScanCommit
  <2> QED BY <1>6, <2>1 DEF Clean, Scans
<1>12. CASE line.kind = "event"
  <2>1. CASE s.span = <<>>
    <3>1. /\ Scan(f) = [s EXCEPT !.events = Append(@, Event(line.batch, line.n)),
                                 !.committed = End(f, n)]
          /\ Scan(e) = [s EXCEPT !.events = Append(@, Event(line.batch, line.n)),
                                 !.committed = End(e, n)]
      BY <1>2, <1>6, <1>7, <1>12, <2>1 DEF ScanLine, ScanEvent
    <3>2. /\ Scan(e).status = Scan(f).status /\ Scan(e).span = Scan(f).span
          /\ Scan(e).events = Scan(f).events
      BY <1>6, <3>1 DEF Scans
    <3> QED BY <1>4, <3>2 DEF Clean, Events
  <2>2. CASE s.span # <<>>
    <3>1. Scan(f).span = s.span \/ Scan(f).status = "error"
      BY <1>2, <1>6, <1>7, <1>12, <2>2 DEF ScanLine, ScanEvent, Scans
    <3> QED BY <2>2, <3>1 DEF Clean
  <2> QED BY <2>1, <2>2
<1>13. line.kind \in {"begin", "commit", "event", "torn", "blank"}
  BY <1>2 DEF Lines
<1> QED BY <1>8, <1>9, <1>10, <1>11, <1>12, <1>13

-----------------------------------------------------------------------------
(* Readers get events, whatever else is in a log.                          *)

Plains == {Event(b, i) : b \in Nat, i \in Nat}

PlainScan(s) == s.events \in Seq(Plains) /\ s.pending \in Seq(Plains)

LEMMA PlainStep ==
    ASSUME NEW s \in Scans, PlainScan(s), NEW line \in Lines, NEW end
    PROVE  PlainScan(ScanLine(s, line, end))
<1>1. Event(line.batch, line.n) \in Plains
  BY DEF Lines, Plains
<1>2. /\ Append(s.events, Event(line.batch, line.n)) \in Seq(Plains)
      /\ Append(s.pending, Event(line.batch, line.n)) \in Seq(Plains)
      /\ s.events \o s.pending \in Seq(Plains)
      /\ <<>> \in Seq(Plains)
  BY <1>1 DEF PlainScan
<1>3. PlainScan(ScanEvent(s, line, end))
  BY <1>2 DEF PlainScan, ScanEvent, Scans
<1>4. PlainScan(ScanCommit(s, line, end))
  BY <1>2 DEF PlainScan, ScanCommit, Scans
<1> QED BY <1>3, <1>4 DEF PlainScan, ScanLine, Scans

LEMMA EventsArePlain ==
    ASSUME NEW f, Log(f)
    PROVE  Events(f) \in Seq(Plains)
<1> DEFINE S == {k \in 0 .. Len(f) : PlainScan(ScanAt(f, k))}
<1>1. Len(f) \in Nat
  BY LogType
<1>2. 0 \in S
  <2>1. PlainScan(ScanStart)
    BY DEF PlainScan, ScanStart
  <2> QED BY <1>1, <2>1, ScanIs
<1>3. \A k \in 0 .. Len(f) - 1 : k \in S => k + 1 \in S
  <2> TAKE k \in 0 .. Len(f) - 1
  <2> HAVE k \in S
  <2>1. k \in 0 .. Len(f) /\ k + 1 \in 1 .. Len(f) /\ k + 1 \in 0 .. Len(f)
    BY <1>1
  <2>2. ScanAt(f, k) \in Scans /\ f[k + 1] \in Lines
        /\ ScanAt(f, k + 1) = ScanLine(ScanAt(f, k), f[k + 1], End(f, k + 1))
    BY <2>1, ScanIs, LogType
  <2>3. PlainScan(ScanAt(f, k + 1))
    BY <2>2, PlainStep
  <2> QED BY <2>1, <2>3
<1> HIDE DEF S
<1>4. \A k \in 0 .. Len(f) : k \in S
  BY <1>1, <1>2, <1>3, Upwards
<1>5. PlainScan(Scan(f))
  BY <1>1, <1>4, ScanIs DEF S
<1> QED BY <1>5 DEF PlainScan, Events

(* A log without markers, as compaction writes it, says what its lines say. *)
LEMMA CompactedIs ==
    ASSUME NEW log \in Seq(Plains), NEW g, g = [i \in DOMAIN log |-> Ended(log[i])]
    PROVE  Log(g) /\ Readable(g) /\ Clean(Scan(g)) /\ Events(g) = log
<1> DEFINE n == Len(log)
           Says(k) == /\ Clean(ScanAt(g, k))
                      /\ ScanAt(g, k).events = [i \in 1 .. k |-> log[i]]
           S == {k \in 0 .. n : Says(k)}
<1>1. n \in Nat /\ DOMAIN log = 1 .. n /\ \A i \in 1 .. n : log[i] \in Plains
  OBVIOUS
<1>2. \A x \in Plains : /\ Ended(x) \in Lines /\ Ended(x).ended /\ Ended(x).kind = "event"
                        /\ Event(Ended(x).batch, Ended(x).n) = x
  <2> SUFFICES ASSUME NEW x \in Plains
               PROVE  /\ Ended(x) \in Lines /\ Ended(x).ended /\ Ended(x).kind = "event"
                      /\ Event(Ended(x).batch, Ended(x).n) = x
    OBVIOUS
  <2>1. PICK b \in Nat, i \in Nat : x = Event(b, i)
    BY DEF Plains
  <2>2. x \in Lines
    BY <2>1 DEF Event, Text, Lines
  <2>3. Ended(x) \in Lines
    BY <2>2 DEF Ended, Lines
  <2>4. /\ Ended(x).kind = "event" /\ Ended(x).batch = b /\ Ended(x).n = i /\ Ended(x).ended
    BY <2>1, FieldsAre DEF Event
  <2> QED BY <2>1, <2>3, <2>4
<1>3. /\ g \in Seq(Lines) /\ Len(g) = n
      /\ \A i \in 1 .. n : g[i] = Ended(log[i])
  BY <1>1, <1>2
<1>4. Log(g)
  BY <1>1, <1>2, <1>3 DEF Log
<1>5. 0 \in S
  <2>1. ScanAt(g, 0) = ScanStart
    BY <1>4, ScanIs
  <2>2. [i \in 1 .. 0 |-> log[i]] = <<>>
    OBVIOUS
  <2>3. Says(0)
    BY <2>1, <2>2 DEF Clean, ScanStart
  <2> QED BY <1>1, <2>3
<1>6. \A k \in 0 .. n - 1 : k \in S => k + 1 \in S
  <2> TAKE k \in 0 .. n - 1
  <2> HAVE k \in S
  <2> DEFINE s == ScanAt(g, k)
             x == log[k + 1]
             t == ScanAt(g, k + 1)
             head == [i \in 1 .. k |-> log[i]]
  <2>1. k \in Nat /\ k + 1 \in 1 .. n /\ k + 1 \in 0 .. n /\ k \in 0 .. n
    BY <1>1
  <2>2. s \in Scans /\ t = ScanLine(s, Ended(x), End(g, k + 1)) /\ x \in Plains
    BY <1>1, <1>3, <1>4, <2>1, ScanIs
  <2>3. s.status = "reading" /\ s.span = <<>> /\ s.events = head
    BY DEF Clean
  <2> HIDE DEF s, t, x
  <2>4. t = [s EXCEPT !.events = Append(@, x), !.committed = End(g, k + 1)]
    BY <1>2, <2>2, <2>3 DEF ScanLine, ScanEvent
  <2>5. t.status = "reading" /\ t.span = <<>> /\ t.events = Append(head, x)
    BY <2>2, <2>3, <2>4 DEF Scans
  <2>6. Append(head, x) = [i \in 1 .. k + 1 |-> log[i]]
    <3> DEFINE y == Append(head, x)
               z == [i \in 1 .. k + 1 |-> log[i]]
    <3>1. \A i \in 1 .. k : i \in 1 .. n
      BY <1>1, <2>1
    <3>2. head \in Seq(Plains) /\ Len(head) = k
      BY <1>1, <2>1, <3>1
    <3>3. y \in Seq(Plains) /\ Len(y) = k + 1 /\ y[k + 1] = x /\ \A i \in 1 .. k : y[i] = head[i]
      <4> HIDE DEF head
      <4> QED BY <2>1, <2>2, <3>2, AppendProperties
    <3>4. \A i \in 1 .. k : head[i] = log[i]
      OBVIOUS
    <3> HIDE DEF y, head
    <3>5. y = [i \in 1 .. k + 1 |-> y[i]]
      BY <2>1, <3>3
    <3>6. \A i \in 1 .. k + 1 : y[i] = log[i]
      <4> TAKE i \in 1 .. k + 1
      <4>1. i \in 1 .. k \/ i = k + 1
        BY <2>1
      <4> QED BY <3>3, <3>4, <4>1 DEF x
    <3> QED BY <3>5, <3>6 DEF y
  <2>7. Says(k + 1)
    BY <2>5, <2>6 DEF Clean, t
  <2> QED BY <2>1, <2>7
<1> HIDE DEF S
<1>7. \A k \in 0 .. n : k \in S
  BY <1>1, <1>5, <1>6, Upwards
<1>8. Says(n)
  BY <1>1, <1>7 DEF S
<1>9. Scan(g) = ScanAt(g, n)
  BY <1>3, <1>4, ScanIs
<1>10. [i \in 1 .. n |-> log[i]] = log
  BY <1>1
<1> QED BY <1>4, <1>8, <1>9, <1>10 DEF Clean, Events, Readable

-----------------------------------------------------------------------------
(* A log split where nothing is open.                                      *)

\* The scan s of the whole log against the scan t of its rest.
Shifted(s, t, base, offset) ==
    /\ s.status = t.status /\ s.span = t.span /\ s.pending = t.pending
    /\ s.events = base \o t.events /\ s.committed = offset + t.committed

LEMMA ConcatAppend ==
    ASSUME NEW u \in Seq(Lines), NEW v \in Seq(Lines), NEW x \in Lines
    PROVE  u \o Append(v, x) = Append(u \o v, x)
OBVIOUS

LEMMA LinesConcat ==
    ASSUME NEW u \in Seq(Lines), NEW v \in Seq(Lines), NEW w \in Seq(Lines)
    PROVE  (u \o v) \o w = u \o (v \o w)
BY SMTT(30)

LEMMA ShiftedStep ==
    ASSUME NEW base \in Seq(Lines), NEW offset \in Nat, NEW s \in Scans, NEW t \in Scans,
           Shifted(s, t, base, offset), NEW line \in Lines, NEW end \in Nat
    PROVE  Shifted(ScanLine(s, line, offset + end), ScanLine(t, line, end), base, offset)
<1> DEFINE x == Event(line.batch, line.n)
<1>1. x \in Lines
  BY DEF Event, Text, Lines
<1>2. base \o Append(t.events, x) = Append(base \o t.events, x)
  <2>1. t.events \in Seq(Lines)
    BY DEF Scans
  <2> HIDE DEF x
  <2> QED BY <1>1, <2>1, ConcatAppend
<1>3. base \o (t.events \o t.pending) = (base \o t.events) \o t.pending
  <2>1. t.events \in Seq(Lines) /\ t.pending \in Seq(Lines)
    BY DEF Scans
  <2> QED BY <2>1, LinesConcat
<1> HIDE DEF x
<1>4. /\ s.status = t.status /\ s.span = t.span /\ s.pending = t.pending
      /\ s.events = base \o t.events /\ s.committed = offset + t.committed
  BY DEF Shifted
<1>5. CASE line.kind = "event"
  <2>1. CASE s.status # "reading"
    BY <1>4, <2>1 DEF ScanLine, Shifted
  <2>2. CASE s.status = "reading"
    <3>1. /\ ScanLine(s, line, offset + end) = ScanEvent(s, line, offset + end)
          /\ ScanLine(t, line, end) = ScanEvent(t, line, end)
      BY <1>4, <1>5, <2>2 DEF ScanLine
    <3>2. Shifted(ScanEvent(s, line, offset + end), ScanEvent(t, line, end), base, offset)
      BY <1>2, <1>4 DEF ScanEvent, Shifted, Scans, x
    <3> QED BY <3>1, <3>2
  <2> QED BY <2>1, <2>2
<1>6. CASE line.kind = "commit"
  <2>1. CASE s.status # "reading"
    BY <1>4, <2>1 DEF ScanLine, Shifted
  <2>2. CASE s.status = "reading"
    <3>1. /\ ScanLine(s, line, offset + end) = ScanCommit(s, line, offset + end)
          /\ ScanLine(t, line, end) = ScanCommit(t, line, end)
      BY <1>4, <1>6, <2>2 DEF ScanLine
    <3>2. Closes(s, line) <=> Closes(t, line)
      BY <1>4 DEF Closes
    <3>3. Shifted(ScanCommit(s, line, offset + end), ScanCommit(t, line, end), base, offset)
      BY <1>3, <1>4, <3>2 DEF ScanCommit, Shifted, Scans
    <3> QED BY <3>1, <3>3
  <2> QED BY <2>1, <2>2
<1>7. CASE line.kind \in {"torn", "blank", "begin"}
  BY <1>4, <1>7 DEF ScanLine, Shifted, Scans
<1>8. line.kind \in {"begin", "commit", "event", "torn", "blank"}
  BY DEF Lines
<1> QED BY <1>5, <1>6, <1>7, <1>8

LEMMA SplitAt ==
    ASSUME NEW f, Log(f), NEW k \in 0 .. Len(f), Clean(ScanAt(f, k)), End(f, k) = 2 * k,
           NEW rest, rest = LinesAfter(f, k)
    PROVE  /\ Log(rest) /\ Scan(f).status = Scan(rest).status
           /\ Events(f) = ScanAt(f, k).events \o Events(rest)
           /\ Scan(f).committed = 2 * k + Scan(rest).committed
<1> DEFINE n == Len(f)
           base == ScanAt(f, k).events
           Agree(j) == Shifted(ScanAt(f, k + j), ScanAt(rest, j), base, 2 * k)
           S == {j \in 0 .. n - k : Agree(j)}
<1>1. n \in Nat /\ k \in Nat /\ n - k \in Nat /\ f \in Seq(Lines) /\ 2 * k \in Nat
  BY LogType
<1>2. /\ rest \in Seq(Lines) /\ Len(rest) = n - k
      /\ \A i \in 1 .. n - k : rest[i] = f[k + i]
  BY <1>1, AfterIs
<1>3. Log(rest)
  <2> SUFFICES ASSUME NEW i \in 1 .. n - k, i < n - k PROVE rest[i].ended
    BY <1>2 DEF Log
  <2>1. k + i \in 1 .. n /\ k + i < n
    BY <1>1
  <2> QED BY <1>2, <2>1, LogType
<1>4. ScanAt(f, k) \in Scans /\ base \in Seq(Lines)
  BY <1>1, ScanIs DEF Scans
<1>5. 0 \in S
  <2>1. ScanAt(rest, 0) = ScanStart /\ k + 0 = k
    BY <1>1, <1>3, ScanIs
  <2>2. Told(ScanAt(f, k), f, k)
    BY <1>1, ScanTold
  <2>3. ScanAt(f, k).committed = 2 * k /\ ScanAt(f, k).pending = <<>>
    BY <2>2 DEF Told, Clean
  <2>4. base \o <<>> = base
    BY <1>4, ConcatEmptySeq
  <2>5. ScanStart.committed = 0 /\ ScanStart.events = <<>> /\ ScanStart.status = "reading"
        /\ ScanStart.span = <<>> /\ ScanStart.pending = <<>>
    BY DEF ScanStart
  <2>6. ScanAt(f, k).status = "reading" /\ ScanAt(f, k).span = <<>>
    BY DEF Clean
  <2>7. Shifted(ScanAt(f, k), ScanStart, base, 2 * k)
    BY <1>1, <2>3, <2>4, <2>5, <2>6 DEF Shifted
  <2>8. Agree(0)
    BY <2>1, <2>7
  <2> QED BY <1>1, <2>8
<1>6. \A j \in 0 .. n - k - 1 : j \in S => j + 1 \in S
  <2> TAKE j \in 0 .. n - k - 1
  <2> HAVE j \in S
  <2> DEFINE line == f[k + (j + 1)]
             end == End(rest, j + 1)
  <2>1. /\ j \in Nat /\ j + 1 \in 1 .. n - k /\ j + 1 \in 0 .. n - k /\ j \in 0 .. n - k
        /\ j \in 0 .. Len(rest) - 1 /\ j \in 0 .. Len(rest)
        /\ k + j \in 0 .. n - 1 /\ k + j \in 0 .. n /\ k + (j + 1) = (k + j) + 1
        /\ k + (j + 1) \in 1 .. n /\ j + 1 # 0 /\ k + (j + 1) # 0
    BY <1>1, <1>2
  <2>2. line \in Lines /\ rest[j + 1] = line /\ end \in Nat
    BY <1>2, <1>3, <2>1, LogType
  <2>3. End(f, k + (j + 1)) = 2 * k + end
    BY <1>1, <2>1, <2>2 DEF End
  <2>4. /\ ScanAt(f, k + j) \in Scans /\ ScanAt(rest, j) \in Scans
        /\ ScanAt(rest, j + 1) = ScanLine(ScanAt(rest, j), line, end)
    BY <1>3, <2>1, <2>2, ScanIs
  <2>5. ScanAt(f, k + (j + 1)) = ScanLine(ScanAt(f, k + j), line, 2 * k + end)
    <3>1. ScanAt(f, (k + j) + 1) = ScanLine(ScanAt(f, k + j), f[(k + j) + 1], End(f, (k + j) + 1))
      BY <2>1, ScanIs
    <3> QED BY <2>1, <2>3, <3>1
  <2>6. Agree(j)
    OBVIOUS
  <2> HIDE DEF line, end, base
  <2>7. Agree(j + 1)
    BY <1>1, <1>4, <2>2, <2>4, <2>5, <2>6, ShiftedStep
  <2> QED BY <2>1, <2>7
<1> HIDE DEF S
<1>7. \A j \in 0 .. n - k : j \in S
  BY <1>1, <1>5, <1>6, Upwards
<1>8. Agree(n - k)
  BY <1>1, <1>7 DEF S
<1>9. k + (n - k) = n /\ Scan(f) = ScanAt(f, n) /\ Scan(rest) = ScanAt(rest, n - k)
  BY <1>1, <1>2, <1>3, ScanIs
<1> QED BY <1>3, <1>8, <1>9 DEF Shifted, Events

(* Nothing is committed after the committed part. *)
LEMMA NothingAfter ==
    ASSUME NEW f, Log(f), NEW off, off = Scan(f).committed
    PROVE  Readable(f) => Readable(Rest(f, off)) /\ Events(Rest(f, off)) = <<>>
                          /\ Scan(Rest(f, off)).committed = 0
<1>1. PICK k \in 0 .. Len(f) : Mark(f, Len(f), k)
  BY MarkIs
<1>2. Clean(ScanAt(f, k)) /\ ScanAt(f, k).committed = off
  BY <1>1, ScanIs DEF Mark
<1>3. /\ off = End(f, k) /\ Len(f) \in Nat /\ k \in Nat /\ f \in Seq(Lines)
      /\ (k # 0 => k \in 1 .. Len(f))
  BY <1>2, ScanTold, LogType DEF Told, Clean
<1>4. (off + 1) \div 2 = k
  <2>1. (2 * k + 1) \div 2 = k /\ (2 * k) \div 2 = k /\ 2 * k - 1 + 1 = 2 * k
    BY <1>3
  <2>2. off = 2 * k \/ off = 2 * k - 1
    BY <1>3 DEF End
  <2> QED BY <2>1, <2>2
<1>5. Rest(f, off) = LinesAfter(f, k)
  BY <1>4 DEF Rest
<1>6. CASE off = 2 * k
  <2> DEFINE rest == LinesAfter(f, k)
  <2>1. /\ Log(rest) /\ Scan(f).status = Scan(rest).status
        /\ Scan(f).committed = 2 * k + Scan(rest).committed
    BY <1>2, <1>3, <1>6, SplitAt
  <2>2. Scan(rest) \in Scans /\ Told(Scan(rest), rest, Len(rest))
    <3>1. Len(rest) \in 0 .. Len(rest)
      BY <2>1, LogType
    <3> QED BY <2>1, <3>1, ScanIs, ScanTold
  <2> HIDE DEF rest
  <2>3. Scan(rest).committed = 0
    <3>1. Scan(rest).committed \in Nat
      BY <2>2 DEF Scans
    <3>2. 2 * k = 2 * k + Scan(rest).committed
      BY <1>6, <2>1
    <3> DEFINE c == Scan(rest).committed
    <3>3. c \in Nat /\ 2 * k = 2 * k + c
      BY <3>1, <3>2
    <3> HIDE DEF c
    <3>4. c = 0
      BY <1>3, <3>3
    <3> QED BY <3>4 DEF c
  <2>4. Scan(rest).events = <<>>
    BY <2>2, <2>3 DEF Told
  <2> QED BY <1>5, <2>1, <2>3, <2>4 DEF Readable, Events, rest
<1>7. CASE off # 2 * k
  <2>1. k # 0 /\ ~f[k].ended
    BY <1>3, <1>7 DEF End
  <2>2. k = Len(f)
    BY <1>3, <2>1, LogType
  <2>3. LinesAfter(f, k) = <<>>
    <3>1. LinesAfter(f, k) \in Seq(Lines) /\ Len(LinesAfter(f, k)) = Len(f) - k
      BY <1>3, AfterIs
    <3>2. Len(LinesAfter(f, k)) = 0
      BY <1>3, <2>2, <3>1
    <3> QED BY <3>1, <3>2
  <2> QED BY <1>5, <2>3, EmptyScan DEF ScanStart, Readable, Events
<1> QED BY <1>6, <1>7

(* What a cursor has seen, and what is after it, are the log. *)
LEMMA SeenAndRest ==
    ASSUME NEW f, Log(f), Readable(f), NEW g, Log(g), Clean(Scan(g)), NEW off, off = Size(g),
           g = UpTo(f, off), off <= Scan(f).committed, off % 2 = 0
    PROVE  /\ Readable(Rest(f, off)) /\ Log(Rest(f, off))
           /\ Events(f) = Events(g) \o Events(Rest(f, off))
           /\ Scan(f).committed = off + Scan(Rest(f, off)).committed
<1>1. off \in Nat /\ Len(f) \in Nat /\ Len(g) \in Nat
  BY SizeIs, LogType
<1>2. PICK m \in Nat : off = 2 * m
  <2>1. off = 2 * (off \div 2) /\ off \div 2 \in Nat
    BY <1>1
  <2> QED BY <2>1
<1>3. (off + 1) \div 2 = m
  BY <1>2
<1>4. m <= Len(f) /\ End(f, m) = off
  <2>1. /\ Scan(f).committed <= End(f, Len(f)) /\ Scan(f).committed \in Nat
    <3>1. Len(f) \in 0 .. Len(f)
      BY <1>1
    <3>2. Told(Scan(f), f, Len(f)) /\ Scan(f) \in Scans
      BY <3>1, ScanTold, ScanIs
    <3> QED BY <3>2 DEF Told, Scans
  <2>2. End(f, Len(f)) = 2 * Len(f) \/ End(f, Len(f)) = 2 * Len(f) - 1
    BY <1>1 DEF End
  <2>3. m <= Len(f)
    BY <1>1, <1>2, <2>1, <2>2
  <2>4. CASE m < Len(f) \/ m = 0
    BY <1>2, <2>3, <2>4, LogType DEF End
  <2>5. CASE m = Len(f) /\ m # 0
    <3>1. 2 * m <= End(f, m)
      BY <1>1, <1>2, <2>1, <2>2, <2>5
    <3>2. End(f, m) = 2 * m
      BY <1>1, <2>2, <2>5, <3>1
    <3> QED BY <1>2, <2>3, <3>2
  <2> QED BY <1>1, <1>2, <2>3, <2>4, <2>5
<1>5. m \in 0 .. Len(f)
  BY <1>1, <1>4
<1>6. Len(g) = m /\ \A i \in 1 .. m : g[i] = f[i]
  BY <1>4, <1>5, UpToIs
<1>7. ScanAt(f, m) = Scan(g)
  <2>1. ScanAt(f, m) = ScanAt(g, m)
    <3>1. m <= Len(g) /\ m \in 0 .. m
      BY <1>1, <1>6
    <3> QED BY <1>4, <1>6, <3>1, SamePrefix
  <2> QED BY <1>6, <2>1, ScanIs
<1>8. Rest(f, off) = LinesAfter(f, m)
  BY <1>3 DEF Rest
<1>9. /\ Log(Rest(f, off)) /\ Scan(f).status = Scan(Rest(f, off)).status
      /\ Events(f) = ScanAt(f, m).events \o Events(Rest(f, off))
      /\ Scan(f).committed = 2 * m + Scan(Rest(f, off)).committed
  BY <1>2, <1>4, <1>5, <1>7, <1>8, SplitAt
<1> QED BY <1>2, <1>7, <1>9 DEF Readable, Events

(* inspect, in a state of the system. *)
LEMMA DecisionIs ==
    ASSUME FilesInv, CursorInv
    PROVE  /\ Decision = "CursorMissing" => cursor = NoCursor
           /\ Decision # "CursorMissing" =>
                 /\ cursor # NoCursor /\ AllRead /\ Log(cursor.seen) /\ Clean(Scan(cursor.seen))
                 /\ cursor.off = Size(cursor.seen) /\ cursor.off \in Nat
                 /\ applied = Events(cursor.seen) /\ Scan(file).committed \in Nat
           /\ Decision \in {"NoOp", "ReplayTail"} =>
                 cursor.off <= Scan(file).committed /\ cursor.seen = UpTo(file, cursor.off)
           /\ Decision = "NoOp" => cursor.off = Scan(file).committed
           /\ Decision = "ReplayTail" => cursor.off < Scan(file).committed
                                         /\ ReadableFrom(file, cursor.off)
           /\ Decision = "Defer" => /\ cursor.off <= Scan(file).committed
                                    /\ cursor.seen = UpTo(file, cursor.off)
                                    /\ ~ReadableFrom(file, cursor.off)
<1>1. CASE cursor = NoCursor
  BY <1>1 DEF Decision
<1>2. CASE cursor # NoCursor
  <2>1. /\ Log(file) /\ AllRead /\ Readable(file)
    BY <1>2 DEF FilesInv, Untouched, AllRead
  <2>2. /\ Log(cursor.seen) /\ cursor.off = Size(cursor.seen) /\ cursor.off \in Nat
        /\ Clean(Scan(cursor.seen)) /\ applied = Events(cursor.seen)
    BY <1>2, SizeIs DEF CursorInv
  <2>3. CommittedLen(file) = Scan(file).committed
    BY <2>1, ShortcutIs
  <2>4. Scan(file).committed \in Nat
    <3>1. Len(file) \in 0 .. Len(file)
      BY <2>1, LogType
    <3>2. Scan(file) \in Scans
      BY <2>1, <3>1, ScanIs
    <3> QED BY <3>2 DEF Scans
  <2>5. CommittedLen(file) # Malformed
    BY <2>3, <2>4 DEF Malformed
  <2> DEFINE c == CommittedLen(file)
  <2>6. Decision =
           IF cursor.gen # gen THEN "GenerationMismatch"
           ELSE IF cursor.off > c THEN "OffsetBeyondLog"
           ELSE IF cursor.seen # UpTo(file, cursor.off) THEN "TailShaMismatch"
           ELSE IF cursor.off = c THEN "NoOp"
           ELSE IF ReadableFrom(file, cursor.off) THEN "ReplayTail"
           ELSE "Defer"
    BY <1>2, <2>5 DEF Decision
  <2>7. c = Scan(file).committed /\ c \in Nat
    BY <2>3, <2>4
  <2> HIDE DEF c
  <2> QED BY <1>2, <2>1, <2>2, <2>4, <2>6, <2>7
<1> QED BY <1>1, <1>2

(* A cursor at the end of the committed part. *)
LEMMA CursorIs ==
    ASSUME Log(file), NEW off, off = Scan(file).committed
    PROVE  /\ CursorAt(file, off).off = off /\ CursorAt(file, off).seen = UpTo(file, off)
           /\ Log(UpTo(file, off)) /\ off = Size(UpTo(file, off))
           /\ Clean(Scan(UpTo(file, off))) /\ Events(UpTo(file, off)) = Events(file)
BY CommittedIs DEF CursorAt

-----------------------------------------------------------------------------
(* Batches of a log.                                                       *)

LEMMA BatchesOf ==
    ASSUME NEW s \in Seq(Lines), NEW t \in Seq(Lines)
    PROVE  BatchesIn(s \o t) = BatchesIn(s) \cup BatchesIn(t)
<1> DEFINE u == s \o t
<1>1. /\ u \in Seq(Lines) /\ Len(u) = Len(s) + Len(t)
      /\ \A i \in 1 .. Len(s) + Len(t) : u[i] = IF i <= Len(s) THEN s[i] ELSE t[i - Len(s)]
  BY ConcatProperties
<1>2. /\ Len(s) \in Nat /\ Len(t) \in Nat /\ DOMAIN s = 1 .. Len(s) /\ DOMAIN t = 1 .. Len(t)
  OBVIOUS
<1>3. DOMAIN u = 1 .. Len(s) + Len(t)
  BY <1>1
<1> HIDE DEF u
<1>4. ASSUME NEW b \in BatchesIn(u) PROVE b \in BatchesIn(s) \cup BatchesIn(t)
  <2>1. PICK i \in 1 .. Len(s) + Len(t) : b = u[i].batch
    BY <1>3 DEF BatchesIn
  <2>2. CASE i <= Len(s)
    <3>1. i \in DOMAIN s /\ b = s[i].batch
      BY <1>1, <1>2, <2>1, <2>2
    <3> QED BY <3>1 DEF BatchesIn
  <2>3. CASE ~(i <= Len(s))
    <3>1. i - Len(s) \in DOMAIN t /\ b = t[i - Len(s)].batch
      BY <1>1, <1>2, <2>1, <2>3
    <3> QED BY <3>1 DEF BatchesIn
  <2> QED BY <2>2, <2>3
<1>5. ASSUME NEW b \in BatchesIn(s) PROVE b \in BatchesIn(u)
  <2>1. PICK i \in 1 .. Len(s) : b = s[i].batch
    BY <1>2 DEF BatchesIn
  <2>2. i \in DOMAIN u /\ b = u[i].batch
    BY <1>1, <1>2, <1>3, <2>1
  <2> QED BY <2>2 DEF BatchesIn
<1>6. ASSUME NEW b \in BatchesIn(t) PROVE b \in BatchesIn(u)
  <2>1. PICK i \in 1 .. Len(t) : b = t[i].batch
    BY <1>2 DEF BatchesIn
  <2>2. Len(s) + i \in 1 .. Len(s) + Len(t) /\ ~(Len(s) + i <= Len(s)) /\ (Len(s) + i) - Len(s) = i
    BY <1>2, <2>1
  <2>3. Len(s) + i \in DOMAIN u /\ b = u[Len(s) + i].batch
    BY <1>1, <1>3, <2>1, <2>2
  <2> QED BY <2>3 DEF BatchesIn
<1> QED BY <1>4, <1>5, <1>6 DEF u

LEMMA WholeBatch ==
    ASSUME NEW b \in Nat, NEW n \in Nat, n > 0
    PROVE  BatchesIn(Whole(b, n)) = {b}
<1>1. /\ Whole(b, n) \in Seq(Lines) /\ Len(Whole(b, n)) = n
      /\ \A i \in 1 .. n : Whole(b, n)[i].batch = b
  BY WholeIs, FieldsAre DEF Event
<1>2. DOMAIN Whole(b, n) = 1 .. n /\ 1 \in 1 .. n
  BY <1>1
<1> QED BY <1>1, <1>2 DEF BatchesIn

LEMMA NoBatches == BatchesIn(<<>>) = {}
BY DEF BatchesIn

LEMMA EventsAre ==
    ASSUME NEW f, Log(f)
    PROVE  Events(f) \in Seq(Lines) /\ Scan(f) \in Scans
<1>1. Len(f) \in 0 .. Len(f)
  BY LogType
<1>2. Scan(f) \in Scans
  BY <1>1, ScanIs
<1> QED BY <1>2 DEF Scans, Events

LEMMA BeforeSelf ==
    ASSUME NEW f, Log(f), NEW safe
    PROVE  Before(f, Events(f), safe)
<1>1. Events(f) \o <<>> = Events(f) /\ <<>> \in Seq(Lines)
  BY EventsAre, ConcatEmptySeq
<1> QED BY <1>1, NoBatches DEF Before

-----------------------------------------------------------------------------
(* The invariant holds.                                                    *)

LEMMA IdleIs == Idle.pc = "idle" /\ Idle \in Writers
BY DEF Idle, Writers

LEMMA InitHolds == Init => FramingInv
<1> SUFFICES ASSUME Init PROVE FramingInv
  OBVIOUS
<1>1. /\ file \in InitialLogs /\ told = Events(file) /\ disk = {file} /\ writer = Idle
      /\ cursor = NoCursor /\ applied = <<>> /\ lastBatch = 1 /\ acked = {}
  BY DEF Init
<1>2. Log(file) /\ \A i \in DOMAIN told : told[i].batch = 1
  BY <1>1, FramingAssumption
<1>3. FilesInv
  BY <1>1, <1>2 DEF FilesInv, Untouched
<1>4. CursorInv
  <2>1. <<>> \in Seq(Lines)
    OBVIOUS
  <2> QED BY <1>1, <2>1 DEF CursorInv
<1>5. writer.pc = "idle"
  BY <1>1 DEF Idle
<1>6. WriterInv
  BY <1>1, <1>5, IdleIs DEF WriterInv, Writing, At
<1>7. BatchInv
  <2>1. 1 \in Batches
    BY FramingAssumption DEF Batches
  <2>2. BatchesIn(told) \subseteq 1 .. 1
    BY <1>2 DEF BatchesIn
  <2> QED BY <1>1, <1>5, <2>1, <2>2 DEF BatchInv, Writing
<1>8. DiskInv
  BY <1>1, <1>2, BeforeSelf DEF DiskInv
<1> QED BY <1>3, <1>4, <1>6, <1>7, <1>8 DEF FramingInv

(* Who writes has a log that can be read. *)
LEMMA WriterReads ==
    ASSUME FramingInv, ~At("idle")
    PROVE  AllRead /\ Log(file) /\ Readable(file) /\ told = Events(file)
BY IdleIs DEF FramingInv, FilesInv, Untouched, At, AllRead

\* Readers notice nothing.
Quiet == told' = told /\ acked' = acked /\ (Readable(file) => Readable(file'))

LEMMA StopKeeps ==
    ASSUME FramingInv, AllRead, Stop, UNCHANGED <<fileVars, disk, dbVars, lastBatch, acked>>
    PROVE  FramingInv' /\ Quiet
<1>1. /\ file' = file /\ told' = told /\ disk' = disk /\ cursor' = cursor /\ applied' = applied
      /\ lastBatch' = lastBatch /\ acked' = acked /\ writer' = Idle
  BY DEF fileVars, dbVars, Stop
<1>2. writer'.pc = "idle"
  BY <1>1, IdleIs
<1>3. FilesInv'
  BY <1>1 DEF FramingInv, FilesInv, AllRead
<1>4. CursorInv'
  BY <1>1 DEF FramingInv, CursorInv
<1>5. WriterInv'
  BY <1>1, <1>2, IdleIs DEF WriterInv, Writing, At
<1>6. BatchInv'
  BY <1>1, <1>2 DEF FramingInv, BatchInv, Writing
<1>7. DiskInv'
  BY <1>1 DEF FramingInv, DiskInv
<1> QED BY <1>1, <1>3, <1>4, <1>5, <1>6, <1>7 DEF FramingInv, Quiet

\* All but the writer.
Rest4 == FilesInv /\ CursorInv /\ BatchInv /\ DiskInv

(* Text changes, and readers get what they got. *)
LEMMA ChangeKeeps ==
    ASSUME FramingInv, Writing, NEW f, Log(f), Readable(f), Events(f) = told, Change(f),
           UNCHANGED <<dbVars, lastBatch, acked>>
    PROVE  Rest4' /\ Quiet /\ told' = told /\ file' = f 
           /\ applied' = applied /\ lastBatch' = lastBatch
<1>1. /\ file' = f /\ told' = told /\ disk' = disk \cup {f} /\ cursor' = cursor
      /\ applied' = applied /\ lastBatch' = lastBatch /\ acked' = acked
  BY DEF Change, Become, dbVars
<1>2. AllRead
  BY WriterReads DEF Writing, At
<1>3. FilesInv'
  BY <1>1, <1>2 DEF FramingInv, FilesInv, AllRead
<1>4. CursorInv'
  BY <1>1 DEF FramingInv, CursorInv
<1>5. BatchInv'
  BY <1>1 DEF FramingInv, BatchInv
<1>6. DiskInv'
  <2>1. Before(f, told, acked)
    BY BeforeSelf
  <2> QED BY <1>1, <2>1 DEF FramingInv, DiskInv
<1> QED BY <1>1, <1>3, <1>4, <1>5, <1>6 DEF Rest4, Quiet

(* Only the writer goes on. *)
LEMMA LogStays ==
    ASSUME FramingInv, Writing, UNCHANGED <<fileVars, disk, dbVars, lastBatch, acked>>
    PROVE  Rest4' /\ Quiet /\ told' = told /\ file' = file 
           /\ applied' = applied /\ lastBatch' = lastBatch
<1>1. /\ file' = file /\ told' = told /\ disk' = disk /\ cursor' = cursor
      /\ applied' = applied /\ lastBatch' = lastBatch /\ acked' = acked
  BY DEF fileVars, dbVars
<1>2. AllRead
  BY WriterReads DEF Writing, At
<1>3. FilesInv'
  BY <1>1, <1>2 DEF FramingInv, FilesInv, AllRead
<1>4. CursorInv'
  BY <1>1 DEF FramingInv, CursorInv
<1>5. BatchInv'
  BY <1>1 DEF FramingInv, BatchInv
<1>6. DiskInv'
  BY <1>1 DEF FramingInv, DiskInv
<1> QED BY <1>1, <1>3, <1>4, <1>5, <1>6 DEF Rest4, Quiet

LEMMA BatchIs ==
    ASSUME FramingInv
    PROVE  /\ lastBatch \in Nat /\ lastBatch >= 1 /\ MaxBatches \in Nat
           /\ lastBatch <= MaxBatches + 1 /\ MaxSize \in Nat
BY FramingAssumption DEF FramingInv, BatchInv, Batches

(* What the database has, where the log needs no replay. *)
LEMMA ConvergedIs ==
    ASSUME FramingInv, Decision = "NoOp"
    PROVE  applied = told /\ AllRead
<1>1. /\ AllRead /\ applied = Events(cursor.seen) /\ cursor.off = Scan(file).committed
      /\ cursor.seen = UpTo(file, cursor.off)
  BY DecisionIs DEF FramingInv
<1>2. Log(file) /\ told = Events(file)
  BY DEF FramingInv, FilesInv
<1> QED BY <1>1, <1>2, CommittedIs

LEMMA AppendKeeps ==
    ASSUME FramingInv, BeginAppend
    PROVE  FramingInv' /\ Quiet
<1>1. PICK n \in 1 .. MaxSize : AppendBatch(n)
  BY DEF BeginAppend
<1>2. applied = told /\ AllRead
  BY ConvergedIs DEF BeginAppend
<1>3. /\ file' = file /\ told' = told /\ disk' = disk /\ cursor' = cursor /\ applied' = applied
      /\ acked' = acked /\ lastBatch <= MaxBatches /\ lastBatch' = lastBatch + 1
      /\ writer' = [pc |-> "repair", n |-> n, todo |-> Span(lastBatch + 1, n)]
  BY <1>1 DEF AppendBatch, fileVars, dbVars
<1>4. n \in Nat /\ lastBatch \in Nat /\ lastBatch >= 1 /\ lastBatch + 1 \in Nat
  BY BatchIs
<1>5. /\ writer'.pc = "repair" /\ writer'.n = n /\ writer'.todo = Span(lastBatch + 1, n)
  BY <1>3
<1>6. Left(Span(lastBatch + 1, n), lastBatch + 1, n, 0)
  BY <1>4, SpanIs
<1>7. Done' = 0
  <2>1. Len(Span(lastBatch + 1, n)) = n + 2 - 0
    BY <1>6 DEF Left
  <2> QED BY <1>4, <1>5, <2>1 DEF Done
<1>8. WriterInv'
  <2>1. Writing' /\ Done' \in 0 .. writer'.n + 1
    BY <1>4, <1>5, <1>7 DEF Writing
  <2>2. Left(writer'.todo, lastBatch', writer'.n, Done')
    BY <1>3, <1>5, <1>6, <1>7
  <2>3. Span(lastBatch + 1, n) \in Seq(Lines)
    BY <1>6 DEF Left
  <2>4. writer' \in Writers
    BY <1>3, <1>4, <2>3 DEF Writers
  <2> QED BY <1>2, <1>3, <1>5, <1>7, <2>1, <2>2, <2>4 DEF WriterInv, At
<1>9. FilesInv'
  BY <1>2, <1>3 DEF FramingInv, FilesInv, AllRead
<1>10. CursorInv'
  BY <1>3 DEF FramingInv, CursorInv
<1>11. BatchInv'
  <2>1. BatchesIn(told) \subseteq 1 .. lastBatch /\ acked \subseteq BatchesIn(told)
    BY DEF FramingInv, BatchInv
  <2>2. lastBatch + 1 \in Batches
    BY <1>3, <1>4, BatchIs DEF Batches
  <2>3. 1 .. lastBatch \subseteq 1 .. lastBatch + 1 /\ (lastBatch + 1) - 1 = lastBatch
    BY <1>4
  <2> QED BY <1>3, <2>1, <2>2, <2>3 DEF BatchInv
<1>12. DiskInv'
  BY <1>3 DEF FramingInv, DiskInv
<1> QED BY <1>3, <1>8, <1>9, <1>10, <1>11, <1>12 DEF FramingInv, Quiet

LEMMA WriterIs ==
    ASSUME FramingInv, Writing
    PROVE  /\ writer \in Writers /\ writer.n \in Nat /\ writer.n \in 1 .. MaxSize /\ applied = told
           /\ Done \in 0 .. writer.n + 1 /\ Done \in Nat
           /\ Left(writer.todo, lastBatch, writer.n, Done)
           /\ BatchesIn(told) \subseteq 1 .. lastBatch - 1
           /\ Log(file) /\ Readable(file) /\ told = Events(file) /\ lastBatch \in Nat
<1>1. FramingInv /\ WriterInv /\ BatchInv
  BY DEF FramingInv
<1>2. ~At("idle")
  BY DEF Writing, At
<1>3. writer.n \in Nat
  BY <1>1 DEF WriterInv, Writers
<1>4. /\ writer \in Writers /\ writer.n \in 1 .. MaxSize /\ applied = told
      /\ Done \in 0 .. writer.n + 1 /\ Left(writer.todo, lastBatch, writer.n, Done)
  BY <1>1 DEF WriterInv
<1>5. Done \in Nat
  BY <1>3, <1>4
<1>6. BatchesIn(told) \subseteq 1 .. lastBatch - 1
  BY <1>1 DEF BatchInv
<1> QED BY <1>1, <1>2, <1>3, <1>4, <1>5, <1>6, WriterReads, BatchIs

(* The writer goes to the next label, with all of its span yet to write. *)
LEMMA GotoIs ==
    ASSUME FramingInv, Writing, NEW label \in {"terminate", "write", "end_line"}, Goto(label),
           lastBatch' = lastBatch, applied' = applied, told' = told
    PROVE  /\ writer' \in Writers /\ writer'.pc = label /\ writer'.n = writer.n
           /\ writer'.todo = writer.todo /\ Done' = Done /\ Writing'
           /\ Writing' => /\ writer'.n \in 1 .. MaxSize /\ applied' = told'
                          /\ Done' \in 0 .. writer'.n + 1
                          /\ Left(writer'.todo, lastBatch', writer'.n, Done')
<1>1. /\ writer \in Writers /\ writer.n \in 1 .. MaxSize /\ applied = told
      /\ Done \in 0 .. writer.n + 1 /\ Left(writer.todo, lastBatch, writer.n, Done)
  BY WriterIs
<1>2. writer' = [writer EXCEPT !.pc = label]
  BY DEF Goto
<1>3. writer' \in Writers /\ writer'.pc = label /\ writer'.n = writer.n
      /\ writer'.todo = writer.todo
  BY <1>1, <1>2 DEF Writers
<1>4. Done' = Done
  BY <1>3 DEF Done
<1>5. Writing'
  BY <1>3 DEF Writing
<1> QED BY <1>1, <1>3, <1>4, <1>5

(* Repair, or what comes after it, leaves a log at whose end a span may begin. *)
LEMMA ToWrite ==
    ASSUME FramingInv, Writing, writer.pc \in {"repair", "terminate"}, Goto("write"), Rest4',
           lastBatch' = lastBatch, applied' = applied, told' = told,
           Clean(Scan(file')), file' = <<>> \/ LastEnded(file')
    PROVE  FramingInv'
<1>1. /\ writer' \in Writers /\ writer'.pc = "write" /\ writer'.n = writer.n
      /\ writer'.todo = writer.todo /\ Done' = Done /\ Writing'
      /\ Writing' => /\ writer'.n \in 1 .. MaxSize /\ applied' = told'
                     /\ Done' \in 0 .. writer'.n + 1
                     /\ Left(writer'.todo, lastBatch', writer'.n, Done')
  BY GotoIs
<1>2. Done = 0
  BY DEF FramingInv, WriterInv
<1>3. Log(file') /\ told' = Events(file')
  BY DEF Rest4, FilesInv
<1>4. Written(file', lastBatch', writer'.n, Done', told')
  <2>1. Done' = 0 /\ ~(Done' > 0)
    BY <1>1, <1>2
  <2> QED BY <1>3, <2>1 DEF Written, Clean
<1>5. WriterInv'
  BY <1>1, <1>4 DEF WriterInv, At
<1> QED BY <1>5 DEF FramingInv, Rest4

LEMMA NotNeededKeeps ==
    ASSUME FramingInv, RepairNotNeeded
    PROVE  FramingInv' /\ Quiet
<1>1. Writing /\ writer.pc = "repair" /\ NeedsNoRepair /\ Goto("write")
      /\ UNCHANGED <<fileVars, disk, dbVars, lastBatch, acked>>
  BY DEF RepairNotNeeded, At, Writing
<1>2. Rest4' /\ Quiet /\ told' = told /\ file' = file
      /\ applied' = applied /\ lastBatch' = lastBatch
  BY <1>1, LogStays
<1>3. Log(file) /\ Readable(file)
  BY <1>1, WriterIs
<1>4. Clean(Scan(file)) /\ (file = <<>> \/ LastEnded(file))
  BY <1>1, <1>3, IntactEnds DEF Clean, NeedsNoRepair
<1>5. Clean(Scan(file')) /\ (file' = <<>> \/ LastEnded(file'))
  BY <1>2, <1>4
<1> QED BY <1>1, <1>2, <1>5, ToWrite

LEMMA DanglingKeeps ==
    ASSUME FramingInv, RepairDanglingSpan
    PROVE  FramingInv' /\ Quiet
<1> DEFINE f == UpTo(file, TrustedDanglingStart(file))
<1>1. Writing /\ writer.pc = "repair" /\ TrustedDanglingStart(file) >= 0 /\ Goto("write")
      /\ Change(f) /\ UNCHANGED <<dbVars, lastBatch, acked>>
  BY DEF RepairDanglingSpan, At, Writing
<1>2. Log(file) /\ Readable(file) /\ told = Events(file)
  BY <1>1, WriterIs
<1>3. TrustedDanglingStart(file) = Scan(file).committed /\ Even(Scan(file).committed)
  <2>1. ~(NoSpan >= 0)
    BY DEF NoSpan
  <2> QED BY <1>1, <1>2, <2>1, TrustedTells
<1>4. /\ Log(f) /\ Clean(Scan(f)) /\ Events(f) = Events(file)
      /\ (f = <<>> \/ LastEnded(f))
  BY <1>2, <1>3, CommittedIs
<1>5. Readable(f)
  BY <1>4 DEF Clean, Readable
<1> HIDE DEF f
<1>6. Rest4' /\ Quiet /\ told' = told /\ file' = f
      /\ applied' = applied /\ lastBatch' = lastBatch
  BY <1>1, <1>2, <1>4, <1>5, ChangeKeeps
<1>7. Clean(Scan(file')) /\ (file' = <<>> \/ LastEnded(file'))
  BY <1>4, <1>6
<1> QED BY <1>1, <1>6, <1>7, ToWrite

LEMMA ByScanKeeps ==
    ASSUME FramingInv, RepairByScan
    PROVE  FramingInv' /\ Quiet
<1> DEFINE f == UpTo(file, Scan(file).committed)
<1>1. Writing /\ writer.pc = "repair" /\ Goto("terminate")
      /\ Change(f) /\ UNCHANGED <<dbVars, lastBatch, acked>>
  BY DEF RepairByScan, At, Writing
<1>2. Log(file) /\ Readable(file) /\ told = Events(file)
  BY <1>1, WriterIs
<1>3. Log(f) /\ Clean(Scan(f)) /\ Events(f) = Events(file)
  BY <1>2, CommittedIs
<1>4. Readable(f)
  BY <1>3 DEF Clean, Readable
<1> HIDE DEF f
<1>5. Rest4' /\ Quiet /\ told' = told /\ file' = f
      /\ applied' = applied /\ lastBatch' = lastBatch
  BY <1>1, <1>2, <1>3, <1>4, ChangeKeeps
<1>6. /\ writer' \in Writers /\ writer'.pc = "terminate" /\ Done' = Done
      /\ Writing' => /\ writer'.n \in 1 .. MaxSize /\ applied' = told'
                     /\ Done' \in 0 .. writer'.n + 1
                     /\ Left(writer'.todo, lastBatch', writer'.n, Done')
  BY <1>1, <1>5, GotoIs
<1>7. Done = 0
  BY <1>1 DEF FramingInv, WriterInv
<1>8. WriterInv'
  BY <1>3, <1>5, <1>6, <1>7 DEF WriterInv, At
<1> QED BY <1>5, <1>8 DEF FramingInv, Rest4

LEMMA RepairFailKeeps ==
    ASSUME FramingInv, RepairFail
    PROVE  FramingInv' /\ Quiet
<1>1. ~At("idle") /\ Stop /\ UNCHANGED <<fileVars, disk, dbVars, lastBatch, acked>>
  BY DEF RepairFail, At
<1> QED BY <1>1, WriterReads, StopKeeps

LEMMA TerminateKeeps ==
    ASSUME FramingInv, TerminateLastLine
    PROVE  FramingInv' /\ Quiet
<1>1. Writing /\ writer.pc = "terminate" /\ Goto("write")
      /\ UNCHANGED <<dbVars, lastBatch, acked>>
  BY DEF TerminateLastLine, At, Writing
<1>2. Log(file) /\ Readable(file) /\ told = Events(file) /\ Clean(Scan(file))
  BY <1>1, WriterIs DEF FramingInv, WriterInv, At
<1>3. CASE file = <<>> \/ LastEnded(file)
  <2>1. UNCHANGED <<fileVars, disk>>
    BY <1>3 DEF TerminateLastLine
  <2>2. Rest4' /\ Quiet /\ told' = told /\ file' = file
        /\ applied' = applied /\ lastBatch' = lastBatch
    BY <1>1, <2>1, LogStays
  <2>3. Clean(Scan(file')) /\ (file' = <<>> \/ LastEnded(file'))
    BY <1>2, <1>3, <2>2
  <2> QED BY <1>1, <2>2, <2>3, ToWrite
<1>4. CASE ~(file = <<>> \/ LastEnded(file))
  <2> DEFINE f == EndLine(file)
  <2>1. Change(f)
    BY <1>4 DEF TerminateLastLine
  <2>2. Log(f) /\ LastEnded(f) /\ Clean(Scan(f)) /\ Events(f) = Events(file)
    BY <1>2, <1>4, CleanEnd
  <2>3. Readable(f)
    BY <2>2 DEF Clean, Readable
  <2> HIDE DEF f
  <2>4. Rest4' /\ Quiet /\ told' = told /\ file' = f
        /\ applied' = applied /\ lastBatch' = lastBatch
    BY <1>1, <1>2, <2>1, <2>2, <2>3, ChangeKeeps
  <2>5. Clean(Scan(file')) /\ LastEnded(file')
    BY <2>2, <2>4
  <2> QED BY <1>1, <2>4, <2>5, ToWrite
<1> QED BY <1>3, <1>4

LEMMA TextKeeps ==
    ASSUME FramingInv, WriteText
    PROVE  FramingInv' /\ Quiet
<1> DEFINE b == lastBatch
           n == writer.n
           m == Done
           line == Head(writer.todo)
           f == Append(file, line)
<1>1. Writing /\ writer.pc = "write" /\ Goto("end_line")
      /\ Change(Write(file, line)) /\ UNCHANGED <<dbVars, lastBatch, acked>>
  BY DEF WriteText, At, Writing
<1>2. /\ b \in Nat /\ n \in Nat /\ m \in 0 .. n + 1 /\ m \in Nat /\ Left(writer.todo, b, n, m)
      /\ Log(file)
  BY <1>1, WriterIs
<1>3. Written(file, b, n, m, told)
  BY <1>1 DEF FramingInv, WriterInv, At
<1>4. line = SpanLine(b, n, m + 1)
  BY <1>2 DEF Left
<1>5. Write(file, line) = f
  BY <1>3, WriteIs DEF Written
<1> HIDE DEF line, b, n, m
<1>6. file \in Seq(Lines) /\ f = Append(file, line)
  BY <1>2 DEF Log
<1> HIDE DEF f
<1>7. Log(f) /\ Readable(f) /\ Events(f) = told
  BY <1>2, <1>3, <1>4, <1>6, UnendedLine
<1>8. Rest4' /\ Quiet /\ told' = told /\ file' = f
      /\ applied' = applied /\ lastBatch' = lastBatch
  BY <1>1, <1>5, <1>7, ChangeKeeps
<1>9. /\ writer' \in Writers /\ writer'.pc = "end_line" /\ writer'.n = writer.n
      /\ writer'.todo = writer.todo /\ Done' = Done
      /\ Writing' => /\ writer'.n \in 1 .. MaxSize /\ applied' = told'
                     /\ Done' \in 0 .. writer'.n + 1
                     /\ Left(writer'.todo, lastBatch', writer'.n, Done')
  BY <1>1, <1>8, GotoIs
<1>10. \E h \in Seq(Lines) : /\ Written(h, lastBatch', writer'.n, Done', told')
                             /\ file' = Append(h, Head(writer'.todo))
  <2>1. Written(file, lastBatch', writer'.n, Done', told')
    BY <1>3, <1>8, <1>9 DEF b, n, m
  <2>2. file' = Append(file, Head(writer'.todo))
    BY <1>8, <1>9 DEF f, line
  <2> QED BY <1>6, <2>1, <2>2
<1>11. WriterInv'
  BY <1>9, <1>10 DEF WriterInv, At
<1> QED BY <1>8, <1>11 DEF FramingInv, Rest4

LEMMA LeftTail ==
    ASSUME NEW b, NEW n \in Nat, NEW m \in Nat, m <= n + 1, NEW todo, Left(todo, b, n, m)
    PROVE  /\ Tail(todo) \in Seq(Lines) /\ Len(Tail(todo)) = n + 1 - m /\ Len(todo) = n + 2 - m
           /\ Head(todo) = SpanLine(b, n, m + 1)
           /\ Left(Tail(todo), b, n, m + 1)
<1>1. /\ todo \in Seq(Lines) /\ Len(todo) = n + 2 - m
      /\ \A j \in 1 .. Len(todo) : todo[j] = SpanLine(b, n, m + j)
  BY DEF Left
<1>2. Len(todo) > 0 /\ 1 \in 1 .. Len(todo) /\ Head(todo) = todo[1]
  BY <1>1
<1>3. /\ Tail(todo) \in Seq(Lines) /\ Len(Tail(todo)) = n + 1 - m
      /\ \A j \in 1 .. n + 1 - m : Tail(todo)[j] = todo[j + 1]
  BY <1>1, <1>2
<1>4. ASSUME NEW j \in 1 .. n + 1 - m
      PROVE  Tail(todo)[j] = SpanLine(b, n, (m + 1) + j)
  <2>1. j + 1 \in 1 .. Len(todo) /\ m + (j + 1) = (m + 1) + j
    BY <1>1
  <2> QED BY <1>1, <1>3, <2>1
<1>5. n + 2 - (m + 1) = n + 1 - m
  OBVIOUS
<1> QED BY <1>1, <1>2, <1>3, <1>4, <1>5 DEF Left

(* Another line of the span is written, not the last. *)
LEMMA NewlineGoesOn ==
    ASSUME FramingInv, WriteNewline, Done <= writer.n
    PROVE  FramingInv' /\ Quiet
<1> DEFINE b == lastBatch
           n == writer.n
           m == Done
           line == Head(writer.todo)
           f == EndLine(file)
<1>1. Writing /\ writer.pc = "end_line" /\ Change(f) /\ UNCHANGED <<dbVars, lastBatch, acked>>
      /\ writer' = [writer EXCEPT !.todo = Tail(@),
                                  !.pc = IF Len(writer.todo) = 1 THEN "sync" ELSE "write"]
  BY DEF WriteNewline, At, Writing
<1>2. /\ b \in Nat /\ n \in Nat /\ m \in 0 .. n + 1 /\ m \in Nat /\ Left(writer.todo, b, n, m)
      /\ Log(file) /\ writer \in Writers /\ n \in 1 .. MaxSize /\ applied = told
      /\ m <= n /\ m <= n + 1
  BY <1>1, WriterIs
<1> HIDE DEF b, n, m
<1>3. PICK h \in Seq(Lines) : Written(h, b, n, m, told) /\ file = Append(h, line)
  BY <1>1 DEF FramingInv, WriterInv, At, b, n, m
<1>4. /\ Tail(writer.todo) \in Seq(Lines) /\ Len(Tail(writer.todo)) = n + 1 - m
      /\ Len(writer.todo) = n + 2 - m
      /\ line = SpanLine(b, n, m + 1) /\ Left(Tail(writer.todo), b, n, m + 1)
  <2> DEFINE todo == writer.todo
  <2>1. n \in Nat /\ m \in Nat /\ m <= n + 1 /\ Left(todo, b, n, m)
    BY <1>2
  <2> HIDE DEF todo
  <2>2. /\ Tail(todo) \in Seq(Lines) /\ Len(Tail(todo)) = n + 1 - m /\ Len(todo) = n + 2 - m
        /\ Head(todo) = SpanLine(b, n, m + 1)
        /\ Left(Tail(todo), b, n, m + 1)
    BY <2>1, LeftTail
  <2> QED BY <2>2 DEF todo
<1>5. line \in Lines
  <2>1. m + 1 \in 1 .. n + 2
    BY <1>2
  <2> QED BY <1>2, <1>4, <2>1, SpanLineIs
<1>6. f = Append(h, Ended(line))
  BY <1>3, <1>5, EndLineIs
<1> HIDE DEF line
<1> DEFINE e == Ended(line)
<1>7. e = Ended(SpanLine(b, n, m + 1))
  BY <1>4
<1> HIDE DEF e
<1>8. Written(f, b, n, m + 1, told)
  <2>1. Written(Append(h, e), b, n, m + 1, told)
    BY <1>2, <1>3, <1>7, EndedLine
  <2> QED BY <1>6, <2>1 DEF e
<1>9. Log(f) /\ Readable(f) /\ Events(f) = told
  BY <1>8 DEF Written, Readable
<1> HIDE DEF f
<1>10. Rest4' /\ Quiet /\ told' = told /\ file' = f
      /\ applied' = applied /\ lastBatch' = lastBatch
  BY <1>1, <1>9, ChangeKeeps
<1>11. Len(writer.todo) # 1
  BY <1>2, <1>4
<1>12. /\ writer' \in Writers /\ writer'.pc = "write" /\ writer'.n = n
       /\ writer'.todo = Tail(writer.todo)
  BY <1>1, <1>2, <1>4, <1>11 DEF Writers, n
<1>13. Done' = m + 1 /\ m + 1 \in 0 .. n + 1
  <2>1. Done' = n + 2 - (n + 1 - m)
    BY <1>4, <1>12 DEF Done
  <2> QED BY <1>2, <2>1
<1>14. WriterInv'
  <2>1. /\ writer'.n \in 1 .. MaxSize /\ applied' = told' /\ Done' \in 0 .. writer'.n + 1
        /\ Left(writer'.todo, lastBatch', writer'.n, Done')
        /\ Written(file', lastBatch', writer'.n, Done', told')
    BY <1>2, <1>4, <1>8, <1>10, <1>12, <1>13 DEF b
  <2> QED BY <1>12, <2>1 DEF WriterInv, At
<1> QED BY <1>10, <1>14 DEF FramingInv, Rest4

(* The last line: readers get the whole batch, and none of it before. *)
LEMMA LastNewline ==
    ASSUME FramingInv, WriteNewline, ~(Done <= writer.n)
    PROVE  /\ FramingInv' /\ told' = told \o Whole(lastBatch, writer.n) /\ acked' = acked
           /\ lastBatch \in Batches \ BatchesIn(told) /\ writer.n \in 1 .. MaxSize
           /\ Readable(file')
<1> DEFINE b == lastBatch
           n == writer.n
           m == Done
           line == Head(writer.todo)
           f == EndLine(file)
           batch == Whole(b, n)
<1>1. Writing /\ writer.pc = "end_line" /\ Change(f) /\ UNCHANGED <<dbVars, lastBatch, acked>>
      /\ writer' = [writer EXCEPT !.todo = Tail(@),
                                  !.pc = IF Len(writer.todo) = 1 THEN "sync" ELSE "write"]
  BY DEF WriteNewline, At, Writing
<1>2. /\ b \in Nat /\ n \in Nat /\ m \in 0 .. n + 1 /\ m \in Nat /\ Left(writer.todo, b, n, m)
      /\ Log(file) /\ writer \in Writers /\ n \in 1 .. MaxSize /\ applied = told
      /\ BatchesIn(told) \subseteq 1 .. b - 1 /\ told = Events(file)
  BY <1>1, WriterIs
<1> HIDE DEF b, n, m
<1>3. m = n + 1 /\ m <= n + 1 /\ n > 0
  BY <1>2 DEF n, m
<1>4. PICK h \in Seq(Lines) : Written(h, b, n, m, told) /\ file = Append(h, line)
  BY <1>1 DEF FramingInv, WriterInv, At, b, n, m
<1>5. /\ Tail(writer.todo) \in Seq(Lines) /\ Len(writer.todo) = n + 2 - m
      /\ line = SpanLine(b, n, m + 1)
  <2> DEFINE todo == writer.todo
  <2>1. n \in Nat /\ m \in Nat /\ m <= n + 1 /\ Left(todo, b, n, m)
    BY <1>2, <1>3
  <2> HIDE DEF todo
  <2>2. /\ Tail(todo) \in Seq(Lines) /\ Len(Tail(todo)) = n + 1 - m /\ Len(todo) = n + 2 - m
        /\ Head(todo) = SpanLine(b, n, m + 1)
        /\ Left(Tail(todo), b, n, m + 1)
    BY <2>1, LeftTail
  <2> QED BY <2>2 DEF todo
<1>6. line \in Lines
  <2>1. m + 1 \in 1 .. n + 2
    BY <1>2
  <2> QED BY <1>2, <1>5, <2>1, SpanLineIs
<1>7. f = Append(h, Ended(line))
  BY <1>4, <1>6, EndLineIs
<1>8. batch \in Seq(Lines) /\ BatchesIn(batch) = {b}
  BY <1>2, <1>3, WholeIs, WholeBatch
<1>9. told \in Seq(Lines)
  BY <1>2, EventsAre
<1> HIDE DEF line
<1> DEFINE e == Ended(line)
<1>10. e = Ended(SpanLine(b, n, m + 1))
  BY <1>5
<1> HIDE DEF e, batch
<1>11. Log(f) /\ Clean(Scan(f)) /\ Events(f) = told \o batch
  <2>1. /\ Log(Append(h, e)) /\ Clean(Scan(Append(h, e)))
        /\ Events(Append(h, e)) = told \o Whole(b, n)
    <3>1. /\ b \in Nat /\ n \in Nat /\ m \in 0 .. n + 1 /\ Written(h, b, n, m, told)
          /\ e = Ended(SpanLine(b, n, m + 1))
      BY <1>2, <1>4, <1>10
    <3>2. /\ m <= n => Written(Append(h, e), b, n, m + 1, told)
          /\ m = n + 1 => /\ Log(Append(h, e)) /\ Clean(Scan(Append(h, e)))
                          /\ Events(Append(h, e)) = told \o Whole(b, n)
      BY <3>1, EndedLine, SMTT(30)
    <3> QED BY <1>3, <3>2
  <2> QED BY <1>7, <2>1 DEF e, batch
<1>12. Readable(f)
  BY <1>11 DEF Readable, Clean
<1> HIDE DEF f
<1>13. /\ file' = f /\ told' = told \o batch /\ disk' = disk \cup {f} /\ cursor' = cursor
       /\ applied' = applied /\ lastBatch' = lastBatch /\ acked' = acked
  BY <1>1, <1>11 DEF Change, Become, dbVars
<1>14. /\ writer' \in Writers /\ writer'.pc = "sync" /\ writer'.n = n
  <2>1. Len(writer.todo) = 1
    BY <1>2, <1>3, <1>5
  <2> QED BY <1>1, <1>2, <1>5, <2>1 DEF Writers, n
<1>15. /\ b \notin BatchesIn(told) /\ acked \subseteq BatchesIn(told) /\ b \in Batches
       /\ b >= 1
  <2>1. ~(b \in 1 .. b - 1) /\ acked \subseteq BatchesIn(told) /\ b \in Batches /\ b >= 1
    BY <1>2, BatchIs DEF FramingInv, BatchInv, b
  <2> QED BY <1>2, <2>1
<1>16. AllRead
  BY <1>1, WriterReads DEF Writing, At
<1>17. FilesInv'
  BY <1>11, <1>12, <1>13, <1>16 DEF FramingInv, FilesInv, AllRead
<1>18. CursorInv'
  BY <1>13 DEF FramingInv, CursorInv
<1>19. WriterInv'
  <2>1. Clean(Scan(file')) /\ writer'.n \in 1 .. MaxSize /\ told' = applied' \o Whole(lastBatch', writer'.n)
    BY <1>2, <1>11, <1>13, <1>14 DEF b, batch
  <2>2. ~Writing'
    BY <1>14 DEF Writing
  <2> QED BY <1>14, <2>1, <2>2 DEF WriterInv, At
<1>20. BatchInv'
  <2>1. BatchesIn(told \o batch) = BatchesIn(told) \cup {b}
    BY <1>8, <1>9, BatchesOf
  <2>2. ~Writing'
    BY <1>14 DEF Writing
  <2>3. 1 .. b - 1 \subseteq 1 .. b /\ b \in 1 .. b
    BY <1>2, <1>15
  <2> QED BY <1>2, <1>13, <1>15, <2>1, <2>2, <2>3 DEF BatchInv, b
<1>21. DiskInv'
  <2>1. Before(f, told \o batch, acked)
    BY <1>11, BeforeSelf
  <2>2. ASSUME NEW g \in disk PROVE Before(g, told \o batch, acked)
    <3>1. Log(g) /\ Before(g, told, acked)
      BY DEF FramingInv, FilesInv, DiskInv
    <3>2. PICK lost \in Seq(Lines) :
             /\ told = Events(g) \o lost
             /\ BatchesIn(lost) \cap (acked \cup BatchesIn(Events(g))) = {}
      BY <3>1 DEF Before
    <3>3. Events(g) \in Seq(Lines)
      BY <3>1, EventsAre
    <3>4. BatchesIn(told) = BatchesIn(Events(g)) \cup BatchesIn(lost)
      BY <3>2, <3>3, BatchesOf
    <3>5. BatchesIn(lost \o batch) = BatchesIn(lost) \cup {b}
      BY <1>8, BatchesOf
    <3>6. BatchesIn(lost \o batch) \cap (acked \cup BatchesIn(Events(g))) = {}
      BY <1>15, <3>2, <3>4, <3>5
    <3>7. told \o batch = Events(g) \o (lost \o batch)
      <4> QED BY <1>8, <3>2, <3>3, LinesConcat
    <3>8. lost \o batch \in Seq(Lines)
      BY <1>8
    <3> QED BY <3>6, <3>7, <3>8 DEF Before
  <2> QED BY <1>13, <2>1, <2>2 DEF DiskInv
<1>22. FramingInv'
  BY <1>17, <1>18, <1>19, <1>20, <1>21 DEF FramingInv
<1> QED BY <1>2, <1>12, <1>13, <1>15, <1>22 DEF b, n, batch

LEMMA FailKeeps ==
    ASSUME FramingInv, WriteFail
    PROVE  FramingInv' /\ Quiet
<1>1. /\ Writing /\ ~At("idle") /\ Stop /\ UNCHANGED <<dbVars, lastBatch, acked>>
      /\ UNCHANGED <<fileVars, disk>> \/ (At("write") /\ Change(Write(file, Torn)))
  BY DEF WriteFail, At, Writing
<1>2. CASE UNCHANGED <<fileVars, disk>>
  BY <1>1, <1>2, WriterReads, StopKeeps
<1>3. CASE At("write") /\ Change(Write(file, Torn))
  <2> DEFINE f == Append(file, Torn)
  <2>1. /\ Log(file) /\ (file = <<>> \/ LastEnded(file)) /\ Scan(file).status = "reading"
        /\ Events(file) = told
    BY <1>3 DEF FramingInv, WriterInv, Written
  <2>2. Log(f) /\ Readable(f) /\ Events(f) = told
    BY <2>1, TornLine
  <2>3. Change(f)
    BY <1>3, <2>1, WriteIs
  <2> HIDE DEF f
  <2>4. Rest4' /\ Quiet
    BY <1>1, <2>2, <2>3, ChangeKeeps
  <2>5. writer' = Idle
    BY <1>1 DEF Stop
  <2>6. WriterInv'
    BY <2>5, IdleIs DEF WriterInv, Writing, At
  <2> QED BY <2>4, <2>6 DEF FramingInv, Rest4
<1> QED BY <1>1, <1>2, <1>3

LEMMA GiveUpKeeps ==
    ASSUME FramingInv, GiveUp
    PROVE  FramingInv' /\ Quiet
<1>1. ~At("idle") /\ Stop /\ UNCHANGED <<fileVars, disk, dbVars, lastBatch, acked>>
  BY DEF GiveUp, At
<1> QED BY <1>1, WriterReads, StopKeeps

LEMMA SyncKeeps ==
    ASSUME FramingInv, SyncLog
    PROVE  FramingInv' /\ Quiet
<1>1. /\ writer.pc = "sync" /\ disk' = {file} /\ writer' = [writer EXCEPT !.pc = "apply"]
      /\ file' = file /\ told' = told /\ cursor' = cursor /\ applied' = applied
      /\ lastBatch' = lastBatch /\ acked' = acked
  BY DEF SyncLog, At, Goto, fileVars, dbVars
<1>2. Log(file) /\ Readable(file) /\ told = Events(file)
  BY <1>1, WriterReads DEF At
<1>3. writer \in Writers
  BY DEF FramingInv, WriterInv
<1>4. writer' \in Writers /\ writer'.pc = "apply" /\ writer'.n = writer.n
  BY <1>1, <1>3 DEF Writers
<1>5. FilesInv'
  BY <1>1, <1>2 DEF FilesInv, AllRead
<1>6. CursorInv'
  BY <1>1 DEF FramingInv, CursorInv
<1>7. WriterInv'
  <2>1. /\ Clean(Scan(file)) /\ writer.n \in 1 .. MaxSize
        /\ told = applied \o Whole(lastBatch, writer.n)
    BY <1>1 DEF FramingInv, WriterInv
  <2>2. ~Writing'
    BY <1>4 DEF Writing
  <2> QED BY <1>1, <1>4, <2>1, <2>2 DEF WriterInv, At
<1>8. BatchInv'
  <2>1. ~Writing'
    BY <1>4 DEF Writing
  <2> QED BY <1>1, <2>1 DEF FramingInv, BatchInv
<1>9. DiskInv'
  BY <1>1, <1>2, BeforeSelf DEF DiskInv
<1> QED BY <1>1, <1>5, <1>6, <1>7, <1>8, <1>9 DEF FramingInv, Quiet

LEMMA ApplyKeeps ==
    ASSUME FramingInv, Apply
    PROVE  /\ FramingInv' /\ told' = told /\ file' = file /\ acked' = acked \cup {lastBatch}
           /\ lastBatch \in BatchesIn(told)
<1> DEFINE off == Size(file)
<1>1. /\ writer.pc = "apply" /\ cursor' = CursorAt(file, off)
      /\ applied' = applied \o Whole(lastBatch, writer.n)
      /\ acked' = acked \cup {lastBatch} /\ writer' = Idle
      /\ file' = file /\ told' = told /\ disk' = disk /\ lastBatch' = lastBatch
  BY DEF Apply, At, Stop, fileVars, Whole, Appended
<1>2. Log(file) /\ Readable(file) /\ told = Events(file) /\ AllRead
  BY <1>1, WriterReads DEF At
<1>3. /\ Clean(Scan(file)) /\ writer.n \in 1 .. MaxSize
      /\ told = applied \o Whole(lastBatch, writer.n) /\ disk = {file}
  BY <1>1 DEF FramingInv, WriterInv, At
<1>4. Scan(file).committed = off
  <2>1. Len(file) \in 0 .. Len(file)
    BY <1>2, LogType
  <2>2. Told(Scan(file), file, Len(file))
    BY <1>2, <2>1, ScanTold, ScanIs
  <2> QED BY <1>2, <1>3, <2>2, SizeIs DEF Told, Clean
<1> HIDE DEF off
<1>5. writer'.pc = "idle"
  BY <1>1, IdleIs
<1>6. FilesInv'
  BY <1>1, <1>2 DEF FramingInv, FilesInv, AllRead
<1>7. CursorInv'
  <2>1. /\ cursor'.off = off /\ cursor'.seen = UpTo(file, off)
        /\ Log(UpTo(file, off)) /\ off = Size(UpTo(file, off))
        /\ Clean(Scan(UpTo(file, off))) /\ Events(UpTo(file, off)) = Events(file)
    BY <1>1, <1>2, <1>4, CursorIs
  <2>2. told \in Seq(Lines)
    BY <1>2, EventsAre
  <2> QED BY <1>1, <1>2, <1>3, <2>1, <2>2 DEF CursorInv
<1>8. WriterInv'
  BY <1>1, <1>5, IdleIs DEF WriterInv, Writing, At
<1>9. applied \in Seq(Lines)
  BY DEF FramingInv, CursorInv
<1>10. lastBatch \in BatchesIn(told)
  <2>1. writer.n \in Nat /\ writer.n > 0 /\ lastBatch \in Nat
    BY <1>3, BatchIs
  <2>2. Whole(lastBatch, writer.n) \in Seq(Lines) /\ BatchesIn(Whole(lastBatch, writer.n)) = {lastBatch}
    BY <2>1, WholeIs, WholeBatch
  <2>3. BatchesIn(told) = BatchesIn(applied) \cup BatchesIn(Whole(lastBatch, writer.n))
    BY <1>3, <1>9, <2>2, BatchesOf
  <2> QED BY <2>2, <2>3
<1>11. BatchInv'
  BY <1>1, <1>5, <1>10 DEF FramingInv, BatchInv, Writing
<1>12. DiskInv'
  BY <1>1, <1>2, <1>3, BeforeSelf DEF DiskInv
<1>13. FramingInv'
  BY <1>6, <1>7, <1>8, <1>11, <1>12 DEF FramingInv
<1> QED BY <1>1, <1>10, <1>13

\* A step of a user other than the writer, that leaves the log alone.
LEMMA ReplayKeeps ==
    ASSUME FramingInv, ReplayTail \/ Rebuild
    PROVE  FramingInv' /\ Quiet
<1> DEFINE off == Scan(file).committed
<1>1. /\ writer.pc = "idle" /\ writer' = writer /\ acked' = acked
      /\ file' = file /\ told' = told /\ disk' = disk /\ lastBatch' = lastBatch
  BY DEF ReplayTail, Rebuild, At, fileVars
<1>2. Log(file) /\ told = Events(file)
  BY DEF FramingInv, FilesInv
<1>3. AllRead /\ cursor' = CursorAt(file, off) /\ applied' = told
  <2>1. CASE ReplayTail
    <3> DEFINE at == cursor.off
               rest == Rest(file, cursor.off)
    <3>1. /\ Decision = "ReplayTail" /\ cursor' = CursorAt(file, CommittedFrom(file, at))
          /\ applied' = applied \o EventsFrom(file, at)
      BY <2>1 DEF ReplayTail
    <3>2. /\ AllRead /\ Log(cursor.seen) /\ Clean(Scan(cursor.seen)) /\ at = Size(cursor.seen)
          /\ at \in Nat /\ applied = Events(cursor.seen) /\ Scan(file).committed \in Nat
          /\ at < Scan(file).committed /\ cursor.seen = UpTo(file, at)
          /\ ReadableFrom(file, at)
      BY <3>1, DecisionIs DEF FramingInv
    <3>3. Scan(file).committed <= Size(file) /\ Size(file) \in Nat
      <4>1. Len(file) \in 0 .. Len(file)
        BY <1>2, LogType
      <4>2. Told(Scan(file), file, Len(file))
        BY <1>2, <4>1, ScanTold, ScanIs
      <4> QED BY <1>2, <4>2, SizeIs DEF Told
    <3>4. at % 2 = 0
      <4>1. ~(at >= Size(file))
        BY <3>2, <3>3
      <4> QED BY <3>2, <4>1 DEF ReadableFrom, IsRecordBoundary
    <3>5. Readable(file) /\ at <= Scan(file).committed
      BY <3>2 DEF AllRead
    <3>6. /\ Events(file) = Events(cursor.seen) \o Events(rest)
          /\ Scan(file).committed = at + Scan(rest).committed
      BY <1>2, <3>2, <3>4, <3>5, SeenAndRest
    <3> QED BY <1>2, <3>1, <3>2, <3>6 DEF CommittedFrom, EventsFrom
  <2>2. CASE Rebuild
    <3>1. Readable(file) /\ cursor' = CursorAt(file, off) /\ applied' = told
      BY <2>2 DEF Rebuild
    <3> QED BY <3>1 DEF FramingInv, FilesInv, AllRead, Untouched
  <2> QED BY <2>1, <2>2
<1> HIDE DEF off
<1>4. FilesInv'
  BY <1>1, <1>3 DEF FramingInv, FilesInv, AllRead
<1>5. CursorInv'
  <2>1. off = Scan(file).committed
    BY DEF off
  <2>2. /\ cursor'.off = off /\ cursor'.seen = UpTo(file, off)
        /\ Log(UpTo(file, off)) /\ off = Size(UpTo(file, off))
        /\ Clean(Scan(UpTo(file, off))) /\ Events(UpTo(file, off)) = Events(file)
    BY <1>2, <1>3, <2>1, CursorIs
  <2>3. told \in Seq(Lines)
    BY <1>2, EventsAre
  <2> QED BY <1>2, <1>3, <2>2, <2>3 DEF CursorInv
<1>6. WriterInv'
  BY <1>1 DEF FramingInv, WriterInv, Writing, At
<1>7. BatchInv'
  BY <1>1 DEF FramingInv, BatchInv, Writing
<1>8. DiskInv'
  BY <1>1 DEF FramingInv, DiskInv
<1>9. FramingInv'
  BY <1>4, <1>5, <1>6, <1>7, <1>8 DEF FramingInv
<1> QED BY <1>1, <1>9 DEF Quiet

LEMMA CompactKeeps ==
    ASSUME FramingInv, Compact
    PROVE  FramingInv' /\ Quiet
<1> DEFINE f == [i \in DOMAIN told |-> Ended(told[i])]
<1>1. /\ writer.pc = "idle" /\ writer' = writer /\ acked' = acked /\ lastBatch' = lastBatch
      /\ cursor' = cursor /\ applied' = applied /\ Readable(file)
      /\ file' = f /\ told' = Events(f) /\ (disk' = {f} \/ disk' = disk \cup {f})
  BY DEF Compact, At, Become, dbVars
<1>2. Log(file) /\ told = Events(file) /\ AllRead
  BY <1>1 DEF FramingInv, FilesInv, AllRead, Untouched
<1>3. told \in Seq(Plains)
  BY <1>2, EventsArePlain
<1>4. Log(f) /\ Readable(f) /\ Events(f) = told
  BY <1>3, CompactedIs
<1> HIDE DEF f
<1>5. FilesInv'
  BY <1>1, <1>2, <1>4 DEF FramingInv, FilesInv, AllRead
<1>6. CursorInv'
  BY <1>1 DEF FramingInv, CursorInv
<1>7. WriterInv'
  BY <1>1, <1>4 DEF FramingInv, WriterInv, Writing, At
<1>8. BatchInv'
  BY <1>1, <1>4 DEF FramingInv, BatchInv, Writing
<1>9. DiskInv'
  <2>1. Before(f, told, acked)
    BY <1>4, BeforeSelf
  <2>2. \A g \in disk : Before(g, told, acked)
    BY DEF FramingInv, DiskInv
  <2>3. \A g \in disk' : Before(g, told, acked)
    BY <1>1, <2>1, <2>2
  <2> QED BY <1>1, <1>4, <2>3 DEF DiskInv
<1>10. FramingInv'
  BY <1>5, <1>6, <1>7, <1>8, <1>9 DEF FramingInv
<1> QED BY <1>1, <1>4, <1>10 DEF Quiet

LEMMA LossKeeps ==
    ASSUME FramingInv, PowerLoss
    PROVE  /\ FramingInv' /\ acked' = acked /\ (Readable(file) => Readable(file'))
           /\ \E lost \in Seq(Lines) : /\ told = told' \o lost
                                       /\ BatchesIn(lost) \cap (acked \cup BatchesIn(told')) = {}
<1>1. PICK f \in disk : Become(f) /\ disk' = {f}
  BY DEF PowerLoss
<1>2. /\ file' = f /\ told' = Events(f) /\ disk' = {f} /\ writer' = Idle
      /\ cursor' = cursor /\ applied' = applied /\ lastBatch' = lastBatch /\ acked' = acked
  BY <1>1 DEF PowerLoss, Become, Stop, dbVars
<1>3. Log(f) /\ Log(file) /\ told = Events(file) /\ Before(f, told, acked)
  BY DEF FramingInv, FilesInv, DiskInv
<1>4. PICK lost \in Seq(Lines) : /\ told = Events(f) \o lost
                                 /\ BatchesIn(lost) \cap (acked \cup BatchesIn(Events(f))) = {}
  BY <1>3 DEF Before
<1>5. BatchesIn(told) = BatchesIn(Events(f)) \cup BatchesIn(lost)
  BY <1>3, <1>4, EventsAre, BatchesOf
<1>6. writer'.pc = "idle"
  BY <1>2, IdleIs
<1>7. FilesInv'
  <2>1. AllRead \/ Untouched
    BY DEF FramingInv, FilesInv
  <2>2. AllRead' \/ Untouched'
    <3>1. CASE AllRead
      BY <1>2, <3>1 DEF AllRead
    <3>2. CASE Untouched
      BY <1>2, <3>2 DEF Untouched
    <3> QED BY <2>1, <3>1, <3>2
  <2> QED BY <1>2, <1>3, <2>2 DEF FilesInv
<1>8. CursorInv'
  BY <1>2 DEF FramingInv, CursorInv
<1>9. WriterInv'
  BY <1>2, <1>6, IdleIs DEF WriterInv, Writing, At
<1>10. BatchInv'
  <2>1. lastBatch \in Batches /\ BatchesIn(told) \subseteq 1 .. lastBatch /\ acked \subseteq BatchesIn(told)
    BY DEF FramingInv, BatchInv
  <2>2. acked \subseteq BatchesIn(Events(f)) /\ BatchesIn(Events(f)) \subseteq 1 .. lastBatch
    BY <1>4, <1>5, <2>1
  <2>3. ~Writing'
    BY <1>6 DEF Writing
  <2> QED BY <1>2, <2>1, <2>2, <2>3 DEF BatchInv
<1>11. DiskInv'
  BY <1>2, <1>3, BeforeSelf DEF DiskInv
<1>12. FramingInv'
  BY <1>7, <1>8, <1>9, <1>10, <1>11 DEF FramingInv
<1>13. Readable(file) => Readable(file')
  BY <1>1, <1>2 DEF FramingInv, FilesInv, AllRead, Untouched
<1> QED BY <1>2, <1>4, <1>12, <1>13

\* A power loss takes back whole batches from the end.
TakenBack ==
    \E lost \in Seq(Lines) : /\ told = told' \o lost
                             /\ BatchesIn(lost) \cap (acked \cup BatchesIn(told')) = {}

LEMMA StepHolds ==
    ASSUME FramingInv, [Next]_vars
    PROVE  /\ FramingInv'
           /\ Readable(file) => Readable(file')
           /\ \/ told' = told /\ acked' = acked
              \/ /\ told' = told \o Whole(lastBatch, writer.n) /\ acked' = acked
                 /\ lastBatch \in Batches \ BatchesIn(told) /\ writer.n \in 1 .. MaxSize
              \/ /\ told' = told /\ acked' = acked \cup {lastBatch}
                 /\ lastBatch \in BatchesIn(told)
              \/ acked' = acked /\ TakenBack
<1>1. CASE BeginAppend
  BY <1>1, AppendKeeps DEF Quiet
<1>2. CASE RepairNotNeeded
  BY <1>2, NotNeededKeeps DEF Quiet
<1>3. CASE RepairDanglingSpan
  BY <1>3, DanglingKeeps DEF Quiet
<1>4. CASE RepairByScan
  BY <1>4, ByScanKeeps DEF Quiet
<1>5. CASE RepairFail
  BY <1>5, RepairFailKeeps DEF Quiet
<1>6. CASE TerminateLastLine
  BY <1>6, TerminateKeeps DEF Quiet
<1>7. CASE WriteText
  BY <1>7, TextKeeps DEF Quiet
<1>8. CASE WriteNewline
  <2>1. CASE Done <= writer.n
    BY <1>8, <2>1, NewlineGoesOn DEF Quiet
  <2>2. CASE ~(Done <= writer.n)
    BY <1>8, <2>2, LastNewline
  <2> QED BY <2>1, <2>2
<1>9. CASE WriteFail
  BY <1>9, FailKeeps DEF Quiet
<1>10. CASE SyncLog
  BY <1>10, SyncKeeps DEF Quiet
<1>11. CASE Apply
  BY <1>11, ApplyKeeps
<1>12. CASE GiveUp
  BY <1>12, GiveUpKeeps DEF Quiet
<1>13. CASE ReplayTail \/ Rebuild
  BY <1>13, ReplayKeeps DEF Quiet
<1>14. CASE Compact
  BY <1>14, CompactKeeps DEF Quiet
<1>15. CASE PowerLoss
  BY <1>15, LossKeeps DEF TakenBack
<1>16. CASE UNCHANGED vars
  <2>1. /\ file' = file /\ told' = told /\ disk' = disk /\ writer' = writer /\ cursor' = cursor
        /\ applied' = applied /\ lastBatch' = lastBatch /\ acked' = acked
    BY <1>16 DEF vars
  <2>2. FilesInv' /\ CursorInv' /\ BatchInv' /\ DiskInv'
    BY <2>1 DEF FramingInv, FilesInv, AllRead, Untouched, CursorInv, BatchInv, Writing, DiskInv
  <2>3. WriterInv'
    BY <2>1 DEF FramingInv, WriterInv, Writing, At, Done
  <2> QED BY <2>1, <2>2, <2>3 DEF FramingInv
<1> QED
  BY <1>1, <1>2, <1>3, <1>4, <1>5, <1>6, <1>7, <1>8, <1>9, <1>10, <1>11, <1>12, <1>13, <1>14,
     <1>15, <1>16 DEF Next

-----------------------------------------------------------------------------
(* The theorems.                                                           *)

(* Whatever happens to the file: what a reader gets is known at every write,
   a cursor is at the end of a part in which nothing is open, and what a power
   loss may leave of the file is the log without some of its last batches. *)
THEOREM FramingInvariant == Spec => []FramingInv
<1>1. FramingInv /\ [Next]_vars => FramingInv'
  BY StepHolds
<1> QED BY <1>1, InitHolds, PTL DEF Spec

(* committed_len: the backward searches for an intact or a dangling span at the
   end of the file agree with the full scan, on every log that can be read. *)
THEOREM ShortcutsAgree == Spec => []ShortcutAgrees
<1>1. FramingInv => ShortcutAgrees
  <2> SUFFICES ASSUME FramingInv PROVE ShortcutAgrees
    OBVIOUS
  <2>1. Log(file)
    BY DEF FramingInv, FilesInv
  <2> QED BY <2>1, ShortcutIs DEF ShortcutAgrees
<1> QED BY <1>1, FramingInvariant, PTL

(* inspect: a cursor it accepts splits the log between two batches, and only a
   damaged log, or a cursor inside a line, makes it defer. *)
THEOREM CursorSplitsLog == Spec => []CursorSplits
<1>1. FramingInv => CursorSplits
  <2> SUFFICES ASSUME FramingInv PROVE CursorSplits
    OBVIOUS
  <2>1. Log(file) /\ told = Events(file)
    BY DEF FramingInv, FilesInv
  <2>2. ASSUME Decision = "NoOp" PROVE applied \o EventsFrom(file, cursor.off) = told
    <3>1. applied = told /\ AllRead
      BY <2>2, ConvergedIs
    <3>2. cursor.off = Scan(file).committed /\ Readable(file)
      BY <2>2, <3>1, DecisionIs DEF FramingInv, AllRead
    <3>3. EventsFrom(file, cursor.off) = <<>>
      BY <2>1, <3>2, NothingAfter DEF EventsFrom
    <3>4. told \in Seq(Lines)
      BY <2>1, EventsAre
    <3> QED BY <3>1, <3>3, <3>4, ConcatEmptySeq
  <2>3. ASSUME Decision \in {"ReplayTail", "Defer"}, IsRecordBoundary(cursor.off)
        PROVE  /\ applied \o EventsFrom(file, cursor.off) = told
               /\ Readable(Rest(file, cursor.off))
    <3> DEFINE off == cursor.off
               seen == cursor.seen
    <3>1. /\ AllRead /\ Log(seen) /\ Clean(Scan(seen)) /\ off = Size(seen)
          /\ applied = Events(seen) /\ off <= Scan(file).committed /\ seen = UpTo(file, off)
      <4>1. Decision # "CursorMissing"
        BY <2>3
      <4>2. /\ AllRead /\ Log(seen) /\ Clean(Scan(seen)) /\ off = Size(seen)
            /\ applied = Events(seen)
        BY <4>1, DecisionIs DEF FramingInv
      <4>3. off <= Scan(file).committed /\ seen = UpTo(file, off)
        BY <2>3, DecisionIs DEF FramingInv
      <4> QED BY <4>2, <4>3
    <3>2. Readable(file) /\ off % 2 = 0
      BY <2>3, <3>1 DEF AllRead, IsRecordBoundary
    <3> HIDE DEF off, seen
    <3>3. /\ Readable(Rest(file, off))
          /\ Events(file) = Events(seen) \o Events(Rest(file, off))
      BY <2>1, <3>1, <3>2, SeenAndRest
    <3> QED BY <2>1, <3>1, <3>3 DEF EventsFrom, off
  <2>4. ASSUME Decision = "ReplayTail" PROVE IsRecordBoundary(cursor.off)
    <3>1. /\ cursor.off < Scan(file).committed /\ ReadableFrom(file, cursor.off)
          /\ cursor.off \in Nat /\ Scan(file).committed \in Nat
      <4>1. Decision # "CursorMissing"
        BY <2>4
      <4> QED BY <2>4, <4>1, DecisionIs DEF FramingInv
    <3>2. Scan(file).committed <= Size(file) /\ Size(file) \in Nat
      <4>1. Len(file) \in 0 .. Len(file)
        BY <2>1, LogType
      <4>2. Told(Scan(file), file, Len(file))
        BY <2>1, <4>1, ScanTold, ScanIs
      <4> QED BY <2>1, <4>2, SizeIs DEF Told
    <3>3. ~(cursor.off >= Size(file))
      BY <3>1, <3>2
    <3> QED BY <3>1, <3>3 DEF ReadableFrom
  <2>5. ASSUME Decision = "Defer", IsRecordBoundary(cursor.off) PROVE FALSE
    <3>1. ~ReadableFrom(file, cursor.off)
      BY <2>5, DecisionIs DEF FramingInv
    <3>2. Readable(Rest(file, cursor.off))
      BY <2>3, <2>5
    <3> QED BY <2>5, <3>1, <3>2 DEF ReadableFrom
  <2> QED BY <2>2, <2>3, <2>4, <2>5 DEF CursorSplits
<1> QED BY <1>1, FramingInvariant, PTL

(* append_events_batch, repair and compaction, and deaths and power losses in
   the middle of them: whoever reads at any moment can read the log, if it
   could be read before. *)
THEOREM NoReaderBreaks == Spec => ReadersNeverBreak
<1>1. FramingInv /\ [Next]_vars => [Readable(file) => Readable(file')]_vars
  BY StepHolds
<1> QED BY <1>1, FramingInvariant, PTL DEF Spec, ReadersNeverBreak

LEMMA PartsOf ==
    ASSUME NEW s \in Seq(Lines), NEW t \in Seq(Lines), NEW u, u = s \o t
    PROVE  /\ u \in Seq(Lines) /\ Len(s) <= Len(u)
           /\ SubSeq(u, 1, Len(s)) = s /\ SubSeq(u, Len(s) + 1, Len(u)) = t
<1> DEFINE front == SubSeq(u, 1, Len(s))
           back == SubSeq(u, Len(s) + 1, Len(u))
<1>1. /\ Len(s) \in Nat /\ Len(t) \in Nat /\ u \in Seq(Lines) /\ Len(u) = Len(s) + Len(t)
      /\ \A i \in 1 .. Len(u) : u[i] = IF i <= Len(s) THEN s[i] ELSE t[i - Len(s)]
  BY ConcatProperties
<1>2. front = [i \in 1 .. Len(s) |-> u[i]]
  BY <1>1
<1>3. back = [i \in 1 .. Len(t) |-> u[Len(s) + i]]
  <2>1. /\ Len(u) + 1 - (Len(s) + 1) = Len(t)
        /\ \A i \in 1 .. Len(t) : (Len(s) + 1) + i - 1 = Len(s) + i
    BY <1>1
  <2>2. back \in Seq(Lines) /\ Len(back) = Len(t)
        /\ \A i \in 1 .. Len(t) : back[i] = u[Len(s) + i]
    BY <1>1, <2>1, SubSeqProperties
  <2> HIDE DEF back
  <2>3. back = [i \in 1 .. Len(t) |-> back[i]]
    BY <2>2
  <2> QED BY <2>2, <2>3
<1>4. \A i \in 1 .. Len(s) : u[i] = s[i]
  BY <1>1
<1>5. \A i \in 1 .. Len(t) : u[Len(s) + i] = t[i]
  <2> TAKE i \in 1 .. Len(t)
  <2>1. Len(s) + i \in 1 .. Len(u) /\ ~(Len(s) + i <= Len(s)) /\ (Len(s) + i) - Len(s) = i
    BY <1>1
  <2> QED BY <1>1, <2>1
<1>6. s = [i \in 1 .. Len(s) |-> s[i]] /\ t = [i \in 1 .. Len(t) |-> t[i]]
  OBVIOUS
<1> HIDE DEF front, back
<1>7. front = s
  BY <1>2, <1>4, <1>6
<1>8. back = t
  BY <1>3, <1>5, <1>6
<1> QED BY <1>1, <1>7, <1>8 DEF front, back

LEMMA StepPromised ==
    ASSUME FramingInv, [Next]_vars
    PROVE  [Promise!Next]_<<told, acked>>
<1>1. FramingInv'
  BY StepHolds
<1>2. \A log : Promise!BatchesIn(log) = BatchesIn(log)
  BY DEF Promise!BatchesIn, BatchesIn
<1>3. CASE told' = told /\ acked' = acked
  BY <1>3
<1>4. CASE /\ told' = told \o Whole(lastBatch, writer.n) /\ acked' = acked
           /\ lastBatch \in Batches \ BatchesIn(told) /\ writer.n \in 1 .. MaxSize
  <2>1. Promise!Whole(lastBatch, writer.n) = Whole(lastBatch, writer.n)
    BY DEF Promise!Whole, Whole, Event, Text
  <2>2. Promise!Add
    BY <1>2, <1>4, <2>1 DEF Promise!Add
  <2> QED BY <2>2 DEF Promise!Next
<1>5. CASE /\ told' = told /\ acked' = acked \cup {lastBatch} /\ lastBatch \in BatchesIn(told)
  <2>1. Promise!Acknowledge(lastBatch)
    BY <1>2, <1>5 DEF Promise!Acknowledge
  <2>2. lastBatch \in Batches
    BY DEF FramingInv, BatchInv
  <2> QED BY <2>1, <2>2 DEF Promise!Next
<1>6. CASE acked' = acked /\ TakenBack
  <2>1. PICK lost \in Seq(Lines) : /\ told = told' \o lost
                                   /\ BatchesIn(lost) \cap (acked \cup BatchesIn(told')) = {}
    BY <1>6 DEF TakenBack
  <2>2. told' \in Seq(Lines)
    <3>1. Log(file') /\ told' = Events(file')
      BY <1>1 DEF FramingInv, FilesInv
    <3> QED BY <3>1, EventsAre
  <2>3. /\ Len(told') <= Len(told) /\ SubSeq(told, 1, Len(told')) = told'
        /\ SubSeq(told, Len(told') + 1, Len(told)) = lost
    BY <2>1, <2>2, PartsOf
  <2>4. Promise!Lose
    BY <1>2, <1>6, <2>1, <2>3 DEF Promise!Lose
  <2> QED BY <2>4 DEF Promise!Next
<1> QED BY <1>3, <1>4, <1>5, <1>6, StepHolds

(* The log as text implements the log of batches: readers see each batch as a
   whole and in order, from the newline of its commit marker on, and a power
   loss takes back whole batches from the end, none that was acknowledged. *)
THEOREM PromiseKept == Spec => KeepsPromise
<1>1. Init => Promise!Init
  BY DEF Init, Promise!Init
<1>2. FramingInv /\ [Next]_vars => [Promise!Next]_<<told, acked>>
  BY StepPromised
<1> QED BY <1>1, <1>2, FramingInvariant, PTL DEF Spec, KeepsPromise, Promise!Spec, Promise!vars
=============================================================================
