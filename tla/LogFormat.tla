------------------------------ MODULE LogFormat ------------------------------
(***************************************************************************)
(* The event log as text: lines outside any span are committed events of   *)
(* their own, spans between a begin and a commit marker are committed as a *)
(* whole.  A file is a sequence of lines, of which the last may lack its   *)
(* newline.                                                                *)
(***************************************************************************)
EXTENDS Integers, FiniteSetsExt, SequencesExt

CONSTANTS
    TailWindow,   \* TAIL_WINDOW, in lines
    SearchCap     \* DANGLING_SPAN_SEARCH_CAP, in lines

ASSUME FormatAssumption == TailWindow \in Nat \ {0} /\ SearchCap \in Nat

\* Markers carry their batch and its size n, event lines their batch and place.
\* "torn" is text that is no JSON value, "blank" no text.
Text(kind, b, n) == [kind |-> kind, batch |-> b, n |-> n, ended |-> FALSE]
Ended(line) == [line EXCEPT !.ended = TRUE]
Event(b, i) == Text("event", b, i)
Torn == Text("torn", 0, 0)

Lines == [kind : {"begin", "commit", "event", "torn", "blank"}, batch : Nat, n : Nat,
          ended : BOOLEAN]

\* What a file can be: only the last line may lack its newline.
Log(f) == f \in Seq(Lines) /\ \A i \in 1 .. Len(f) : i < Len(f) => f[i].ended

\* The texts of a span's lines.
Span(b, n) ==
    <<Text("begin", b, n)>> \o [i \in 1 .. n |-> Event(b, i)] \o <<Text("commit", b, n)>>

LastEnded(f) == f # <<>> /\ Last(f).ended

\* Offsets count two for a line, one for its text.
Size(f) == IF f = <<>> \/ LastEnded(f) THEN 2 * Len(f) ELSE 2 * Len(f) - 1
UpTo(f, offset) ==
    [i \in 1 .. (offset + 1) \div 2 |-> [f[i] EXCEPT !.ended = 2 * i <= offset]]
LinesAfter(f, k) == SubSeq(f, k + 1, Len(f))

\* Text that is written after a line without a newline spoils it.
Write(f, text) ==
    IF f = <<>> \/ LastEnded(f) THEN Append(f, text) ELSE [f EXCEPT ![Len(f)] = Torn]
EndLine(f) == [f EXCEPT ![Len(f)] = Ended(@)]

IsMarker(line) == line.kind \in {"begin", "commit"}

-----------------------------------------------------------------------------
(* scan_events: the reference reader.                                      *)

\* `span` is the begin line of the open span, if there is one.
ScanStart == [status |-> "reading", events |-> <<>>, committed |-> 0,
              span |-> <<>>, pending |-> <<>>]

\* Mutant: the events of a span count before it is closed.
EventsAtOnce(scan, line, end) ==
    [scan EXCEPT !.events = Append(@, Event(line.batch, line.n)), !.committed = end]

\* `end` is the offset after the line.
ScanEvent(scan, line, end) ==
    IF scan.span = <<>>
    THEN [scan EXCEPT !.events = Append(@, Event(line.batch, line.n)), !.committed = end]
    ELSE IF Len(scan.pending) < scan.span[1].n
    THEN [scan EXCEPT !.pending = Append(@, Event(line.batch, line.n))]
    ELSE [scan EXCEPT !.status = "error"]

Closes(scan, line) ==
    /\ scan.span # <<>>
    /\ line.batch = scan.span[1].batch
    /\ line.n = scan.span[1].n
    /\ Len(scan.pending) = scan.span[1].n

ScanCommit(scan, line, end) ==
    CASE ~Closes(scan, line) -> [scan EXCEPT !.status = "error"]
      [] Closes(scan, line) /\ ~line.ended -> [scan EXCEPT !.status = "ended"]
      [] OTHER -> [scan EXCEPT !.events = @ \o scan.pending, !.committed = end,
                               !.span = <<>>, !.pending = <<>>]

ScanLine(scan, line, end) ==
    IF scan.status # "reading" THEN scan
    ELSE CASE line.kind = "torn" ->
                 [scan EXCEPT !.status = IF line.ended THEN "error" ELSE "ended"]
           [] line.kind = "blank" ->
                 [scan EXCEPT !.committed = IF scan.span = <<>> THEN end ELSE @]
           [] line.kind = "begin" ->
                 IF scan.span = <<>> THEN [scan EXCEPT !.span = <<line>>]
                 ELSE [scan EXCEPT !.status = "error"]
           [] line.kind = "commit" -> ScanCommit(scan, line, end)
           [] OTHER -> ScanEvent(scan, line, end)

Scan(f) ==
    LET upTo[k \in 0 .. Len(f)] ==
            IF k = 0 THEN ScanStart
            ELSE ScanLine(upTo[k - 1], f[k], IF f[k].ended THEN 2 * k ELSE 2 * k - 1)
    IN  upTo[Len(f)]

Readable(f) == Scan(f).status # "error"

\* What a reader gets from a log it can read.
Events(f) == Scan(f).events

-----------------------------------------------------------------------------
(* The shortcuts: searches backwards from the end, in growing windows.     *)

\* Windows double until they hold the file; here, a window holds whole lines.
Windows(f) ==
    LET doubled[k \in 0 .. Len(f)] == IF k = 0 THEN TailWindow ELSE 2 * doubled[k - 1]
    IN  {IF doubled[k] < Len(f) THEN doubled[k] ELSE Len(f) : k \in 0 .. Len(f)}

InWindow(f, w) == LinesAfter(f, Len(f) - w)

\* A search of a window finds one result, or none: then a larger one is tried.
Decided(f, Search(_)) ==
    Search(Min({w \in Windows(f) : Search(w) # {}}))

\* Whether the window ends with an intact span.
ClosingSpan(f, w) ==
    LET lines == InWindow(f, w)
        commit == Last(lines)
        begin == w - commit.n - 1
    IN  IF ~(commit.ended /\ commit.kind = "commit") THEN {FALSE}
        ELSE IF begin < 1 THEN (IF w = Len(f) THEN {FALSE} ELSE {})
        ELSE {/\ \A i \in begin + 1 .. w - 1 : ~IsMarker(lines[i])
              /\ lines[begin] = Ended(Text("begin", commit.batch, commit.n))}

EndsOnIntactSpan(f) ==
    f # <<>> /\ Decided(f, LAMBDA w : ClosingSpan(f, w)) = {TRUE}

\* Lines that count towards a span's size; a torn last one does not.
Counted(lines) ==
    Cardinality({i \in DOMAIN lines :
        lines[i].kind # "blank" /\ (lines[i].kind = "torn" => lines[i].ended)})

\* Offsets of a span without a commit marker, or one of these.
NoSpan == -1
Malformed == -2

\* Mutant: the last begin marker opens a span, whether or not it is closed.
LastBegin(f, w) ==
    LET begins == {i \in DOMAIN InWindow(f, w) : InWindow(f, w)[i].kind = "begin"}
    IN  IF begins = {}
        THEN (IF w = Len(f) \/ w >= SearchCap THEN {NoSpan} ELSE {})
        ELSE {2 * (Len(f) - w + Max(begins) - 1)}

\* A begin marker is the last marker of the window, and none is before it that
\* is open, too.
OpenSpan(f, w) ==
    LET lines == InWindow(f, w)
        markers == {i \in DOMAIN lines : IsMarker(lines[i])}
        begins == {i \in markers : lines[i].kind = "begin"}
        last == Max(begins)
        before == {i \in markers : i < last}
    IN  IF begins = {}
        THEN (IF w = Len(f) \/ w >= SearchCap THEN {NoSpan} ELSE {})
        ELSE IF before # {} /\ lines[Max(before)].kind = "begin" THEN {NoSpan}
        ELSE IF Max(markers) # last THEN {NoSpan}
        ELSE IF Counted(LinesAfter(lines, last)) > lines[last].n THEN {Malformed}
        ELSE {2 * (Len(f) - w + last - 1)}

DanglingSpanStart(f) ==
    IF f = <<>> THEN NoSpan
    ELSE CHOOSE start \in Decided(f, LAMBDA w : OpenSpan(f, w)) : TRUE

\* The dangling span, if what is before it ends on an intact one.
TrustedDanglingStart(f) ==
    LET start == DanglingSpanStart(f)
    IN  IF start > 0 /\ ~EndsOnIntactSpan(UpTo(f, start)) THEN NoSpan ELSE start

\* committed_len; Malformed if the log cannot be read.
CommittedLen(f) ==
    LET start == TrustedDanglingStart(f)
        scan == Scan(f)
    IN  IF f = <<>> \/ EndsOnIntactSpan(f) THEN Size(f)
        ELSE IF start # NoSpan THEN start
        ELSE IF scan.status # "error" THEN scan.committed
        ELSE Malformed

-----------------------------------------------------------------------------
(* read_events_from_offset.                                                *)

\* The lines from an offset; from the end of the file, none.
Rest(f, offset) == LinesAfter(f, (offset + 1) \div 2)

IsRecordBoundary(offset) == offset % 2 = 0

ReadableFrom(f, offset) ==
    offset >= Size(f) \/ (IsRecordBoundary(offset) /\ Readable(Rest(f, offset)))

EventsFrom(f, offset) == Events(Rest(f, offset))

CommittedFrom(f, offset) == offset + Scan(Rest(f, offset)).committed
=============================================================================
