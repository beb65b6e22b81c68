--------------------------- MODULE ReportDescriptor ---------------------------
(***************************************************************************)
(* ParseReportDescriptor and PostProcessReportSize (driver/WinUHid.c):     *)
(* the sizes of the reports a HID report descriptor describes.  The driver *)
(* checks a client's reports and clamps VHF's against them.                *)
(*                                                                         *)
(* A descriptor is a sequence of bytes.  The parser is a function: its     *)
(* loop is the iteration of ParseItem, at most once for every byte.        *)
(***************************************************************************)
EXTENDS Naturals, Sequences

CONSTANT ULONG_MAX   \* the width of sizes and sums

ASSUME ReportDescriptorAssumption == ULONG_MAX \in Nat /\ ULONG_MAX >= 255

MAX_FRAMES == 32
Kinds == {"input", "output", "feature"}

\* The compiled-in descriptor: a mouse, 5 buttons, 3 bits, X and Y.
VGUN_REPORT_DESCRIPTOR ==
    <<5, 1, 9, 2, 161, 1, 9, 1, 161, 0,
      5, 9, 25, 1, 41, 5, 21, 0, 37, 1, 149, 5, 117, 1, 129, 2,
      149, 1, 117, 3, 129, 3,
      5, 1, 9, 48, 9, 49, 22, 0, 0, 38, 255, 127, 117, 16, 149, 2, 129, 2,
      192, 192>>

\* i is the next byte, frames the stack of globals, sizes the bits of a report.
Start == [status |-> "parsing", i |-> 1, numbered |-> FALSE, sizes |-> <<>>,
          frames |-> <<[ReportId |-> 0, ReportCount |-> 0, ReportSize |-> 0]>>]

SizeOf(sizes, report) == IF report \in DOMAIN sizes THEN sizes[report] ELSE 0
Fails(p, status) == [p EXCEPT !.status = status]
Sets(p, field, n) ==
    [p EXCEPT !.frames[Len(p.frames)] = [@ EXCEPT ![field] = n]]

\* Broken variants: the limit is off by one; an id of 0 is none.
BadFramesFull(p) == Len(p.frames) > MAX_FRAMES
BadNumbers(data) == data # 0

FramesFull(p) == Len(p.frames) = MAX_FRAMES

\* An id, also one of 0, means that every report of the device starts with one.
Numbers(data) == TRUE
SetsId(p, data) == [Sets(p, "ReportId", data) EXCEPT !.numbered = Numbers(data)]

Global(p, tag, data) ==
    CASE tag = 7 -> Sets(p, "ReportSize", data)
      [] tag = 8 -> IF data > 255 THEN Fails(p, "INVALID_PARAMETER")
                    ELSE SetsId(p, data)
      [] tag = 9 -> Sets(p, "ReportCount", data)
      [] tag = 10 -> IF FramesFull(p) THEN Fails(p, "NOT_IMPLEMENTED")
                     ELSE [p EXCEPT !.frames = Append(@, @[Len(@)])]
      [] tag = 11 -> IF Len(p.frames) = 1 THEN Fails(p, "INVALID_PARAMETER")
                     ELSE [p EXCEPT !.frames = SubSeq(@, 1, Len(@) - 1)]
      [] OTHER -> p

KindOf(tag) == CASE tag = 8 -> "input" [] tag = 9 -> "output" [] tag = 11 -> "feature"
                 [] OTHER -> "collection"

\* Broken variant: a report has the bits of its last field.
BadAddTo(p, report, bits) ==
    [p EXCEPT !.sizes = [r \in DOMAIN @ \cup {report} |-> IF r = report THEN bits ELSE @[r]]]

AddTo(p, report, bits) ==
    LET sum == SizeOf(p.sizes, report) + bits IN
    IF sum > ULONG_MAX THEN Fails(p, "INTEGER_OVERFLOW")
    ELSE [p EXCEPT !.sizes = [r \in DOMAIN @ \cup {report} |->
                                IF r = report THEN sum ELSE @[r]]]

\* ULongMult fails for any main item, a collection too.
Main(p, tag) ==
    LET frame == p.frames[Len(p.frames)]
        bits == frame.ReportSize * frame.ReportCount
    IN CASE bits > ULONG_MAX -> Fails(p, "INTEGER_OVERFLOW")
         [] bits <= ULONG_MAX /\ KindOf(tag) \in Kinds ->
              AddTo(p, <<frame.ReportId, KindOf(tag)>>, bits)
         [] OTHER -> p

\* Broken variant: three size bits mean three bytes.
BadShortSize(header) == header % 4
ShortSize(header) == IF header % 4 = 3 THEN 4 ELSE header % 4

DataAt(d, i, size) ==
    LET byte(k) == IF k < size THEN d[i + k] ELSE 0
    IN byte(0) + 256 * (byte(1) + 256 * (byte(2) + 256 * byte(3)))

\* One item: a header, a size and a tag byte if it is long, and its data.
ParseItem(d, p) ==
    LET header == d[p.i]
        long == header \div 16 = 15
        cut == long /\ p.i + 2 > Len(d)
        data == IF long THEN p.i + 3 ELSE p.i + 1
        size == IF long THEN d[p.i + 1] ELSE ShortSize(header)
        tag == IF long THEN d[p.i + 2] ELSE header \div 16
        type == (header \div 4) % 4
        next == [p EXCEPT !.i = data + size]
    IN CASE cut -> Fails(p, "INVALID_PARAMETER")
         [] ~cut /\ data + size - 1 > Len(d) -> Fails(p, "INVALID_PARAMETER")
         [] ~cut /\ data + size - 1 <= Len(d) ->
              CASE size \notin {0, 1, 2, 4} -> next
                [] size \in {0, 1, 2, 4} /\ type = 1 -> Global(next, tag, DataAt(d, data, size))
                [] size \in {0, 1, 2, 4} /\ type = 0 -> Main(next, tag)
                [] OTHER -> next

\* Bits become bytes, with one for the id when reports are numbered.
PostProcessReportSize(bits, numbered) ==
    IF bits = 0 THEN 0
    ELSE (bits \div 8) + (IF bits % 8 = 0 THEN 0 ELSE 1) + (IF numbered THEN 1 ELSE 0)

\* Its result, once the descriptor is read to its end.
Finish(p) ==
    [p EXCEPT !.status = "SUCCESS",
              !.sizes = [r \in DOMAIN @ |-> PostProcessReportSize(@[r], p.numbered)]]

ParseReportDescriptor(d) ==
    LET parsed[n \in 0 .. Len(d)] ==
          IF n = 0 THEN Start
          ELSE LET p == parsed[n - 1] IN
               IF p.status = "parsing" /\ p.i <= Len(d) THEN ParseItem(d, p) ELSE p
        end == parsed[Len(d)]
    IN IF end.status = "parsing" THEN Finish(end) ELSE end
=============================================================================
