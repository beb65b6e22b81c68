-------------------------- MODULE ReportParserProofs --------------------------
(***************************************************************************)
(* What module ReportParser says of the parser's loop, proved for every    *)
(* descriptor: not by induction over its bytes but over the turns.  What   *)
(* the gun's own descriptor comes to is followed item by item.             *)
(***************************************************************************)
EXTENDS ReportParser, SequenceTheorems, TLAPS

USE ReportDescriptorAssumption

-----------------------------------------------------------------------------
(* The inductive invariant: the shape of the parser's state, and that no    *)
(* level of the stack has an id as long as reports are not numbered.        *)

Sizes == UNION {[R -> 0 .. ULONG_MAX] : R \in SUBSET Reports}
Stacks == {s \in Seq(Frame) : 1 <= Len(s) /\ Len(s) <= MAX_FRAMES}

ParseState(d) ==
    [status : Statuses, i : 1 .. Len(d) + 1, numbered : BOOLEAN, sizes : Sizes, frames : Stacks]

NoIds(p) ==
    ~p.numbered => /\ \A k \in 1 .. Len(p.frames) : p.frames[k].ReportId = 0
                   /\ \A r \in DOMAIN p.sizes : r[1] = 0

Good(d, p) == p \in ParseState(d) /\ NoIds(p)

ParserInv == descriptor \in Descriptors /\ Good(descriptor, parse)

\* No report of p has fewer bits in q.
Grows(p, q) == \A r \in DOMAIN p.sizes : SizeOf(q.sizes, r) >= p.sizes[r]

\* What is done with an item once it is read: the parser stays where it is.
Handled(d, p, q) == Good(d, q) /\ Grows(p, q) /\ q.i = p.i

-----------------------------------------------------------------------------
(* The operators of the parser. *)

LEMMA SizesAre ==
  /\ \A s \in Sizes : DOMAIN s \subseteq Reports /\ \A r \in DOMAIN s : s[r] \in 0 .. ULONG_MAX
  /\ \A R \in SUBSET Reports : \A s \in [R -> 0 .. ULONG_MAX] : s \in Sizes
  BY DEF Sizes

LEMMA StatesAre ==
  ASSUME NEW d, NEW p \in ParseState(d)
  PROVE  /\ p.status \in Statuses /\ p.i \in 1 .. Len(d) + 1 /\ p.numbered \in BOOLEAN
         /\ p.sizes \in Sizes /\ p.frames \in Stacks
  BY DEF ParseState

\* The current frame is one of 32.
LEMMA CurrentFrame ==
  ASSUME NEW d, NEW p, Good(d, p)
  PROVE  /\ Len(p.frames) \in Nat /\ 1 <= Len(p.frames) /\ Len(p.frames) <= 32
         /\ p.frames \in Seq(Frame) /\ p.frames[Len(p.frames)] \in Frame
         /\ \A k \in 1 .. Len(p.frames) : p.frames[k] \in Frame
<1>1. p.frames \in Seq(Frame)
  BY StatesAre DEF Good, Stacks
<1>2. Len(p.frames) \in Nat /\ 1 <= Len(p.frames) /\ Len(p.frames) <= 32
  BY <1>1, StatesAre, LenProperties DEF Good, Stacks, MAX_FRAMES
<1>3. \A k \in 1 .. Len(p.frames) : p.frames[k] \in Frame
  BY <1>1, ElementOfSeq
<1>4. Len(p.frames) \in 1 .. Len(p.frames)
  BY <1>2
<1> QED
  BY <1>1, <1>2, <1>3, <1>4, Zenon

LEMMA StacksAre ==
  ASSUME NEW s \in Seq(Frame), 1 <= Len(s), Len(s) <= 32
  PROVE  s \in Stacks
  BY DEF Stacks, MAX_FRAMES

LEMMA StartGood == ASSUME NEW d \in Seq(0 .. 255) PROVE Good(d, Start)
<1>1. Start.frames \in Stacks
  BY DEF Start, Stacks, Frame, MAX_FRAMES
<1>2. Start.sizes = << >> /\ << >> \in [{} -> 0 .. ULONG_MAX]
  BY DEF Start
<1>3. Start.sizes \in Sizes
  BY <1>2, SizesAre
<1>4. Start \in ParseState(d)
  BY <1>1, <1>3 DEF Start, ParseState, Statuses
<1>5. NoIds(Start)
  BY <1>2 DEF Start, NoIds
<1> QED
  BY <1>4, <1>5 DEF Good

LEMMA FailsHandles ==
  ASSUME NEW d, NEW p, Good(d, p), NEW status \in Statuses
  PROVE  Handled(d, p, Fails(p, status)) /\ Fails(p, status).status = status
<1>1. Fails(p, status) \in ParseState(d)
  BY DEF Good, ParseState, Fails
<1>2. /\ Fails(p, status).status = status /\ Fails(p, status).sizes = p.sizes
      /\ Fails(p, status).frames = p.frames /\ Fails(p, status).i = p.i
      /\ Fails(p, status).numbered = p.numbered
  BY DEF Good, ParseState, Fails
<1>3. Grows(p, Fails(p, status))
  BY <1>2, StatesAre, SizesAre DEF Good, Grows, SizeOf
<1> QED
  BY <1>1, <1>2, <1>3 DEF Handled, Good, NoIds

\* A global is set in the current frame only.
LEMMA SetsHandles ==
  ASSUME NEW d, NEW p, Good(d, p), NEW n \in Nat,
         NEW field \in {"ReportSize", "ReportCount", "ReportId"},
         field = "ReportId" => n <= 255 /\ p.numbered
  PROVE  Handled(d, p, Sets(p, field, n))
<1> DEFINE q == Sets(p, field, n)
           L == Len(p.frames)
<1>1. p.frames \in Seq(Frame) /\ L \in Nat /\ 1 <= L /\ L <= 32 /\ p.frames[L] \in Frame
  BY CurrentFrame
<1>2. /\ q = [p EXCEPT !.frames = [p.frames EXCEPT ![L] = [p.frames[L] EXCEPT ![field] = n]]]
  BY DEF Good, ParseState, Sets
<1>3. [p.frames[L] EXCEPT ![field] = n] \in Frame
  <2>1. CASE field = "ReportSize"
    BY <1>1, <2>1 DEF Frame
  <2>2. CASE field = "ReportCount"
    BY <1>1, <2>2 DEF Frame
  <2>3. CASE field = "ReportId"
    <3>1. n \in 0 .. 255
      BY <2>3
    <3> QED BY <1>1, <2>3, <3>1 DEF Frame
  <2> QED BY <2>1, <2>2, <2>3
<1>4. q.frames = [p.frames EXCEPT ![L] = [p.frames[L] EXCEPT ![field] = n]]
  BY <1>2 DEF Good, ParseState
<1>5. q.frames \in Seq(Frame) /\ Len(q.frames) = L
  BY <1>1, <1>3, <1>4
<1>6. q \in ParseState(d) /\ q.sizes = p.sizes /\ q.i = p.i /\ q.numbered = p.numbered
  BY <1>1, <1>2, <1>4, <1>5, StacksAre DEF Good, ParseState
<1>7. NoIds(q)
  <2>1. SUFFICES ASSUME ~p.numbered, NEW k \in 1 .. L PROVE q.frames[k].ReportId = 0
    BY <1>5, <1>6 DEF Good, NoIds
  <2>2. p.frames[k].ReportId = 0 /\ field # "ReportId"
    BY <2>1 DEF Good, NoIds
  <2> QED BY <1>1, <1>4, <2>2 DEF Frame
<1>8. Grows(p, q)
  BY <1>6, StatesAre, SizesAre DEF Good, Grows, SizeOf
<1> QED
  BY <1>6, <1>7, <1>8 DEF Handled, Good

\* An id counts for the current frame, and numbers the reports from then on.
LEMMA IdHandles ==
  ASSUME NEW d, NEW p, Good(d, p), NEW n \in 0 .. 255
  PROVE  Handled(d, p, SetsId(p, n))
<1> DEFINE p1 == [p EXCEPT !.numbered = TRUE]
           q == SetsId(p, n)
<1>1. /\ p1 \in ParseState(d) /\ p1.numbered /\ p1.i = p.i
      /\ p1.sizes = p.sizes /\ p1.frames = p.frames
  BY DEF Good, ParseState
<1>2. Good(d, p1)
  BY <1>1 DEF Good, NoIds
<1>3. Handled(d, p1, Sets(p1, "ReportId", n))
  <2>1. n \in Nat /\ n <= 255
    OBVIOUS
  <2> QED BY <1>1, <1>2, <2>1, SetsHandles
<1>4. q = Sets(p1, "ReportId", n)
  BY <1>1 DEF Good, ParseState, Sets, SetsId, Numbers
<1> QED
  BY <1>1, <1>3, <1>4 DEF Handled, Grows

\* A pushed frame is a copy of the current one.
LEMMA PushHandles ==
  ASSUME NEW d, NEW p, Good(d, p), ~FramesFull(p)
  PROVE  Handled(d, p, [p EXCEPT !.frames = Append(@, @[Len(@)])])
<1> DEFINE L == Len(p.frames)
           f == Append(p.frames, p.frames[L])
           q == [p EXCEPT !.frames = f]
<1>0. p.frames \in Seq(Frame) /\ L \in Nat /\ 1 <= L /\ L <= 31
  <2>1. L \in Nat /\ 1 <= L /\ L <= 32 /\ L # 32
    BY CurrentFrame, Zenon DEF FramesFull, MAX_FRAMES
  <2> HIDE DEF L
  <2>2. L <= 31
    BY <2>1
  <2> QED BY <2>1, <2>2, CurrentFrame
<1>1. p.frames[L] \in Frame
  BY CurrentFrame
<1>2. /\ f \in Seq(Frame) /\ Len(f) = L + 1
      /\ \A k \in 1 .. L : f[k] = p.frames[k]
      /\ f[L + 1] = p.frames[L]
  BY <1>0, <1>1
<1>3. f \in Stacks
  <2>1. 1 <= L + 1 /\ L + 1 <= 32
    <3> HIDE DEF L
    <3> QED BY <1>0
  <2> QED BY <1>2, <2>1, StacksAre, Zenon
<1>4. /\ q \in ParseState(d) /\ q.frames = f /\ q.sizes = p.sizes
      /\ q.i = p.i /\ q.numbered = p.numbered
  BY <1>3 DEF Good, ParseState
<1>5. NoIds(q)
  BY <1>0, <1>2, <1>4 DEF Good, NoIds
<1>6. Grows(p, q)
  BY <1>4, StatesAre, SizesAre DEF Good, Grows, SizeOf
<1> QED
  BY <1>4, <1>5, <1>6 DEF Handled, Good

LEMMA PopHandles ==
  ASSUME NEW d, NEW p, Good(d, p), Len(p.frames) # 1
  PROVE  Handled(d, p, [p EXCEPT !.frames = SubSeq(@, 1, Len(@) - 1)])
<1> DEFINE L == Len(p.frames)
           f == SubSeq(p.frames, 1, L - 1)
           q == [p EXCEPT !.frames = f]
<1>0. p.frames \in Seq(Frame) /\ L \in Nat /\ 2 <= L /\ L <= 32
  <2>1. L \in Nat /\ 1 <= L /\ L <= 32 /\ L # 1
    BY CurrentFrame, Zenon
  <2> HIDE DEF L
  <2>2. 2 <= L
    BY <2>1
  <2> QED BY <2>1, <2>2, CurrentFrame
<1>1. \A k \in 1 .. L - 1 : p.frames[k] \in Frame
  BY <1>0, CurrentFrame
<1>2. f \in Seq(Frame) /\ Len(f) = L - 1 /\ \A k \in 1 .. L - 1 : f[k] = p.frames[k]
  <2>1. /\ Len(f) = IF 1 <= L - 1 THEN L - 1 - 1 + 1 ELSE 0
        /\ f \in Seq(Frame) /\ \A k \in 1 .. L - 1 - 1 + 1 : f[k] = p.frames[1 + k - 1]
    BY <1>0, <1>1, SubSeqProperties
  <2> QED BY <1>0, <2>1
<1>3. f \in Stacks
  <2>1. 1 <= L - 1 /\ L - 1 <= 32
    <3> HIDE DEF L
    <3> QED BY <1>0
  <2> QED BY <1>2, <2>1, StacksAre, Zenon
<1>4. /\ q \in ParseState(d) /\ q.frames = f /\ q.sizes = p.sizes
      /\ q.i = p.i /\ q.numbered = p.numbered
  BY <1>3 DEF Good, ParseState
<1>5. NoIds(q)
  BY <1>0, <1>2, <1>4 DEF Good, NoIds
<1>6. Grows(p, q)
  BY <1>4, StatesAre, SizesAre DEF Good, Grows, SizeOf
<1> QED
  BY <1>4, <1>5, <1>6 DEF Handled, Good

LEMMA SameHandles == ASSUME NEW d, NEW p, Good(d, p) PROVE Handled(d, p, p)
  BY StatesAre, SizesAre DEF Good, Handled, Grows, SizeOf

LEMMA GlobalHandles ==
  ASSUME NEW d, NEW p, Good(d, p), NEW tag, NEW data \in Nat
  PROVE  Handled(d, p, Global(p, tag, data))
<1>1. CASE tag = 7
  BY <1>1, SetsHandles DEF Global
<1>2. CASE tag = 8
  <2>1. CASE data > 255
    <3>1. Global(p, tag, data) = Fails(p, "INVALID_PARAMETER")
      BY <1>2, <2>1 DEF Global
    <3> QED BY <3>1, FailsHandles DEF Statuses
  <2>2. CASE ~(data > 255)
    <3>1. data \in 0 .. 255
      BY <2>2
    <3>2. Global(p, tag, data) = SetsId(p, data)
      BY <1>2, <2>2 DEF Global
    <3> QED BY <3>1, <3>2, IdHandles
  <2> QED BY <2>1, <2>2
<1>3. CASE tag = 9
  BY <1>3, SetsHandles DEF Global
<1>4. CASE tag = 10
  BY <1>4, PushHandles, FailsHandles DEF Global, Statuses
<1>5. CASE tag = 11
  BY <1>5, PopHandles, FailsHandles DEF Global, Statuses
<1>6. CASE tag \notin {7, 8, 9, 10, 11}
  BY <1>6, SameHandles DEF Global
<1> QED
  BY <1>1, <1>2, <1>3, <1>4, <1>5, <1>6

\* A sum that fits is the new size of one report, and no other size changes.
LEMMA AddHandles ==
  ASSUME NEW d, NEW p, Good(d, p), NEW report \in Reports, NEW bits \in Nat,
         ~p.numbered => report[1] = 0
  PROVE  Handled(d, p, AddTo(p, report, bits))
<1> DEFINE sum == SizeOf(p.sizes, report) + bits
           R == DOMAIN p.sizes \cup {report}
           f == [r \in R |-> IF r = report THEN sum ELSE p.sizes[r]]
           q == [p EXCEPT !.sizes = f]
<1>1. /\ DOMAIN p.sizes \subseteq Reports
      /\ \A r \in DOMAIN p.sizes : p.sizes[r] \in 0 .. ULONG_MAX
  BY StatesAre, SizesAre DEF Good
<1>2. SizeOf(p.sizes, report) \in Nat
  BY <1>1 DEF SizeOf
<1>3. CASE sum > ULONG_MAX
  BY <1>3, FailsHandles DEF AddTo, Statuses
<1>4. CASE ~(sum > ULONG_MAX)
  <2>1. sum \in 0 .. ULONG_MAX
    BY <1>2, <1>4
  <2>2. R \in SUBSET Reports
    BY <1>1
  <2>3. f \in [R -> 0 .. ULONG_MAX]
    BY <1>1, <2>1
  <2>4. f \in Sizes
    BY <2>2, <2>3, SizesAre
  <2>5. /\ q \in ParseState(d) /\ q.sizes = f /\ q.frames = p.frames
        /\ q.i = p.i /\ q.numbered = p.numbered
    BY <2>4 DEF Good, ParseState
  <2>6. NoIds(q)
    <3>1. \A r \in DOMAIN q.sizes : r \in DOMAIN p.sizes \/ r = report
      BY <2>5
    <3> QED BY <2>5, <3>1 DEF Good, NoIds
  <2>7. ASSUME NEW r \in DOMAIN p.sizes PROVE SizeOf(q.sizes, r) >= p.sizes[r]
    <3>1. SizeOf(q.sizes, r) = IF r = report THEN sum ELSE p.sizes[r]
      BY <2>5 DEF SizeOf
    <3>2. p.sizes[r] \in Nat /\ (r = report => SizeOf(p.sizes, report) = p.sizes[r])
      BY <1>1 DEF SizeOf
    <3> QED BY <3>1, <3>2, <2>1
  <2>8. AddTo(p, report, bits) = q
    BY <1>4 DEF AddTo
  <2> QED BY <2>5, <2>6, <2>7, <2>8 DEF Handled, Good, Grows
<1> QED
  BY <1>3, <1>4

LEMMA Products == \A m, n \in Nat : m * n \in Nat
  OBVIOUS

LEMMA MainHandles ==
  ASSUME NEW d, NEW p, Good(d, p), NEW tag
  PROVE  Handled(d, p, Main(p, tag))
<1> DEFINE frame == p.frames[Len(p.frames)]
           bits == frame.ReportSize * frame.ReportCount
           report == <<frame.ReportId, KindOf(tag)>>
<1>1. frame \in Frame
  BY CurrentFrame
<1>2. frame.ReportId \in 0 .. 255 /\ frame.ReportSize \in Nat /\ frame.ReportCount \in Nat
  BY <1>1 DEF Frame
<1>3. bits \in Nat
  BY <1>2, Products
<1>4. ~p.numbered => frame.ReportId = 0
  <2>1. Len(p.frames) \in 1 .. Len(p.frames)
    BY CurrentFrame
  <2> QED BY <2>1 DEF Good, NoIds
<1>5. CASE bits > ULONG_MAX
  <2>1. Main(p, tag) = Fails(p, "INTEGER_OVERFLOW")
    BY <1>3, <1>5 DEF Main
  <2> QED BY <2>1, FailsHandles DEF Statuses
<1>6. CASE bits <= ULONG_MAX /\ KindOf(tag) \in Kinds
  <2>1. Main(p, tag) = AddTo(p, report, bits)
    BY <1>3, <1>6 DEF Main
  <2>2. report \in Reports /\ (~p.numbered => report[1] = 0)
    BY <1>2, <1>4, <1>6 DEF Reports
  <2> QED BY <1>3, <2>1, <2>2, AddHandles
<1>7. CASE bits <= ULONG_MAX /\ KindOf(tag) \notin Kinds
  <2>1. Main(p, tag) = p
    BY <1>3, <1>7 DEF Main
  <2> QED BY <2>1, SameHandles
<1> QED
  BY <1>3, <1>5, <1>6, <1>7

\* Data is made of bytes of the descriptor.
LEMMA DataNat ==
  ASSUME NEW d \in Seq(0 .. 255), NEW i \in Nat, 1 <= i, NEW size \in {0, 1, 2, 4},
         i + size - 1 <= Len(d)
  PROVE  DataAt(d, i, size) \in Nat
<1> DEFINE byte(k) == IF k < size THEN d[i + k] ELSE 0
<1>1. ASSUME NEW k \in {0, 1, 2, 3} PROVE byte(k) \in Nat
  <2>1. CASE k < size
    <3> DEFINE L == Len(d)
    <3>1. L \in Nat /\ i + size - 1 <= L
      BY LenProperties
    <3> HIDE DEF L
    <3>2. i + k \in 1 .. L
      BY <2>1, <3>1
    <3>3. d[i + k] \in 0 .. 255
      BY <3>2, ElementOfSeq DEF L
    <3>4. byte(k) = d[i + k]
      BY <2>1
    <3>5. \A b \in 0 .. 255 : b \in Nat
      OBVIOUS
    <3> QED BY <3>3, <3>4, <3>5, Zenon
  <2> QED BY <2>1
<1>2. byte(0) \in Nat /\ byte(1) \in Nat /\ byte(2) \in Nat /\ byte(3) \in Nat
  BY <1>1
<1>3. DataAt(d, i, size) = byte(0) + 256 * (byte(1) + 256 * (byte(2) + 256 * byte(3)))
  BY DEF DataAt
<1> HIDE DEF byte
<1> QED
  BY <1>2, <1>3

\* What one turn of the loop does, wherever in the descriptor it begins.
LEMMA ItemMoves ==
  ASSUME NEW d \in Seq(0 .. 255), NEW p, Good(d, p), p.i <= Len(d)
  PROVE  LET q == ParseItem(d, p) IN
         Good(d, q) /\ Grows(p, q) /\ (q.status = "parsing" => q.i > p.i)
<1> DEFINE L == Len(d)
           header == d[p.i]
           long == header \div 16 = 15
           cut == long /\ p.i + 2 > L
           data == IF long THEN p.i + 3 ELSE p.i + 1
           size == IF long THEN d[p.i + 1] ELSE ShortSize(header)
           tag == IF long THEN d[p.i + 2] ELSE header \div 16
           type == (header \div 4) % 4
           next == [p EXCEPT !.i = data + size]
           q == ParseItem(d, p)
<1>1. L \in Nat /\ p.i \in Nat /\ 1 <= p.i /\ p.i <= L
  <2>1. L \in Nat /\ p.i \in 1 .. L + 1
    BY StatesAre, LenProperties, Zenon DEF Good
  <2> HIDE DEF L
  <2>2. p.i \in Nat /\ 1 <= p.i
    BY <2>1
  <2> QED BY <2>1, <2>2 DEF L
<1>2. \A k \in 1 .. L : d[k] \in 0 .. 255
  BY ElementOfSeq
<1>3. CASE cut
  <2>1. q = Fails(p, "INVALID_PARAMETER")
    BY <1>3 DEF ParseItem
  <2> QED BY <2>1, FailsHandles DEF Handled, Statuses
<1>4. CASE ~cut
  <2>1. size \in Nat /\ data \in Nat /\ data > p.i
    <3> HIDE DEF L
    <3>1. p.i \in 1 .. L
      BY <1>1
    <3>2. header \in 0 .. 255
      BY <1>2, <3>1
    <3>3. ShortSize(header) \in Nat
      <4> HIDE DEF header
      <4> QED BY <3>2 DEF ShortSize
    <3>4. CASE long
      <4>1. p.i + 1 \in 1 .. L
        BY <1>1, <1>4, <3>4
      <4>2. d[p.i + 1] \in 0 .. 255
        BY <1>2, <4>1
      <4>3. size \in Nat /\ data = p.i + 3
        <5>1. \A b \in 0 .. 255 : b \in Nat
          OBVIOUS
        <5> QED BY <3>4, <4>2, <5>1, Zenon
      <4> HIDE DEF size, data
      <4> QED BY <1>1, <4>3
    <3>5. CASE ~long
      <4>3. size \in Nat /\ data = p.i + 1
        BY <3>3, <3>5
      <4> HIDE DEF size, data
      <4> QED BY <1>1, <4>3
    <3> QED BY <3>4, <3>5
  <2> HIDE DEF size, data, tag, type, long, cut
  <2>2. CASE data + size - 1 > L
    <3>0. ~(data + size - 1 <= L)
      <4> HIDE DEF L
      <4> QED BY <1>1, <2>1, <2>2
    <3>1. q = Fails(p, "INVALID_PARAMETER")
      BY <1>4, <2>2, <3>0 DEF ParseItem, size, data, tag, type, long, cut
    <3> QED BY <3>1, FailsHandles DEF Handled, Statuses
  <2>3. CASE data + size - 1 <= L
    <3>1. data + size \in 1 .. L + 1 /\ data + size > p.i
      <4> HIDE DEF L
      <4> QED BY <1>1, <2>1, <2>3
    <3>2. /\ next \in ParseState(d) /\ next.i = data + size /\ next.sizes = p.sizes
          /\ next.frames = p.frames /\ next.numbered = p.numbered
      BY <3>1 DEF Good, ParseState
    <3>3. Good(d, next) /\ Grows(p, next)
      BY <3>2, StatesAre, SizesAre DEF Good, NoIds, Grows, SizeOf
    <3>4. \/ q = next
          \/ size \in {0, 1, 2, 4} /\ q = Global(next, tag, DataAt(d, data, size))
          \/ q = Main(next, tag)
      BY <1>4, <2>3 DEF ParseItem, size, data, tag, type, long, cut
    <3>5. Handled(d, next, q)
      <4>1. CASE q = next
        BY <4>1, <3>3, SameHandles
      <4>2. CASE size \in {0, 1, 2, 4} /\ q = Global(next, tag, DataAt(d, data, size))
        <5>1. DataAt(d, data, size) \in Nat
          <6>1. 1 <= data
            BY <1>1, <2>1
          <6> QED BY <2>1, <2>3, <4>2, <6>1, DataNat
        <5> QED BY <3>3, <4>2, <5>1, GlobalHandles
      <4>3. CASE q = Main(next, tag)
        BY <3>3, <4>3, MainHandles
      <4> QED BY <3>4, <4>1, <4>2, <4>3
    <3>6. Grows(p, q)
      BY <3>2, <3>5 DEF Handled, Grows
    <3> QED BY <3>1, <3>2, <3>5, <3>6 DEF Handled
  <2>4. data + size - 1 \in Int /\ L \in Int
    BY <1>1, <2>1
  <2> QED BY <2>2, <2>3, <2>4
<1> QED
  BY <1>3, <1>4

\* Bits rounded up to bytes, and a byte for the id, still fit.
LEMMA BytesFit ==
  ASSUME NEW bits \in 0 .. ULONG_MAX, NEW numbered \in BOOLEAN
  PROVE  PostProcessReportSize(bits, numbered) \in 0 .. ULONG_MAX
<1>1. CASE bits = 0
  BY <1>1 DEF PostProcessReportSize
<1>2. CASE bits # 0
  <2>1. bits \div 8 \in Nat /\ (bits \div 8) + 2 <= ULONG_MAX
    BY <1>2
  <2> DEFINE rest == IF bits % 8 = 0 THEN 0 ELSE 1
             id == IF numbered THEN 1 ELSE 0
  <2>2. rest \in {0, 1} /\ id \in {0, 1}
    OBVIOUS
  <2>3. PostProcessReportSize(bits, numbered) = (bits \div 8) + rest + id
    BY <1>2 DEF PostProcessReportSize
  <2> HIDE DEF rest, id
  <2> QED BY <2>1, <2>2, <2>3
<1> QED
  BY <1>1, <1>2

LEMMA FinishGood ==
  ASSUME NEW d, NEW p, Good(d, p)
  PROVE  Good(d, Finish(p)) /\ Finish(p).status = "SUCCESS"
<1> DEFINE f == [r \in DOMAIN p.sizes |-> PostProcessReportSize(p.sizes[r], p.numbered)]
           q == [p EXCEPT !.status = "SUCCESS", !.sizes = f]
<1>1. Finish(p) = q
  BY DEF Good, ParseState, Finish
<1>2. DOMAIN p.sizes \in SUBSET Reports /\ \A r \in DOMAIN p.sizes : p.sizes[r] \in 0 .. ULONG_MAX
  BY StatesAre, SizesAre DEF Good
<1>3. p.numbered \in BOOLEAN
  BY StatesAre DEF Good
<1>4. f \in [DOMAIN p.sizes -> 0 .. ULONG_MAX]
  BY <1>2, <1>3, BytesFit
<1>5. f \in Sizes
  BY <1>2, <1>4, SizesAre
<1>6. /\ q \in ParseState(d) /\ q.sizes = f /\ q.frames = p.frames
      /\ q.numbered = p.numbered /\ q.status = "SUCCESS"
  BY <1>5 DEF Good, ParseState, Statuses
<1>7. NoIds(q)
  BY <1>6 DEF Good, NoIds
<1> QED
  BY <1>1, <1>6, <1>7 DEF Good

-----------------------------------------------------------------------------
(* The gun's own descriptor, item by item.                                  *)

Gun == VGUN_REPORT_DESCRIPTOR
Fire == <<0, "input">>

Globals(n, s) == [ReportId |-> 0, ReportCount |-> n, ReportSize |-> s]

\* Before byte i of it: n fields of s bits are in force, and b bits were found.
GunAt(p, i, n, s, b) ==
    /\ p.status = "parsing" /\ p.i = i /\ p.numbered = FALSE
    /\ p.frames = <<Globals(n, s)>>
    /\ DOMAIN p.sizes = IF b = 0 THEN {} ELSE {Fire}
    /\ b # 0 => p.sizes[Fire] = b

LEMMA GunBytes ==
  /\ Len(Gun) = 52 /\ Gun[1] = 5 /\ Gun[2] = 1 /\ Gun[3] = 9 /\ Gun[4] = 2
  /\ Gun[5] = 161 /\ Gun[6] = 1 /\ Gun[7] = 9 /\ Gun[8] = 1 /\ Gun[9] = 161
  /\ Gun[10] = 0 /\ Gun[11] = 5 /\ Gun[12] = 9 /\ Gun[13] = 25 /\ Gun[14] = 1
  /\ Gun[15] = 41 /\ Gun[16] = 5 /\ Gun[17] = 21 /\ Gun[18] = 0
  /\ Gun[19] = 37 /\ Gun[20] = 1 /\ Gun[21] = 149 /\ Gun[22] = 5
  /\ Gun[23] = 117 /\ Gun[24] = 1 /\ Gun[25] = 129 /\ Gun[26] = 2
  /\ Gun[27] = 149 /\ Gun[28] = 1 /\ Gun[29] = 117 /\ Gun[30] = 3
  /\ Gun[31] = 129 /\ Gun[32] = 3 /\ Gun[33] = 5 /\ Gun[34] = 1 /\ Gun[35] = 9
  /\ Gun[36] = 48 /\ Gun[37] = 9 /\ Gun[38] = 49 /\ Gun[39] = 22
  /\ Gun[40] = 0 /\ Gun[41] = 0 /\ Gun[42] = 38 /\ Gun[43] = 255
  /\ Gun[44] = 127 /\ Gun[45] = 117 /\ Gun[46] = 16 /\ Gun[47] = 149
  /\ Gun[48] = 2 /\ Gun[49] = 129 /\ Gun[50] = 2 /\ Gun[51] = 192
  /\ Gun[52] = 192
  BY DEF Gun, VGUN_REPORT_DESCRIPTOR

LEMMA GunIsBytes == Gun \in Seq(0 .. 255)
  BY DEF Gun, VGUN_REPORT_DESCRIPTOR

\* A short item is read to its end and then looked at.
After(p, j) == [p EXCEPT !.i = j]

Handle(next, h, data) ==
    CASE (h \div 4) % 4 = 1 -> Global(next, h \div 16, data)
      [] (h \div 4) % 4 = 0 -> Main(next, h \div 16)
      [] OTHER -> next

LEMMA ShortItem ==
  ASSUME NEW p, NEW i \in 1 .. 52, p.i = i, NEW h \in 0 .. 239, Gun[i] = h,
         NEW size \in {0, 1, 2}, h % 4 = size, i + size <= 52
  PROVE  ParseItem(Gun, p) = Handle(After(p, i + 1 + size), h, DataAt(Gun, i + 1, size))
<1>1. h \div 16 # 15 /\ ShortSize(h) = size /\ i + 1 + size - 1 <= 52
  BY DEF ShortSize
<1>2. Len(Gun) = 52
  BY GunBytes
<1> QED
  BY <1>1, <1>2 DEF ParseItem, Handle, After

LEMMA GunNext ==
  ASSUME NEW p, Good(Gun, p), NEW i, NEW n, NEW s, NEW b, GunAt(p, i, n, s, b),
         NEW j \in 1 .. 53
  PROVE  Good(Gun, After(p, j)) /\ GunAt(After(p, j), j, n, s, b)
<1>1. j \in 1 .. Len(Gun) + 1
  BY GunBytes
<1> QED
  BY <1>1 DEF Good, ParseState, NoIds, GunAt, After

\* Usages, ranges and the other globals say nothing of a report's size.
LEMMA GunQuiet ==
  ASSUME NEW p, Good(Gun, p), NEW i \in 1 .. 52, NEW n, NEW s, NEW b, GunAt(p, i, n, s, b),
         NEW h \in {5, 9, 21, 22, 25, 37, 38, 41}, Gun[i] = h,
         NEW size \in {1, 2}, h % 4 = size, i + size <= 52
  PROVE  GunAt(ParseItem(Gun, p), i + 1 + size, n, s, b)
<1> DEFINE next == After(p, i + 1 + size)
<1>1. size \in {0, 1, 2} /\ h \in 0 .. 239 /\ i + 1 + size \in 1 .. 53
  OBVIOUS
<1>2. GunAt(next, i + 1 + size, n, s, b)
  BY <1>1, GunNext
<1>3. (h \div 4) % 4 # 0 /\ h \div 16 \in {0, 1, 2}
  OBVIOUS
<1>4. ParseItem(Gun, p) = Handle(next, h, DataAt(Gun, i + 1, size))
  <2>1. p.i = i
    BY DEF GunAt
  <2> QED BY <1>1, <2>1, ShortItem
<1> HIDE DEF next
<1>5. ParseItem(Gun, p) = next
  BY <1>3, <1>4 DEF Handle, Global
<1> QED
  BY <1>2, <1>5

\* A count or a size of one byte.
LEMMA GunSets ==
  ASSUME NEW p, Good(Gun, p), NEW i \in 1 .. 51, NEW n, NEW s, NEW b, GunAt(p, i, n, s, b),
         Gun[i + 1] \in 0 .. 255
  PROVE  /\ Gun[i] = 149 => GunAt(ParseItem(Gun, p), i + 2, Gun[i + 1], s, b)
         /\ Gun[i] = 117 => GunAt(ParseItem(Gun, p), i + 2, n, Gun[i + 1], b)
<1> DEFINE next == After(p, i + 2)
           v == Gun[i + 1]
<1>1. i \in 1 .. 52 /\ i + 2 \in 1 .. 53 /\ i + 1 <= 52 /\ i + 1 + 1 = i + 2 /\ p.i = i
  BY DEF GunAt
<1>2. Good(Gun, next) /\ GunAt(next, i + 2, n, s, b)
  BY <1>1, GunNext
<1>3. DataAt(Gun, i + 1, 1) = v
  BY DEF DataAt
<1>4. ASSUME NEW h \in {149, 117}, Gun[i] = h PROVE ParseItem(Gun, p) = Handle(next, h, v)
  <2>1. h \in 0 .. 239 /\ h % 4 = 1 /\ 1 \in {0, 1, 2}
    BY <1>4
  <2>2. ParseItem(Gun, p) = Handle(After(p, i + 1 + 1), h, DataAt(Gun, i + 1, 1))
    BY <1>1, <1>4, <2>1, ShortItem
  <2> QED BY <1>1, <1>3, <2>2
<1> HIDE DEF next, v
<1>5. next.frames = <<Globals(n, s)>> /\ Len(next.frames) = 1
  BY <1>2 DEF GunAt
<1>6. ASSUME Gun[i] = 149 PROVE GunAt(ParseItem(Gun, p), i + 2, v, s, b)
  <2>1. ParseItem(Gun, p) = Sets(next, "ReportCount", v)
    BY <1>4, <1>6 DEF Handle, Global
  <2>2. [Globals(n, s) EXCEPT !["ReportCount"] = v] = Globals(v, s)
    BY DEF Globals
  <2>3. Sets(next, "ReportCount", v) = [next EXCEPT !.frames = <<Globals(v, s)>>]
    BY <1>2, <1>5, <2>2 DEF Sets, Good, ParseState
  <2> QED BY <1>2, <2>1, <2>3 DEF GunAt, Good, ParseState
<1>7. ASSUME Gun[i] = 117 PROVE GunAt(ParseItem(Gun, p), i + 2, n, v, b)
  <2>1. ParseItem(Gun, p) = Sets(next, "ReportSize", v)
    BY <1>4, <1>7 DEF Handle, Global
  <2>2. [Globals(n, s) EXCEPT !["ReportSize"] = v] = Globals(n, v)
    BY DEF Globals
  <2>3. Sets(next, "ReportSize", v) = [next EXCEPT !.frames = <<Globals(n, v)>>]
    BY <1>2, <1>5, <2>2 DEF Sets, Good, ParseState
  <2> QED BY <1>2, <2>1, <2>3 DEF GunAt, Good, ParseState
<1> QED
  BY <1>6, <1>7 DEF v

\* A main item adds the bits in force, if it is one of a report.
LEMMA GunMain ==
  ASSUME NEW p, Good(Gun, p), NEW i, NEW n \in Nat, NEW s \in Nat, NEW b \in Nat,
         GunAt(p, i, n, s, b), NEW more \in 0 .. 32, s * n = more
  PROVE  /\ Main(p, 10) = p /\ Main(p, 12) = p
         /\ more # 0 /\ b <= 8 => GunAt(Main(p, 8), i, n, s, b + more)
<1> DEFINE frame == p.frames[Len(p.frames)]
<1>1. frame = Globals(n, s)
  BY DEF GunAt
<1>2. frame.ReportSize = s /\ frame.ReportCount = n /\ frame.ReportId = 0
  BY <1>1 DEF Globals
<1>3. frame.ReportSize * frame.ReportCount = more /\ more <= ULONG_MAX /\ ~(more > ULONG_MAX)
  BY <1>2
<1> HIDE DEF frame
<1>4. /\ KindOf(10) \notin Kinds /\ KindOf(12) \notin Kinds
      /\ KindOf(8) \in Kinds /\ <<0, KindOf(8)>> = Fire
  BY DEF KindOf, Kinds, Fire
<1>5. Main(p, 10) = p /\ Main(p, 12) = p
  BY <1>3, <1>4 DEF Main, frame
<1>6. ASSUME more # 0, b <= 8 PROVE GunAt(Main(p, 8), i, n, s, b + more)
  <2>1. Main(p, 8) = AddTo(p, Fire, more)
    BY <1>2, <1>3, <1>4 DEF Main, frame
  <2>2. SizeOf(p.sizes, Fire) = b /\ DOMAIN p.sizes \cup {Fire} = {Fire}
    BY DEF GunAt, SizeOf
  <2>3. ~(b + more > ULONG_MAX) /\ b + more # 0
    BY <1>6
  <2>4. AddTo(p, Fire, more) = [p EXCEPT !.sizes = [r \in {Fire} |-> b + more]]
    BY <2>2, <2>3 DEF AddTo
  <2> QED BY <2>1, <2>3, <2>4 DEF GunAt, Good, ParseState
<1> QED
  BY <1>5, <1>6

\* A collection leaves all as it is, an input adds the bits in force.
LEMMA GunMainItem ==
  ASSUME NEW p, Good(Gun, p), NEW i \in 1 .. 51, NEW n, NEW s, NEW b, NEW more,
         GunAt(p, i, n, s, b), n \in Nat, s \in Nat, b \in 0 .. 8, more \in 0 .. 32, s * n = more
  PROVE  /\ Gun[i] = 161 => GunAt(ParseItem(Gun, p), i + 2, n, s, b)
         /\ Gun[i] = 129 /\ more # 0 => GunAt(ParseItem(Gun, p), i + 2, n, s, b + more)
<1> DEFINE next == After(p, i + 2)
<1>1. i \in 1 .. 52 /\ i + 2 \in 1 .. 53 /\ i + 1 <= 52 /\ i + 1 + 1 = i + 2 /\ p.i = i
  BY DEF GunAt
<1>2. Good(Gun, next) /\ GunAt(next, i + 2, n, s, b)
  BY <1>1, GunNext
<1>3. ASSUME NEW h \in {161, 129}, Gun[i] = h PROVE ParseItem(Gun, p) = Main(next, h \div 16)
  <2>1. h \in 0 .. 239 /\ h % 4 = 1 /\ 1 \in {0, 1, 2}
    BY <1>3
  <2>2. ParseItem(Gun, p) = Handle(After(p, i + 1 + 1), h, DataAt(Gun, i + 1, 1))
    BY <1>1, <1>3, <2>1, ShortItem
  <2>3. (h \div 4) % 4 = 0
    BY <1>3
  <2> QED BY <1>1, <2>2, <2>3 DEF Handle
<1> HIDE DEF next
<1>4. /\ Gun[i] = 161 => ParseItem(Gun, p) = Main(next, 10)
      /\ Gun[i] = 129 => ParseItem(Gun, p) = Main(next, 8)
  BY <1>3
<1> QED
  BY <1>2, <1>4, GunMain

\* The end of a collection has no data.
LEMMA GunEnd ==
  ASSUME NEW p, Good(Gun, p), NEW i \in {51, 52}, GunAt(p, i, 2, 16, 40)
  PROVE  GunAt(ParseItem(Gun, p), i + 1, 2, 16, 40)
<1> DEFINE next == After(p, i + 1 + 0)
<1>1. p.i = i /\ i \in 1 .. 52 /\ i + 0 <= 52 /\ i + 1 + 0 \in 1 .. 53 /\ i + 1 + 0 = i + 1
  BY DEF GunAt
<1>2. Good(Gun, next) /\ GunAt(next, i + 1, 2, 16, 40)
  BY <1>1, GunNext
<1>3. ParseItem(Gun, p) = Main(next, 12)
  <2>1. Gun[i] = 192 /\ 192 \in 0 .. 239 /\ 0 \in {0, 1, 2} /\ 192 % 4 = 0
    BY GunBytes
  <2>2. ParseItem(Gun, p) = Handle(next, 192, DataAt(Gun, i + 1, 0))
    BY <1>1, <2>1, ShortItem
  <2> QED BY <2>2 DEF Handle
<1> HIDE DEF next
<1>4. Main(next, 12) = next
  <2>1. 16 * 2 = 32 /\ 32 \in 0 .. 32 /\ 2 \in Nat /\ 16 \in Nat /\ 40 \in Nat
    OBVIOUS
  <2> QED BY <1>2, <2>1, GunMain, Zenon
<1> QED
  BY <1>2, <1>3, <1>4

\* Where the loop stands between two turns.
GunTrace(p) ==
    \/ \E i \in {1, 3, 5, 7, 9, 11, 13, 15, 17, 19, 21} : GunAt(p, i, 0, 0, 0)
    \/ GunAt(p, 23, 5, 0, 0) \/ GunAt(p, 25, 5, 1, 0) \/ GunAt(p, 27, 5, 1, 5)
    \/ GunAt(p, 29, 1, 1, 5) \/ GunAt(p, 31, 1, 3, 5)
    \/ \E i \in {33, 35, 37, 39, 42, 45} : GunAt(p, i, 1, 3, 8)
    \/ GunAt(p, 47, 1, 16, 8) \/ GunAt(p, 49, 2, 16, 8)
    \/ \E i \in {51, 52, 53} : GunAt(p, i, 2, 16, 40)

LEMMA GunTurns ==
  ASSUME NEW p, Good(Gun, p), GunTrace(p), p.i <= 52
  PROVE  GunTrace(ParseItem(Gun, p))
<1> DEFINE q == ParseItem(Gun, p)
<1> HIDE DEF q
<1> SUFFICES GunTrace(q)
  BY DEF q
<1>1. ASSUME NEW i \in {1, 3, 7, 11, 13, 15, 17, 19}, GunAt(p, i, 0, 0, 0) PROVE GunTrace(q)
  <2>1. /\ i \in 1 .. 52 /\ Gun[i] \in {5, 9, 21, 25, 37, 41} /\ Gun[i] % 4 = 1
        /\ i + 1 <= 52 /\ i + 1 + 1 \in {3, 5, 9, 13, 15, 17, 19, 21}
    BY GunBytes
  <2>2. GunAt(q, i + 1 + 1, 0, 0, 0)
    BY <1>1, <2>1, GunQuiet DEF q
  <2> QED BY <2>1, <2>2 DEF GunTrace
<1>2. ASSUME NEW i \in {5, 9}, GunAt(p, i, 0, 0, 0) PROVE GunTrace(q)
  <2>1. /\ i \in 1 .. 51 /\ Gun[i] = 161 /\ 0 * 0 = 0 /\ 0 \in 0 .. 32 /\ 0 \in 0 .. 8
        /\ 0 \in Nat /\ i + 2 \in {7, 11}
    BY GunBytes
  <2>2. GunAt(q, i + 2, 0, 0, 0)
    BY <1>2, <2>1, GunMainItem DEF q
  <2> QED BY <2>1, <2>2 DEF GunTrace
<1>3. ASSUME GunAt(p, 21, 0, 0, 0) PROVE GunTrace(q)
  <2>1. 21 \in 1 .. 51 /\ Gun[21] = 149 /\ Gun[22] = 5
    BY GunBytes
  <2>2. GunAt(q, 23, 5, 0, 0)
    BY <1>3, <2>1, GunSets DEF q
  <2> QED BY <2>2 DEF GunTrace
<1>4. ASSUME GunAt(p, 23, 5, 0, 0) PROVE GunTrace(q)
  <2>1. 23 \in 1 .. 51 /\ Gun[23] = 117 /\ Gun[24] = 1
    BY GunBytes
  <2>2. GunAt(q, 25, 5, 1, 0)
    BY <1>4, <2>1, GunSets DEF q
  <2> QED BY <2>2 DEF GunTrace
<1>5. ASSUME GunAt(p, 25, 5, 1, 0) PROVE GunTrace(q)
  <2>1. /\ 25 \in 1 .. 51 /\ Gun[25] = 129 /\ 5 \in Nat /\ 1 \in Nat /\ 0 \in 0 .. 8
        /\ 5 \in 0 .. 32 /\ 1 * 5 = 5
    BY GunBytes
  <2>2. GunAt(q, 27, 5, 1, 5)
    BY <1>5, <2>1, GunMainItem DEF q
  <2> QED BY <2>2 DEF GunTrace
<1>6. ASSUME GunAt(p, 27, 5, 1, 5) PROVE GunTrace(q)
  <2>1. 27 \in 1 .. 51 /\ Gun[27] = 149 /\ Gun[28] = 1
    BY GunBytes
  <2>2. GunAt(q, 29, 1, 1, 5)
    BY <1>6, <2>1, GunSets DEF q
  <2> QED BY <2>2 DEF GunTrace
<1>7. ASSUME GunAt(p, 29, 1, 1, 5) PROVE GunTrace(q)
  <2>1. 29 \in 1 .. 51 /\ Gun[29] = 117 /\ Gun[30] = 3
    BY GunBytes
  <2>2. GunAt(q, 31, 1, 3, 5)
    BY <1>7, <2>1, GunSets DEF q
  <2> QED BY <2>2 DEF GunTrace
<1>8. ASSUME GunAt(p, 31, 1, 3, 5) PROVE GunTrace(q)
  <2>1. /\ 31 \in 1 .. 51 /\ Gun[31] = 129 /\ 1 \in Nat /\ 3 \in Nat /\ 5 \in 0 .. 8
        /\ 3 \in 0 .. 32 /\ 3 * 1 = 3
    BY GunBytes
  <2>2. GunAt(q, 33, 1, 3, 8)
    BY <1>8, <2>1, GunMainItem DEF q
  <2> QED BY <2>2 DEF GunTrace
<1>9. ASSUME NEW i \in {33, 35, 37}, GunAt(p, i, 1, 3, 8) PROVE GunTrace(q)
  <2>1. /\ i \in 1 .. 52 /\ Gun[i] \in {5, 9} /\ Gun[i] % 4 = 1
        /\ i + 1 <= 52 /\ i + 1 + 1 \in {35, 37, 39}
    BY GunBytes
  <2>2. GunAt(q, i + 1 + 1, 1, 3, 8)
    BY <1>9, <2>1, GunQuiet DEF q
  <2> QED BY <2>1, <2>2 DEF GunTrace
<1>10. ASSUME NEW i \in {39, 42}, GunAt(p, i, 1, 3, 8) PROVE GunTrace(q)
  <2>1. /\ i \in 1 .. 52 /\ Gun[i] \in {22, 38} /\ Gun[i] % 4 = 2
        /\ i + 2 <= 52 /\ i + 1 + 2 \in {42, 45}
    BY GunBytes
  <2>2. GunAt(q, i + 1 + 2, 1, 3, 8)
    BY <1>10, <2>1, GunQuiet DEF q
  <2> QED BY <2>1, <2>2 DEF GunTrace
<1>11. ASSUME GunAt(p, 45, 1, 3, 8) PROVE GunTrace(q)
  <2>1. 45 \in 1 .. 51 /\ Gun[45] = 117 /\ Gun[46] = 16
    BY GunBytes
  <2>2. GunAt(q, 47, 1, 16, 8)
    BY <1>11, <2>1, GunSets DEF q
  <2> QED BY <2>2 DEF GunTrace
<1>12. ASSUME GunAt(p, 47, 1, 16, 8) PROVE GunTrace(q)
  <2>1. 47 \in 1 .. 51 /\ Gun[47] = 149 /\ Gun[48] = 2
    BY GunBytes
  <2>2. GunAt(q, 49, 2, 16, 8)
    BY <1>12, <2>1, GunSets DEF q
  <2> QED BY <2>2 DEF GunTrace
<1>13. ASSUME GunAt(p, 49, 2, 16, 8) PROVE GunTrace(q)
  <2>1. /\ 49 \in 1 .. 51 /\ Gun[49] = 129 /\ 2 \in Nat /\ 16 \in Nat /\ 8 \in 0 .. 8
        /\ 32 \in 0 .. 32 /\ 16 * 2 = 32
    BY GunBytes
  <2>2. GunAt(q, 51, 2, 16, 40)
    BY <1>13, <2>1, GunMainItem DEF q
  <2> QED BY <2>2 DEF GunTrace
<1>14. ASSUME NEW i \in {51, 52}, GunAt(p, i, 2, 16, 40) PROVE GunTrace(q)
  <2>1. GunAt(q, i + 1, 2, 16, 40)
    BY <1>14, GunEnd DEF q
  <2> QED BY <2>1 DEF GunTrace
<1>15. ~GunAt(p, 53, 2, 16, 40)
  BY DEF GunAt
<1> QED
  BY <1>1, <1>2, <1>3, <1>4, <1>5, <1>6, <1>7, <1>8, <1>9, <1>10, <1>11, <1>12, <1>13, <1>14,
     <1>15 DEF GunTrace

\* At its end 40 bits were found, which are five bytes.
GunRead(p) == p.status = "parsing" /\ GunTrace(p)

GunDone(p) ==
    /\ p.status = "SUCCESS" /\ ~p.numbered
    /\ DOMAIN p.sizes = {Fire} /\ p.sizes[Fire] = 5

LEMMA GunFinish ==
  ASSUME NEW p, Good(Gun, p), GunTrace(p), p.i > 52
  PROVE  GunDone(Finish(p))
<1>1. GunAt(p, 53, 2, 16, 40)
  BY DEF GunTrace, GunAt
<1>2. PostProcessReportSize(40, FALSE) = 5
  BY DEF PostProcessReportSize
<1> DEFINE f == [r \in DOMAIN p.sizes |-> PostProcessReportSize(p.sizes[r], p.numbered)]
<1>3. DOMAIN f = {Fire} /\ f[Fire] = 5
  <2>1. DOMAIN p.sizes = {Fire} /\ p.sizes[Fire] = 40 /\ p.numbered = FALSE
    BY <1>1 DEF GunAt
  <2>2. f[Fire] = PostProcessReportSize(40, FALSE)
    BY <2>1
  <2> QED BY <1>2, <2>1, <2>2
<1>4. Finish(p) = [p EXCEPT !.status = "SUCCESS", !.sizes = f]
  BY DEF Finish, Good, ParseState
<1> HIDE DEF f
<1>5. /\ Finish(p).status = "SUCCESS" /\ Finish(p).sizes = f
      /\ Finish(p).numbered = p.numbered
  BY <1>4 DEF Good, ParseState
<1> QED
  BY <1>1, <1>3, <1>5 DEF GunDone, GunAt

GunInv == descriptor = Gun => GunRead(parse) \/ GunDone(parse)

-----------------------------------------------------------------------------
(* The loop. *)

LEMMA DescriptorsAre == ASSUME descriptor \in Descriptors PROVE descriptor \in Seq(0 .. 255)
  BY ReportParserAssumption

LEMMA ParserStarts == Init => ParserInv
  BY StartGood, DescriptorsAre DEF Init, ParserInv

LEMMA ParserGoesOn == ParserInv /\ [Next]_vars => ParserInv'
<1> SUFFICES ASSUME ParserInv, [Next]_vars PROVE ParserInv'
  OBVIOUS
<1> USE DEF ParserInv
<1>1. CASE Turn
  BY <1>1, ItemMoves, DescriptorsAre DEF Turn
<1>2. CASE Return
  BY <1>2, FinishGood DEF Return
<1>3. CASE UNCHANGED vars
  BY <1>3 DEF vars
<1> QED
  BY <1>1, <1>2, <1>3 DEF Next

LEMMA ParserKeeps == Spec => []ParserInv
  BY ParserStarts, ParserGoesOn, PTL DEF Spec

(* For every descriptor, the parser stays within the descriptor, its stack  *)
(* of 32 frames, the table of sizes and the width of a ULONG, however it is *)
(* cut short, nested or overflowing (WinUHid.c:42-46, 67, 93, 148-216,      *)
(* 18-31).                                                                  *)
THEOREM ParserTyped == Spec => []TypeOK
<1>1. ParserInv => TypeOK
  <2> SUFFICES ASSUME ParserInv PROVE TypeOK
    OBVIOUS
  <2>1. parse \in ParseState(descriptor)
    BY DEF ParserInv, Good
  <2> QED BY <2>1, StatesAre, SizesAre DEF ParserInv, TypeOK, Stacks
<1> QED
  BY <1>1, ParserKeeps, PTL

(* For every descriptor without ids only report 0 has a size: the driver    *)
(* may send its reports as report 0 (WinUHid.c:1125, 1369).                 *)
THEOREM UnnumberedIsZero == Spec => []UnnumberedMeansZero
<1>1. ParserInv => UnnumberedMeansZero
  BY DEF ParserInv, Good, NoIds, UnnumberedMeansZero
<1> QED
  BY <1>1, ParserKeeps, PTL

LEMMA GunKept == ParserInv /\ GunInv /\ [Next]_vars => GunInv'
<1> SUFFICES ASSUME ParserInv, GunInv, [Next]_vars, descriptor = Gun, descriptor' = descriptor
             PROVE  GunRead(parse') \/ GunDone(parse')
  BY DEF Next, Turn, Return, vars, GunInv
<1> USE DEF ParserInv, GunInv
<1>1. CASE Turn
  <2>1. GunTrace(parse) /\ parse.i <= 52
    BY <1>1, GunBytes DEF Turn, GunRead, GunDone
  <2>2. GunTrace(parse')
    BY <1>1, <2>1, GunTurns DEF Turn
  <2> QED BY <2>2 DEF GunRead, GunTrace, GunAt
<1>2. CASE Return
  <2>1. GunTrace(parse) /\ parse.i > 52
    BY <1>2, GunBytes DEF Return, GunRead, GunDone
  <2> QED BY <1>2, <2>1, GunFinish DEF Return
<1>3. CASE UNCHANGED vars
  BY <1>3 DEF vars
<1> QED
  BY <1>1, <1>2, <1>3 DEF Next

(* The descriptor of the gun has one report of five bytes and no ids,        *)
(* however wide a ULONG is (WinUHid.c:1282, 1369, 1378).                     *)
THEOREM GunReportSize == Spec => []GunReportIsFiveBytes
<1>1. Init => GunInv
  BY DEF Init, GunInv, GunRead, GunTrace, GunAt, Start, Globals
<1>2. GunInv => GunReportIsFiveBytes
  BY DEF GunInv, GunRead, GunDone, GunReportIsFiveBytes, Gun, Fire
<1> QED
  BY <1>1, <1>2, GunKept, ParserKeeps, PTL DEF Spec

(* For every descriptor each turn of the loop moves on and takes no bits    *)
(* from a report, so that the parser returns (WinUHid.c:57-58, 188-216).    *)
THEOREM ParserAdvances == Spec => TurnsAdvance
<1>1. ParserInv /\ [Next]_vars =>
        [parse'.status = "parsing" =>
           /\ parse'.i > parse.i
           /\ \A r \in DOMAIN parse.sizes : SizeOf(parse'.sizes, r) >= parse.sizes[r]]_vars
  <2> SUFFICES ASSUME ParserInv, Next, parse'.status = "parsing"
               PROVE  parse'.i > parse.i /\ Grows(parse, parse')
    BY DEF Grows
  <2>1. CASE Turn
    BY <2>1, ItemMoves, DescriptorsAre DEF Turn, ParserInv
  <2>2. CASE Return
    BY <2>2, FinishGood DEF Return, ParserInv
  <2> QED BY <2>1, <2>2 DEF Next
<1> QED
  BY <1>1, ParserKeeps, PTL DEF Spec, TurnsAdvance
=============================================================================
