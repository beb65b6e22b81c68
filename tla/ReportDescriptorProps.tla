------------------------- MODULE ReportDescriptorProps -------------------------
(* What the parser computes, against a definition that has no stack and no  *)
(* bytes.  Nothing here models code.                                        *)
EXTENDS ReportDescriptor, FiniteSetsExt

(* A descriptor as a list of items.  Setting an item's value is in force    *)
(* until the same global is set again, or a pop leaves the level of the     *)
(* stack it was set at.                                                     *)
Item(op, arg) == [op |-> op, arg |-> arg]

Bytes(item) ==
    CASE item.op = "size"       -> <<119, item.arg, 0, 0, 0>>
      [] item.op = "count"      -> <<150, item.arg % 256, item.arg \div 256>>
      [] item.op = "id"         -> <<133, item.arg>>
      [] item.op = "push"       -> <<164>>
      [] item.op = "pop"        -> <<180>>
      [] item.op = "input"      -> <<129, 2>>
      [] item.op = "output"     -> <<145, 2>>
      [] item.op = "collection" -> <<161, 0>>
      [] item.op = "long"       -> <<254, 3, 129, 117, 1, 192>>

Encode[n \in Nat, items \in Seq([op : STRING, arg : Nat])] ==
    IF n = 0 THEN <<>> ELSE Encode[n - 1, items] \o Bytes(items[n])

Depth(items, k) ==
    Quantify(1 .. k - 1, LAMBDA j : items[j].op = "push")
      - Quantify(1 .. k - 1, LAMBDA j : items[j].op = "pop")

Value(items, global, k) ==
    LET inForce == {j \in 1 .. k - 1 :
                      /\ items[j].op = global
                      /\ \A m \in j .. k : Depth(items, m) >= Depth(items, j)}
    IN IF inForce = {} THEN 0 ELSE items[Max(inForce)].arg

FieldBits(items, k) == Value(items, "size", k) * Value(items, "count", k)

Fields(items, report) ==
    {k \in DOMAIN items : items[k].op = report[2] /\ Value(items, "id", k) = report[1]}

TotalBits(items, report) ==
    MapThenSumSet(LAMBDA k : FieldBits(items, k), Fields(items, report))

WellFormed(items, reports) ==
    /\ \A k \in 1 .. Len(items) + 1 : Depth(items, k) \in 0 .. MAX_FRAMES - 1
    /\ \A k \in DOMAIN items : items[k].op \in {"input", "output", "collection"}
                                 => FieldBits(items, k) <= ULONG_MAX
    /\ \A r \in reports : TotalBits(items, r) <= ULONG_MAX

\* A report of b bits, and its id when any report has one.
BytesOf(items, b) ==
    IF b = 0 THEN 0
    ELSE ((b + 7) \div 8) + (IF \E k \in DOMAIN items : items[k].op = "id" THEN 1 ELSE 0)

(* ParseReportDescriptor accepts exactly the descriptors whose stack and    *)
(* whose sums stay within bounds, and finds for each report the bits of its *)
(* fields, whatever is pushed, popped, skipped or wider than a byte.        *)
Agrees(descriptors) ==
    \A items \in descriptors :
        LET reports == {0, 1} \X {"input", "output"}
            result == ParseReportDescriptor(Encode[Len(items), items])
        IN /\ (result.status = "SUCCESS") <=> WellFormed(items, reports)
           /\ result.status = "SUCCESS" =>
                \A r \in reports :
                    SizeOf(result.sizes, r) = BytesOf(items, TotalBits(items, r))
=============================================================================
