--------------------------- MODULE MCReportParser ---------------------------
(* The instance of the parser's loop that TLC checks. *)
EXTENDS ReportParser

\* Size, count and id of one byte, push, pop, input, a long item, and data.
SomeBytes == {117, 149, 133, 164, 180, 128, 254, 1, 0}

\* Every short string of them; sizes and counts whose product or sum does not
\* fit (1023); items of four bytes; a stack that is filled and emptied; and the
\* descriptor of the gun.
SomeDescriptors ==
    UNION {[1 .. n -> SomeBytes] : n \in 0 .. 4}
      \cup {<<133, id, 117, 255, 149, count>> \o tail :
              id \in {0, 1}, count \in {3, 5}, tail \in [1 .. 4 -> {128, 164, 180, 133, 117, 0}]}
      \cup {<<119, 8, 0, 0, n>> \o tail : n \in {0, 1}, tail \in [1 .. 2 -> SomeBytes]}
      \cup {[k \in 1 .. n + m |-> IF k <= n THEN 164 ELSE 180] : n \in 31 .. 32, m \in {0, 33}}
      \cup {VGUN_REPORT_DESCRIPTOR}
=============================================================================
