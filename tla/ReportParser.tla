----------------------------- MODULE ReportParser -----------------------------
(***************************************************************************)
(* The loop of ParseReportDescriptor (driver/WinUHid.c:57-254), turn by    *)
(* turn, on any string of bytes.  A turn is ParseItem of ReportDescriptor, *)
(* which also iterates it to a function; here every state between two      *)
(* turns can be looked at.                                                 *)
(***************************************************************************)
EXTENDS ReportDescriptor

CONSTANT Descriptors   \* the strings of bytes a client may describe its device with

ASSUME ReportParserAssumption == Descriptors \subseteq Seq(0 .. 255)

VARIABLES
    descriptor,  \* VhfConfig.ReportDescriptor
    parse        \* the locals of the parser, and the sizes of the handle

vars == <<descriptor, parse>>

Statuses == {"parsing", "SUCCESS", "INVALID_PARAMETER", "NOT_IMPLEMENTED", "INTEGER_OVERFLOW"}
Frame == [ReportId : 0 .. 255, ReportCount : Nat, ReportSize : Nat]
Reports == (0 .. 255) \X Kinds

Init == descriptor \in Descriptors /\ parse = Start

Turn ==
    /\ parse.status = "parsing" /\ parse.i <= Len(descriptor)
    /\ parse' = ParseItem(descriptor, parse) /\ UNCHANGED descriptor

Return ==
    /\ parse.status = "parsing" /\ parse.i > Len(descriptor)
    /\ parse' = Finish(parse) /\ UNCHANGED descriptor

Next == Turn \/ Return

Spec == Init /\ [][Next]_vars

-----------------------------------------------------------------------------
(* The rest models no code. *)

(* No turn leaves an index outside its array or a sum outside its width:    *)
(* the next byte is in the descriptor or just after it, the stack has 1 to  *)
(* 32 frames, ReportSizes has an entry for every id, and sizes in bits and, *)
(* rounded up and with an id, in bytes fit a ULONG (WinUHid.c:42-46, 67,    *)
(* 93, 148, 160, 176-216, 18-31).                                           *)
TypeOK ==
    /\ descriptor \in Descriptors
    /\ parse.status \in Statuses /\ parse.numbered \in BOOLEAN
    /\ parse.i \in 1 .. Len(descriptor) + 1
    /\ parse.frames \in Seq(Frame) /\ 1 <= Len(parse.frames) /\ Len(parse.frames) <= MAX_FRAMES
    /\ \A r \in DOMAIN parse.sizes : r \in Reports /\ parse.sizes[r] \in 0 .. ULONG_MAX

(* A descriptor found to have no report ids describes report 0 only: the    *)
(* driver sends any report of it as report 0, without a look at its first   *)
(* byte (WinUHid.c:1125, 1369), however ids were pushed and popped.         *)
UnnumberedMeansZero == ~parse.numbered => \A r \in DOMAIN parse.sizes : r[1] = 0

(* The driver's own descriptor describes one report, without an id and of   *)
(* 5 bytes: what WinUHidEvtIoWrite records and the close releases           *)
(* (WinUHid.c:1369, 1378, 1282) is what Windows is promised.                *)
GunReportIsFiveBytes ==
    descriptor = VGUN_REPORT_DESCRIPTOR /\ parse.status # "parsing" =>
        /\ parse.status = "SUCCESS" /\ ~parse.numbered
        /\ DOMAIN parse.sizes = {<<0, "input">>} /\ parse.sizes[<<0, "input">>] = 5

(* Every turn reads on, so that the parser returns after at most as many    *)
(* turns as there are bytes, and none takes bits from a report              *)
(* (WinUHid.c:57-58, 121-125, 188-216).                                     *)
TurnsAdvance ==
    [][parse'.status = "parsing" =>
         /\ parse'.i > parse.i
         /\ \A r \in DOMAIN parse.sizes : SizeOf(parse'.sizes, r) >= parse.sizes[r]]_vars
=============================================================================
