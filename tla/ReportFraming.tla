---------------------------- MODULE ReportFraming ----------------------------
(***************************************************************************)
(* What the bytes of one bfusemon report mean, byte by byte: a reference   *)
(* definition, independent of how internal/source/decoder.go finds records *)
(* in a buffer.  A byte is abstracted to the class the framing             *)
(* distinguishes:                                                          *)
(*   "[" "]"   the array's own brackets                                    *)
(*   "comma"   a separator of the array                                    *)
(*   "first"   the first byte of a top-level object, "{"                   *)
(*   "b"       a byte the JSON scanner accepts inside an object (nested    *)
(*             braces, strings and separators included)                    *)
(*   "last"    the byte that completes the top-level object, "}"           *)
(*   "w"       JSON whitespace                                             *)
(* Inside an object any class but "b", "w" and "last" is a byte the JSON   *)
(* scanner rejects there.                                                  *)
(***************************************************************************)
EXTENDS Naturals, Sequences

CONSTANT MaxRecordBytes     \* --max-record-bytes
ASSUME MaxRecordBytesAssumption == MaxRecordBytes \in Nat \ {0}

Byte == {"[", "]", "comma", "first", "b", "last", "w"}
Interior == {"b", "w"}

(***************************************************************************)
(* The state of the reference automaton: where it is in the grammar, the   *)
(* offset of the next byte, where the current object started, whether the  *)
(* array has an object, and the records seen: <<start, end>> offsets, the  *)
(* end one past the delimiter that makes the record complete.              *)
(***************************************************************************)
FramingStart ==
    [at |-> "open", offset |-> 0, start |-> 0, records |-> <<>>]

Corrupt(a) == [a EXCEPT !.at = "corrupt", !.offset = @ + 1]
GoTo(a, where) == [a EXCEPT !.at = where, !.offset = @ + 1]
Complete(a, where) ==
    [GoTo(a, where) EXCEPT !.records = Append(@, <<a.start, a.offset + 1>>)]

FramingStep(a, b) ==
    CASE a.at = "open" ->
            IF b = "w" THEN GoTo(a, "open")
            ELSE IF b = "[" THEN GoTo(a, "value") ELSE Corrupt(a)
      [] a.at = "value" ->
            IF b = "w" THEN GoTo(a, "value")
            ELSE IF b = "first" THEN [GoTo(a, "object") EXCEPT !.start = a.offset]
            ELSE IF b = "]" /\ a.records = <<>> THEN GoTo(a, "closed")
            ELSE Corrupt(a)
      [] a.at = "object" ->
            IF \/ b \notin Interior \cup {"last"}
               \/ a.offset + 1 - a.start > MaxRecordBytes
            THEN Corrupt(a)
            ELSE GoTo(a, IF b = "last" THEN "delimiter" ELSE "object")
      [] a.at = "delimiter" ->
            IF b = "w" THEN GoTo(a, "delimiter")
            ELSE IF b = "comma" THEN Complete(a, "value")
            ELSE IF b = "]" THEN Complete(a, "closed") ELSE Corrupt(a)
      [] a.at = "closed" -> IF b = "w" THEN GoTo(a, "closed") ELSE Corrupt(a)
      [] a.at = "corrupt" -> GoTo(a, "corrupt")

Framing(bytes) ==
    LET scan[n \in 0..Len(bytes)] ==
            IF n = 0 THEN FramingStart ELSE FramingStep(scan[n - 1], bytes[n])
    IN  scan[Len(bytes)]

Records(bytes) == Framing(bytes).records
IsCorrupt(bytes) == Framing(bytes).at = "corrupt"
IsClosed(bytes) == Framing(bytes).at = "closed"
=============================================================================
