--------------------------- MODULE GenerationReader ---------------------------
(***************************************************************************)
(* One report generation: the file bfusemon appends to, and the exporter's *)
(* generationReader with its Decoder, which reads the bytes in chunks,     *)
(* frames records in a buffer, hands each to the record handler and        *)
(* commits it (internal/source/reader_linux.go, decoder.go).               *)
(*                                                                         *)
(* Decoder.Next and Commit touch only the decoder; fstat and ReadAt read   *)
(* the file, which the writer may have changed in between, so each is a    *)
(* step of its own.  Offsets are the code's: 0-based, exclusive ends.      *)
(* Sequence index i of buffer is offset committed + i - 1.                 *)
(***************************************************************************)
EXTENDS Naturals, Sequences, ReportFraming

CONSTANTS ReadBufferBytes,   \* generationReadBufferBytes
          Alphabet,          \* the byte classes the writer uses
          MaxFileBytes,      \* bound: bytes the writer ever appends
          MayCorrupt,        \* whether the writer may write what is not a report
          MayTruncate,       \* whether the file may be truncated under the reader
          MayFail            \* whether fstat and ReadAt may fail

ASSUME ReadBufferAssumption == ReadBufferBytes \in Nat \ {0}
ASSUME AlphabetAssumption == Alphabet \subseteq Byte
ASSUME MaxFileAssumption == MaxFileBytes \in Nat
ASSUME MayAssumption == {MayCorrupt, MayTruncate, MayFail} \subseteq BOOLEAN

VARIABLES
    file,          \* the bytes of the generation on disk
    buffer,        \* Decoder.buffer: bytes read and not yet committed
    committed,     \* Decoder.committed
    opened,        \* Decoder.opened
    closed,        \* Decoder.closed
    recordsSeen,   \* Decoder.recordsSeen
    pending,       \* Decoder.pending, NoRecord when nil
    pc,            \* where drain is
    size,          \* drain's last fstat result
    result,        \* how the last drain call returned
    delivered,     \* history: <<StartOffset, EndOffset>> of every record applied
    grammar,       \* history: what the bytes of the file mean (ReportFraming)
    shrunk,        \* history: the file was cut below an offset already read
    torn,          \* history: since the last fstat that led to a read, the file
                   \* was cut to the read offset or below
    appended       \* history: how many bytes the writer has appended

decoderVars == <<buffer, committed, opened, closed, recordsSeen, pending>>
historyVars == <<delivered, grammar, shrunk, torn, appended>>
vars == <<file, decoderVars, pc, size, result, historyVars>>

NoRecord == [start |-> 0, end |-> 0, closesArray |-> FALSE]
Record == [start : Nat, end : Nat, closesArray : BOOLEAN]
Result == {"none", "ok", "closed", "handler", "framing", "tooLarge",
           "truncated", "unexpectedEOF", "failed"}

ReadOffset == committed + Len(buffer)

(***************************************************************************)
(* Framing inside the buffer: positions of a sequence of bytes.            *)
(***************************************************************************)

\* skipWhitespace(s, i) stops at j, before the end of s
NonBlank(s, i, j) ==
    /\ j \in i..Len(s)
    /\ s[j] # "w"
    /\ \A k \in i..(j - 1) : s[k] = "w"

\* isWhitespace(s[i:])
Blank(s, i) == \A k \in i..Len(s) : s[k] = "w"

\* the JSON scanner, started on the "first" at i, first leaves the interior at e
ScanStop(s, i, e) ==
    /\ e \in (i + 1)..Len(s)
    /\ s[e] \notin Interior
    /\ \A k \in (i + 1)..(e - 1) : s[k] \in Interior

ObjectEnds(s, i, e) == ScanStop(s, i, e) /\ s[e] = "last"

\* isIncomplete: end of input, or the rejected byte is the last one available
ObjectIncomplete(s, i) ==
    \A e \in (i + 1)..Len(s) :
        ScanStop(s, i, e) => s[e] # "last" /\ e = Len(s)

\* Mutant: a partial object is retained whatever its size
OnlyCompleteTooLarge(s, i) ==
    \E e \in DOMAIN s : ObjectEnds(s, i, e) /\ e - i + 1 > MaxRecordBytes

\* decodeObject's two size limits: of a complete and of a partial object
ObjectTooLarge(s, i) ==
    \/ ObjectIncomplete(s, i) /\ Len(s) - i + 1 > MaxRecordBytes
    \/ \E e \in DOMAIN s : ObjectEnds(s, i, e) /\ e - i + 1 > MaxRecordBytes

\* the object at i, ended at e, is followed by its delimiter at d
RecordAt(s, i, e, d) ==
    /\ NonBlank(s, 1, i) /\ s[i] = "first"
    /\ ObjectEnds(s, i, e)
    /\ e - i + 1 <= MaxRecordBytes
    /\ NonBlank(s, e + 1, d)
    /\ \/ s[d] = "comma"
       \/ s[d] = "]" /\ Blank(s, d + 1)

IsRecord(s) == \E i, e, d \in DOMAIN s : RecordAt(s, i, e, d)

\* Mutant: a "]" after a separator ends the array too
IsArrayEnd(s) ==
    \E i \in DOMAIN s : NonBlank(s, 1, i) /\ s[i] = "]" /\ Blank(s, i + 1)

\* "]" where a record was expected, legal only before any record
IsEmptyArrayEnd(s) ==
    \E i \in DOMAIN s :
        NonBlank(s, 1, i) /\ s[i] = "]" /\ ~recordsSeen /\ Blank(s, i + 1)

IsTooLarge(s) ==
    \E i \in DOMAIN s :
        NonBlank(s, 1, i) /\ s[i] = "first" /\ ObjectTooLarge(s, i)

\* Mutant: a complete object must have its delimiter in the same read
NeedsMoreOfObject(s) ==
    \/ Blank(s, 1)
    \/ \E i \in DOMAIN s :
        /\ NonBlank(s, 1, i) /\ s[i] = "first" /\ ~ObjectTooLarge(s, i)
        /\ ObjectIncomplete(s, i)

\* ErrNeedMoreData: nothing but whitespace, a partial object, or no delimiter
NeedsMore(s) ==
    \/ Blank(s, 1)
    \/ \E i \in DOMAIN s :
        /\ NonBlank(s, 1, i) /\ s[i] = "first" /\ ~ObjectTooLarge(s, i)
        /\ \/ ObjectIncomplete(s, i)
           \/ \E e \in DOMAIN s : ObjectEnds(s, i, e) /\ Blank(s, e + 1)
-----------------------------------------------------------------------------
Init ==
    /\ file = <<>>
    /\ buffer = <<>> /\ committed = 0
    /\ opened = FALSE /\ closed = FALSE /\ recordsSeen = FALSE
    /\ pending = NoRecord
    /\ pc = "idle" /\ size = 0 /\ result = "none"
    /\ delivered = <<>> /\ grammar = FramingStart
    /\ shrunk = FALSE /\ torn = FALSE /\ appended = 0

(***************************************************************************)
(* The writer.  bfusemon's bytes reach the file in any portion.            *)
(***************************************************************************)
WriteByte(b) ==
    /\ appended < MaxFileBytes
    /\ appended' = appended + 1
    /\ MayCorrupt \/ FramingStep(grammar, b).at # "corrupt"
    /\ file' = Append(file, b)
    /\ grammar' = FramingStep(grammar, b)
    /\ UNCHANGED <<decoderVars, pc, size, result, delivered, shrunk, torn>>

Truncate(n) ==
    /\ MayTruncate
    /\ n < Len(file)
    /\ file' = SubSeq(file, 1, n)
    /\ grammar' = Framing(file')
    /\ shrunk' = (shrunk \/ n < ReadOffset)
    /\ torn' = (torn \/ (pc = "read" /\ n <= ReadOffset))
    /\ UNCHANGED <<decoderVars, pc, size, result, delivered, appended>>

(***************************************************************************)
(* The reader.                                                             *)
(***************************************************************************)
Return(r) == pc' = "idle" /\ result' = r

\* A later drain: the session calls it on every reconciliation, and may call
\* it again after the handler failed.  After any other error it closes.
StartDrain ==
    /\ pc = "idle"
    /\ result \in {"none", "ok", "closed", "handler"}
    /\ pc' = "next"
    /\ UNCHANGED <<file, decoderVars, size, result, historyVars>>

\* Mutant: the committed offset is counted back from the read offset, twice
ConsumeMiscounted(n) ==
    /\ buffer' = SubSeq(buffer, n + 1, Len(buffer))
    /\ committed' = committed + n - Len(buffer)

\* The first n bytes of the buffer are dealt with
Consume(n) ==
    /\ buffer' = SubSeq(buffer, n + 1, Len(buffer))
    /\ committed' = committed + n

\* Next: a record is pending since an earlier call whose handler failed
NextPending ==
    /\ pc = "next" /\ pending # NoRecord
    /\ pc' = "apply"
    /\ UNCHANGED <<file, decoderVars, size, result, historyVars>>

NextClosed ==
    /\ pc = "next" /\ pending = NoRecord /\ closed
    /\ Return("closed")
    /\ UNCHANGED <<file, decoderVars, size, historyVars>>

Ready == pc = "next" /\ pending = NoRecord /\ ~closed

\* Next: consumeOpeningBracket succeeds and Next goes on
ConsumeOpeningBracket ==
    /\ Ready /\ ~opened
    /\ \E i \in DOMAIN buffer :
        NonBlank(buffer, 1, i) /\ buffer[i] = "[" /\ Consume(i)
    /\ opened' = TRUE
    /\ UNCHANGED <<file, closed, recordsSeen, pending, pc, size, result,
                   historyVars>>

NextRecord ==
    /\ Ready /\ opened
    /\ \E i, e, d \in DOMAIN buffer :
        /\ RecordAt(buffer, i, e, d)
        /\ pending' = [start |-> committed + i - 1, end |-> committed + d,
                       closesArray |-> buffer[d] = "]"]
    /\ pc' = "apply"
    /\ UNCHANGED <<file, buffer, committed, opened, closed, recordsSeen, size,
                   result, historyVars>>

NextEmptyArray ==
    /\ Ready /\ opened /\ IsEmptyArrayEnd(buffer)
    /\ Consume(Len(buffer))
    /\ closed' = TRUE
    /\ Return("closed")
    /\ UNCHANGED <<file, opened, recordsSeen, pending, size, historyVars>>

NextTooLarge ==
    /\ Ready /\ opened /\ IsTooLarge(buffer)
    /\ Return("tooLarge")
    /\ UNCHANGED <<file, decoderVars, size, historyVars>>

NextNeedMore ==
    /\ Ready
    /\ IF opened THEN NeedsMore(buffer) ELSE Blank(buffer, 1)
    /\ pc' = "stat"
    /\ UNCHANGED <<file, decoderVars, size, result, historyVars>>

NextInvalidFraming ==
    /\ Ready
    /\ IF opened
       THEN ~ (\/ IsRecord(buffer) \/ IsEmptyArrayEnd(buffer)
               \/ IsTooLarge(buffer) \/ NeedsMore(buffer))
       ELSE \E i \in DOMAIN buffer :
                NonBlank(buffer, 1, i) /\ buffer[i] # "["
    /\ Return("framing")
    /\ UNCHANGED <<file, decoderVars, size, historyVars>>

\* Mutant: the record is handed over, and not committed
ApplyUncommitted ==
    /\ pc = "apply"
    /\ delivered' = Append(delivered, <<pending.start, pending.end>>)
    /\ pending' = NoRecord
    /\ pc' = "next"
    /\ UNCHANGED <<file, buffer, committed, opened, closed, recordsSeen, size, result,
                   grammar, shrunk, torn, appended>>

\* The handler accepts the record and Commit advances past its delimiter, or
\* past everything buffered when the delimiter closed the array
Apply ==
    /\ pc = "apply"
    /\ delivered' = Append(delivered, <<pending.start, pending.end>>)
    /\ Consume(IF pending.closesArray THEN Len(buffer)
               ELSE pending.end - committed)
    /\ closed' = pending.closesArray
    /\ recordsSeen' = TRUE
    /\ pending' = NoRecord
    /\ pc' = "next"
    /\ UNCHANGED <<file, opened, size, result, grammar, shrunk, torn, appended>>

\* Mutant: a record the handler rejects is committed all the same
ApplyFailsCommitted ==
    /\ pc = "apply"
    /\ Consume(pending.end - committed)
    /\ pending' = NoRecord
    /\ Return("handler")
    /\ UNCHANGED <<file, opened, closed, recordsSeen, size, historyVars>>

\* The handler fails: the record stays pending
ApplyFails ==
    /\ pc = "apply"
    /\ Return("handler")
    /\ UNCHANGED <<file, decoderVars, size, historyVars>>

\* Mutant: drain reads on although the file has not grown
StatReadsOn ==
    /\ pc = "stat"
    /\ size' = Len(file)
    /\ \/ Len(file) < ReadOffset /\ Return("truncated")
       \/ Len(file) >= ReadOffset /\ pc' = "read" /\ UNCHANGED result
    /\ torn' = FALSE
    /\ UNCHANGED <<file, decoderVars, delivered, grammar, shrunk, appended>>

\* Mutant: drain waits until a whole read buffer is available
StatFullBuffer ==
    /\ pc = "stat"
    /\ size' = Len(file)
    /\ \/ Len(file) < ReadOffset /\ Return("truncated")
       \/ Len(file) \in ReadOffset..(ReadOffset + ReadBufferBytes - 1) /\ Return("ok")
       \/ Len(file) >= ReadOffset + ReadBufferBytes /\ pc' = "read" /\ UNCHANGED result
    /\ torn' = FALSE
    /\ UNCHANGED <<file, decoderVars, delivered, grammar, shrunk, appended>>

\* currentSize and the comparisons with the read offset
Stat ==
    /\ pc = "stat"
    /\ size' = Len(file)
    /\ \/ Len(file) < ReadOffset /\ Return("truncated")
       \/ Len(file) = ReadOffset /\ Return("ok")
       \/ Len(file) > ReadOffset /\ pc' = "read" /\ UNCHANGED result
    /\ torn' = FALSE
    /\ UNCHANGED <<file, decoderVars, delivered, grammar, shrunk, appended>>

\* currentSize: fstat fails, or the report is closed
StatFails ==
    /\ pc = "stat" /\ MayFail
    /\ Return("failed")
    /\ UNCHANGED <<file, decoderVars, size, historyVars>>

\* ReadAt: at most one read buffer, at most up to the size fstat saw, and only
\* what the file still has
Smaller(m, n) == IF m < n THEN m ELSE n

\* Mutant: the read starts at the committed offset
ReadFromCommitted ==
    /\ pc = "read" /\ Len(file) > ReadOffset
    /\ LET last == Smaller(Smaller(size, Len(file)),
                           ReadOffset + ReadBufferBytes)
       IN  buffer' = buffer \o SubSeq(file, committed + 1, last)
    /\ pc' = "next"
    /\ UNCHANGED <<file, committed, opened, closed, recordsSeen, pending, size,
                   result, historyVars>>

\* An error after some bytes is left for the next read to meet: drain appends
\* the bytes and goes on
Read ==
    /\ pc = "read" /\ Len(file) > ReadOffset
    /\ LET last == Smaller(Smaller(size, Len(file)),
                           ReadOffset + ReadBufferBytes)
       IN  \E end \in (ReadOffset + 1)..last :
               /\ end = last \/ MayFail
               /\ buffer' = buffer \o SubSeq(file, ReadOffset + 1, end)
    /\ pc' = "next"
    /\ UNCHANGED <<file, committed, opened, closed, recordsSeen, pending, size,
                   result, historyVars>>

ReadNothing ==
    /\ pc = "read" /\ Len(file) <= ReadOffset
    /\ Return("unexpectedEOF")
    /\ UNCHANGED <<file, decoderVars, size, historyVars>>

\* ReadAt fails before the first byte
ReadAtFails ==
    /\ pc = "read" /\ MayFail
    /\ Return("failed")
    /\ UNCHANGED <<file, decoderVars, size, historyVars>>
-----------------------------------------------------------------------------
Writer ==
    \/ \E b \in Alphabet : WriteByte(b)
    \/ \E n \in 0..MaxFileBytes : Truncate(n)

DecoderNext ==
    \/ NextPending \/ NextClosed \/ ConsumeOpeningBracket \/ NextRecord
    \/ NextEmptyArray \/ NextTooLarge \/ NextNeedMore \/ NextInvalidFraming

Reader ==
    \/ StartDrain \/ DecoderNext \/ Apply \/ ApplyFails
    \/ Stat \/ StatFails \/ Read \/ ReadNothing \/ ReadAtFails

Next == Writer \/ Reader

Spec == Init /\ [][Next]_vars

\* The session drains every registered reader on each rescan interval, so the
\* reader is never left alone for ever; the writer promises nothing.
FairSpec == Spec /\ WF_vars(Reader)
-----------------------------------------------------------------------------
(***************************************************************************)
(* Types.  committed is a natural number: no commit takes the watermark    *)
(* below the start of the file (Commit, consumeStructuralBytes).           *)
(***************************************************************************)
TypeOK ==
    /\ file \in Seq(Byte) /\ buffer \in Seq(Byte)
    /\ committed \in Nat /\ size \in Nat
    /\ opened \in BOOLEAN /\ closed \in BOOLEAN /\ recordsSeen \in BOOLEAN
    /\ pending \in Record
    /\ pc \in {"idle", "next", "apply", "stat", "read"}
    /\ result \in Result
    /\ delivered \in Seq(Nat \X Nat)
    /\ shrunk \in BOOLEAN /\ torn \in BOOLEAN

Untouched == ~shrunk   \* what was read is still in the file

(***************************************************************************)
(* The buffer is the part of the file between the committed offset and the *)
(* read offset, and a pending record lies inside it: no read skips bytes   *)
(* or reads them twice (drain, Append, Commit, consumeStructuralBytes).    *)
(***************************************************************************)
BufferIsFileSlice ==
    Untouched =>
        /\ ReadOffset <= Len(file)
        /\ \A i \in DOMAIN buffer : buffer[i] = file[committed + i]
        /\ pending # NoRecord =>
              committed <= pending.start /\ pending.end <= ReadOffset

(***************************************************************************)
(* However the file grows and however the reads cut it up, and whichever   *)
(* handler calls fail and are repeated, the records handed over are the    *)
(* file's first records: none twice, none skipped, none cut short (Next,   *)
(* Commit, drain).                                                         *)
(***************************************************************************)
DeliversFileRecords ==
    Untouched =>
        /\ Len(delivered) <= Len(grammar.records)
        /\ delivered = SubSeq(grammar.records, 1, Len(delivered))

(***************************************************************************)
(* When drain returns without error it has handed over every record that   *)
(* is complete in the bytes it read, and those bytes are not corrupt but   *)
(* for a rejected byte at the very end, which isIncomplete takes for a     *)
(* partial object until more arrives.                                      *)
(***************************************************************************)
CleanReturnIsCaughtUp ==
    (Untouched /\ pc = "idle" /\ result \in {"ok", "closed"}) =>
        LET read == SubSeq(file, 1, ReadOffset) IN
        /\ delivered = Records(read)
        /\ result = "closed" <=> IsClosed(read)
        /\ IsCorrupt(read) => ~IsCorrupt(SubSeq(read, 1, Len(read) - 1))

(***************************************************************************)
(* Drain reports invalid framing or an oversize record only of a file that *)
(* is really corrupt or oversize: a record that is merely incomplete, or   *)
(* split between two reads, never is (isIncomplete, decodeObject).         *)
(***************************************************************************)
RejectsOnlyCorruptFiles ==
    (Untouched /\ result \in {"framing", "tooLarge"}) => grammar.at = "corrupt"

(***************************************************************************)
(* What drain keeps in memory when it asks for more bytes is, whitespace   *)
(* aside, at most one object no larger than --max-record-bytes: the limit  *)
(* holds of a partial object too (decodeObject).                           *)
(***************************************************************************)
RetainsAtMostOneObject ==
    pc = "stat" /\ opened =>
        \A i, j \in DOMAIN buffer :
            (i <= j /\ buffer[i] # "w" /\ buffer[j] # "w")
                => j - i + 1 <= MaxRecordBytes

(***************************************************************************)
(* A truncation is reported only of a file that was cut below what the     *)
(* reader had read, and an unexpected end of file only of one that was cut *)
(* to the read offset or below between fstat and ReadAt (drain).           *)
(***************************************************************************)
TruncationAlarmIsReal ==
    /\ result = "truncated" => shrunk
    /\ result = "unexpectedEOF" => torn

(***************************************************************************)
(* Every record the writer completes is handed over, unless a drain fails  *)
(* first.                                                                  *)
(***************************************************************************)
RecordsAreDelivered ==
    \A n \in 1..((MaxFileBytes - 1) \div 3) :
        (Len(grammar.records) >= n)
            ~> (Len(delivered) >= n \/ result \notin {"none", "ok", "closed"})

Stream == INSTANCE RecordStream WITH written <- grammar.records

(***************************************************************************)
(* The reader implements the record stream: a byte the writer adds         *)
(* completes at most one record, and the only step that hands a record     *)
(* over hands over the next one (drain, Next, Commit).                     *)
(***************************************************************************)
ImplementsRecordStream == Stream!StreamSpec
=============================================================================
