------------------------ MODULE GenerationReaderProofs ------------------------
(***************************************************************************)
(* The generation reader against the grammar of reports, for any file, any *)
(* record limit and read size, and however reads, writes, truncations and  *)
(* handler calls interleave.                                               *)
(*                                                                         *)
(* The argument has three parts.  What the decoder finds in a buffer is    *)
(* what the grammar finds in the file, if the buffer is a slice of it: a   *)
(* record (RecordIsFramed), an error (TooLargeIsCorrupt, InvalidIsCorrupt) *)
(* or nothing yet (NeedsMoreIsIncomplete).  The steps of the reader and    *)
(* the writer keep the buffer a slice.  So ReaderInv is inductive: the     *)
(* decoder is where the grammar is at the committed offset, and what was   *)
(* delivered are the records the grammar has found up to there.  No        *)
(* property a run checks is inductive alone: none of them says where the   *)
(* decoder is.                                                             *)
(***************************************************************************)
EXTENDS GenerationReader, ReportFramingProofs

\* t is the part of s that begins at the offset c.
IsSlice(t, s, c) ==
    /\ s \in Seq(Byte) /\ t \in Seq(Byte) /\ c \in Nat
    /\ c + Len(t) <= Len(s)
    /\ \A i \in 1..Len(t) : t[i] = s[c + i]

\* What Next has found of the buffer when it asks for more data.
AwaitsMore == IF opened THEN NeedsMore(buffer) ELSE Blank(buffer, 1)

\* A pending record is the one Next finds in the buffer (Next, Commit).
PendingIsFramed ==
    pending # NoRecord =>
        /\ opened /\ ~closed /\ pc \in {"apply", "idle", "next"}
        /\ \E i, e, d \in DOMAIN buffer :
            /\ RecordAt(buffer, i, e, d)
            /\ pending = [start |-> committed + i - 1, end |-> committed + d,
                          closesArray |-> buffer[d] = "]"]

\* What the flags of the decoder say at each step of drain.
ControlInv ==
    /\ pc = "apply" => pending # NoRecord
    /\ pc \in {"stat", "read"} => ~closed
    /\ closed => opened /\ buffer = <<>>
    /\ recordsSeen <=> delivered # <<>>

\* Why drain asked for more data, or returned as it did.
ReturnInv ==
    /\ pc = "stat" => AwaitsMore
    /\ pc = "idle" /\ result = "ok" => AwaitsMore /\ ~closed /\ pending = NoRecord
    /\ pc = "idle" /\ result = "closed" => closed
    /\ result \in {"framing", "tooLarge"} => pc = "idle"
    /\ result = "truncated" => shrunk

\* The grammar is that of the file, which is cut only if it may be.
FileInv ==
    /\ grammar = Framing(file)
    /\ shrunk => MayTruncate

\* Unless the file was cut below the read offset: the buffer is a slice of it,
\* what was delivered are the records up to the committed offset, the decoder
\* is where the grammar is there, and what drain rejected is corrupt.
FramedInv ==
    ~shrunk =>
        /\ IsSlice(buffer, file, committed)
        /\ After(file, committed).records = delivered
        /\ After(file, committed).at
              = IF closed THEN "closed" ELSE IF opened THEN "value" ELSE "open"
        /\ result \in {"framing", "tooLarge"} =>
              After(file, ReadOffset).at = "corrupt"

\* The inductive invariant.
ReaderInv ==
    TypeOK /\ PendingIsFramed /\ ControlInv /\ ReturnInv /\ FileInv /\ FramedInv
-----------------------------------------------------------------------------
(***************************************************************************)
(* What the framing inside a buffer means in the file.                     *)
(***************************************************************************)

\* skipWhitespace ends at a byte unless there is nothing but whitespace.
LEMMA NonBlankExists ==
    ASSUME NEW t \in Seq(Byte), NEW i \in Nat, ~Blank(t, i)
    PROVE \E j \in i..Len(t) : NonBlank(t, i, j)
  <1> DEFINE S == {k \in i..Len(t) : t[k] # "w"}
  <1>0. Len(t) \in Nat
    BY LenProperties
  <1>1. S \subseteq Nat /\ S # {}
    BY <1>0 DEF Blank
  <1>2. PICK m \in S : \A n \in S : m <= n
    <2> HIDE DEF S
    <2> QED
      BY <1>1, LeastElement
  <1>3. NonBlank(t, i, m)
    BY <1>0, <1>2 DEF NonBlank
  <1> QED
    BY <1>2, <1>3

\* The scanner stops inside the buffer unless the object goes on to its end.
LEMMA ScanStopExists ==
    ASSUME NEW t \in Seq(Byte), NEW i \in 1..Len(t),
           \E k \in (i + 1)..Len(t) : t[k] \notin Interior
    PROVE \E e \in (i + 1)..Len(t) : ScanStop(t, i, e)
  <1> DEFINE S == {k \in (i + 1)..Len(t) : t[k] \notin Interior}
  <1>0. Len(t) \in Nat
    BY LenProperties
  <1>1. S \subseteq Nat /\ S # {}
    BY <1>0
  <1>2. PICK m \in S : \A n \in S : m <= n
    <2> HIDE DEF S
    <2> QED
      BY <1>1, LeastElement
  <1>3. ScanStop(t, i, m)
    BY <1>0, <1>2 DEF ScanStop
  <1> QED
    BY <1>2, <1>3

\* Whitespace in the buffer leaves the file where it is in the grammar.
LEMMA BlankSlice ==
    ASSUME NEW t, NEW s, NEW c, IsSlice(t, s, c),
           NEW m \in 0..Len(t), NEW n \in m..Len(t),
           After(s, c + m).at \in {"open", "value", "delimiter", "closed"},
           \A k \in (m + 1)..n : t[k] = "w"
    PROVE /\ After(s, c + n).at = After(s, c + m).at
          /\ After(s, c + n).start = After(s, c + m).start
          /\ After(s, c + n).records = After(s, c + m).records
  <1>1. /\ s \in Seq(Byte) /\ t \in Seq(Byte) /\ c \in Nat /\ Len(s) \in Nat
        /\ Len(t) \in Nat /\ c + Len(t) <= Len(s)
        /\ \A i \in 1..Len(t) : t[i] = s[c + i]
    BY LenProperties DEF IsSlice
  <1> DEFINE a == c + m
             b == c + n
  <1>2. a \in 0..Len(s) /\ b \in a..Len(s)
    BY <1>1
  <1>3. \A k \in (a + 1)..b : s[k] = "w"
    <2> TAKE k \in (a + 1)..b
    <2>1. k - c \in (m + 1)..n /\ k - c \in 1..Len(t) /\ c + (k - c) = k
      BY <1>1
    <2>2. t[k - c] = "w" /\ t[k - c] = s[c + (k - c)]
      BY <1>1, <2>1
    <2> QED
      BY <2>1, <2>2
  <1>4. After(s, a).at \in {"open", "value", "delimiter", "closed"}
    OBVIOUS
  <1> HIDE DEF a, b
  <1>5. /\ After(s, b).at = After(s, a).at /\ After(s, b).start = After(s, a).start
        /\ After(s, b).records = After(s, a).records
    BY <1>1, <1>2, <1>3, <1>4, BlankStays
  <1> QED
    BY <1>5 DEF a, b

\* One byte of the buffer is one byte of the file.
LEMMA SliceNext ==
    ASSUME NEW t, NEW s, NEW c, IsSlice(t, s, c), NEW k \in 1..Len(t)
    PROVE /\ c + k - 1 \in Nat /\ c + k - 1 < Len(s) /\ c + k - 1 + 1 = c + k
          /\ s[c + k] = t[k] /\ t[k] \in Byte
          /\ c + k \in 0..Len(s) /\ c + Len(t) \in (c + k)..Len(s)
  <1>1. /\ s \in Seq(Byte) /\ t \in Seq(Byte) /\ c \in Nat /\ Len(s) \in Nat
        /\ Len(t) \in Nat /\ c + Len(t) <= Len(s)
        /\ \A i \in 1..Len(t) : t[i] = s[c + i]
    BY LenProperties DEF IsSlice
  <1>2. t[k] \in Byte
    BY <1>1, ElementOfSeq
  <1> QED
    BY <1>1, <1>2

\* A corrupt byte in the buffer leaves the file corrupt at the buffer's end.
LEMMA CorruptSlice ==
    ASSUME NEW t, NEW s, NEW c, IsSlice(t, s, c), NEW k \in 1..Len(t),
           After(s, c + k).at = "corrupt"
    PROVE After(s, c + Len(t)).at = "corrupt"
  <1>1. s \in Seq(Byte) /\ c + k \in 0..Len(s) /\ c + Len(t) \in (c + k)..Len(s)
    BY SliceNext DEF IsSlice
  <1> QED
    BY <1>1, CorruptStays

\* The bytes of an object up to n, while the scanner goes on.
LEMMA ObjectSlice ==
    ASSUME NEW t, NEW s, NEW c, IsSlice(t, s, c),
           NEW i \in 1..Len(t), NEW n \in i..Len(t),
           After(s, c + i - 1).at = "value", t[i] = "first",
           \A k \in (i + 1)..n : t[k] \in Interior
    PROVE IF n - i + 1 <= MaxRecordBytes
          THEN /\ After(s, c + n).at = "object"
               /\ After(s, c + n).start = c + i - 1
               /\ After(s, c + n).records = After(s, c + i - 1).records
          ELSE After(s, c + n).at = "corrupt"
  <1>1. /\ s \in Seq(Byte) /\ t \in Seq(Byte) /\ c \in Nat /\ Len(s) \in Nat
        /\ Len(t) \in Nat /\ c + Len(t) <= Len(s)
        /\ \A k \in 1..Len(t) : t[k] = s[c + k]
    BY LenProperties DEF IsSlice
  <1>2. MaxRecordBytes \in Nat /\ MaxRecordBytes >= 1
    BY MaxRecordBytesAssumption
  <1> DEFINE x == c + i - 1
             a == c + i
             b == c + n
  <1>3. x \in Nat /\ x < Len(s) /\ a = x + 1 /\ a \in 0..Len(s) /\ b \in a..Len(s)
        /\ s[x + 1] = "first"
    BY <1>1
  <1>4. \A k \in (a + 1)..b : s[k] \in Interior
    <2> TAKE k \in (a + 1)..b
    <2>1. k - c \in (i + 1)..n /\ k - c \in 1..Len(t) /\ c + (k - c) = k
      BY <1>1
    <2>2. t[k - c] \in Interior /\ t[k - c] = s[c + (k - c)]
      BY <1>1, <2>1
    <2> QED
      BY <2>1, <2>2
  <1>5. n - i + 1 = b - x
    BY <1>1
  <1>6. After(s, x).at = "value"
    OBVIOUS
  <1> HIDE DEF x, a, b
  <1>7. /\ After(s, a).at = "object" /\ After(s, a).start = x
        /\ After(s, a).records = After(s, x).records
    BY <1>1, <1>3, <1>6, AfterNext
  <1>8. IF b - x <= MaxRecordBytes
        THEN /\ After(s, b).at = "object" /\ After(s, b).start = x
             /\ After(s, b).records = After(s, a).records
        ELSE After(s, b).at = "corrupt"
    <2>1. a - After(s, a).start <= MaxRecordBytes
      BY <1>2, <1>3, <1>7
    <2> QED
      BY <1>1, <1>3, <1>4, <1>7, <2>1, InsideStays
  <1> QED
    BY <1>5, <1>7, <1>8 DEF x, a, b

\* The byte the scanner stops at ends the object or corrupts the file.
LEMMA ScanStopSlice ==
    ASSUME NEW t, NEW s, NEW c, IsSlice(t, s, c), NEW i \in 1..Len(t),
           NEW e \in (i + 1)..Len(t), ScanStop(t, i, e),
           After(s, c + i - 1).at = "value", t[i] = "first"
    PROVE IF t[e] = "last" /\ e - i + 1 <= MaxRecordBytes
          THEN /\ After(s, c + e).at = "delimiter"
               /\ After(s, c + e).start = c + i - 1
               /\ After(s, c + e).records = After(s, c + i - 1).records
          ELSE After(s, c + e).at = "corrupt"
  <1>1. Len(t) \in Nat /\ c \in Nat /\ MaxRecordBytes \in Nat
    BY LenProperties, MaxRecordBytesAssumption DEF IsSlice
  <1> DEFINE n == e - 1
             y == c + n
             x == c + i - 1
  <1>2. n \in i..Len(t) /\ \A k \in (i + 1)..n : t[k] \in Interior
    BY <1>1 DEF ScanStop
  <1>3. n - i + 1 = y - x /\ e - i + 1 = y + 1 - x /\ y \in Nat /\ x \in Nat
        /\ c + e = y + 1
    BY <1>1
  <1>4. IF n - i + 1 <= MaxRecordBytes
        THEN /\ After(s, y).at = "object" /\ After(s, y).start = x
             /\ After(s, y).records = After(s, x).records
        ELSE After(s, y).at = "corrupt"
    <2> HIDE DEF n
    <2> QED
      BY <1>2, ObjectSlice
  <1>5. /\ s \in Seq(Byte) /\ y < Len(s) /\ s[y + 1] = t[e]
    <2>1. s \in Seq(Byte) /\ e \in 1..Len(t) /\ e \in Nat
      BY <1>1 DEF IsSlice
    <2>2. c + e - 1 < Len(s) /\ s[c + e] = t[e]
      BY <2>1, SliceNext
    <2>3. c + e - 1 = y /\ c + e = y + 1
      BY <1>1, <2>1
    <2> QED
      BY <2>1, <2>2, <2>3
  <1>6. t[e] \notin Interior
    BY DEF ScanStop
  <1>7. IF t[e] = "last" /\ y + 1 - x <= MaxRecordBytes
        THEN /\ After(s, y + 1).at = "delimiter" /\ After(s, y + 1).start = x
             /\ After(s, y + 1).records = After(s, x).records
        ELSE After(s, y + 1).at = "corrupt"
    <2> HIDE DEF n, x, y
    <2>1. CASE y - x <= MaxRecordBytes
      <3>1. /\ After(s, y).at = "object" /\ After(s, y).start = x
            /\ After(s, y).records = After(s, x).records
        BY <1>3, <1>4, <2>1
      <3>2. y + 1 - x > MaxRecordBytes <=> ~(y + 1 - x <= MaxRecordBytes)
        BY <1>1, <1>3
      <3> QED
        BY <1>3, <1>5, <1>6, <3>1, <3>2, AfterNext
    <2>2. CASE ~(y - x <= MaxRecordBytes)
      <3>1. After(s, y).at = "corrupt" /\ ~(y + 1 - x <= MaxRecordBytes)
        BY <1>1, <1>3, <1>4, <2>2
      <3>2. After(s, y + 1).at = "corrupt"
        BY <1>3, <1>5, <3>1, AfterNext
      <3> QED
        BY <3>1, <3>2
    <2> QED
      BY <2>1, <2>2
  <1> QED
    BY <1>3, <1>7

\* Up to the first byte that is not whitespace nothing happens.
LEMMA NonBlankSlice ==
    ASSUME NEW t, NEW s, NEW c, IsSlice(t, s, c),
           NEW m \in 0..Len(t), NEW j \in (m + 1)..Len(t), NonBlank(t, m + 1, j),
           After(s, c + m).at \in {"open", "value", "delimiter", "closed"}
    PROVE /\ After(s, c + j - 1).at = After(s, c + m).at
          /\ After(s, c + j - 1).start = After(s, c + m).start
          /\ After(s, c + j - 1).records = After(s, c + m).records
          /\ t[j] # "w" /\ j \in 1..Len(t)
  <1>1. Len(t) \in Nat /\ c \in Nat
    BY LenProperties DEF IsSlice
  <1> DEFINE n == j - 1
  <1>2. /\ n \in m..Len(t) /\ \A k \in (m + 1)..n : t[k] = "w"
        /\ c + n = c + j - 1 /\ j \in 1..Len(t) /\ t[j] # "w"
    BY <1>1 DEF NonBlank
  <1> HIDE DEF n
  <1> QED
    BY <1>2, BlankSlice

\* Once the array is closed, anything but whitespace corrupts the file.
LEMMA ClosedSlice ==
    ASSUME NEW t, NEW s, NEW c, IsSlice(t, s, c), NEW m \in 0..Len(t),
           After(s, c + m).at = "closed"
    PROVE IF Blank(t, m + 1)
          THEN /\ After(s, c + Len(t)).at = "closed"
               /\ After(s, c + Len(t)).records = After(s, c + m).records
          ELSE After(s, c + Len(t)).at = "corrupt"
  <1>1. Len(t) \in Nat /\ c \in Nat /\ t \in Seq(Byte) /\ s \in Seq(Byte)
    BY LenProperties DEF IsSlice
  <1>2. CASE Blank(t, m + 1)
    <2>1. Len(t) \in m..Len(t) /\ \A k \in (m + 1)..Len(t) : t[k] = "w"
      BY <1>1, <1>2 DEF Blank
    <2> DEFINE n == Len(t)
    <2> HIDE DEF n
    <2> QED
      BY <1>2, <2>1, BlankSlice DEF n
  <1>3. CASE ~Blank(t, m + 1)
    <2>1. m + 1 \in Nat
      BY <1>1
    <2>2. PICK j \in (m + 1)..Len(t) : NonBlank(t, m + 1, j)
      BY <1>1, <1>3, <2>1, NonBlankExists
    <2>3. After(s, c + j - 1).at = "closed" /\ t[j] # "w" /\ j \in 1..Len(t)
      BY <2>2, NonBlankSlice
    <2>4. /\ c + j - 1 \in Nat /\ c + j - 1 < Len(s) /\ c + j - 1 + 1 = c + j
          /\ s[c + j] = t[j]
      BY <2>3, SliceNext
    <2> DEFINE y == c + j - 1
               z == c + j
    <2> HIDE DEF y, z
    <2>5. After(s, y + 1).at = "corrupt" /\ y + 1 = z
      BY <1>1, <2>3, <2>4, AfterNext DEF y, z
    <2>6. After(s, c + j).at = "corrupt"
      BY <2>5 DEF z
    <2> QED
      BY <1>3, <2>3, <2>6, CorruptSlice
  <1> QED
    BY <1>2, <1>3

\* The first byte of the buffer that is not whitespace, where a record is due.
LEMMA FirstByte ==
    ASSUME NEW t, NEW s, NEW c, IsSlice(t, s, c), NEW i \in 1..Len(t),
           NonBlank(t, 1, i), After(s, c).at \in {"open", "value"}
    PROVE /\ After(s, c + i - 1).at = After(s, c).at
          /\ After(s, c + i - 1).records = After(s, c).records
          /\ t[i] # "w"
  <1>1. Len(t) \in Nat /\ c \in Nat /\ 0 \in 0..Len(t) /\ c + 0 = c
        /\ i \in (0 + 1)..Len(t) /\ NonBlank(t, 0 + 1, i)
    BY LenProperties DEF IsSlice
  <1>2. After(s, c + 0).at \in {"open", "value", "delimiter", "closed"}
    BY <1>1
  <1> QED
    BY <1>1, <1>2, NonBlankSlice

\* An object of permitted size in the buffer, and what follows it.
LEMMA ObjectAt ==
    ASSUME NEW t, NEW s, NEW c, IsSlice(t, s, c), After(s, c).at = "value",
           NEW i \in 1..Len(t), NEW e \in 1..Len(t),
           NonBlank(t, 1, i), t[i] = "first", ObjectEnds(t, i, e),
           e - i + 1 <= MaxRecordBytes
    PROVE /\ After(s, c + e).at = "delimiter" /\ After(s, c + e).start = c + i - 1
          /\ After(s, c + e).records = After(s, c).records
  <1>1. After(s, c + i - 1).at = "value"
        /\ After(s, c + i - 1).records = After(s, c).records
    BY FirstByte
  <1>2. e \in (i + 1)..Len(t) /\ ScanStop(t, i, e) /\ t[e] = "last"
    BY DEF ObjectEnds, ScanStop
  <1>3. /\ After(s, c + e).at = "delimiter" /\ After(s, c + e).start = c + i - 1
        /\ After(s, c + e).records = After(s, c + i - 1).records
    BY <1>1, <1>2, ScanStopSlice
  <1> QED
    BY <1>1, <1>3

\* How much of the buffer Commit drops with a record whose delimiter is at d.
Dealt(t, d) == IF t[d] = "]" THEN Len(t) ELSE d

\* What Next returns as a record is the next record of the file, and its
\* delimiter says whether the array goes on (Next).
LEMMA RecordIsFramed ==
    ASSUME NEW t, NEW s, NEW c, IsSlice(t, s, c), After(s, c).at = "value",
           NEW i \in 1..Len(t), NEW e \in 1..Len(t), NEW d \in 1..Len(t),
           RecordAt(t, i, e, d)
    PROVE /\ After(s, c + Dealt(t, d)).at
                = IF t[d] = "]" THEN "closed" ELSE "value"
          /\ After(s, c + Dealt(t, d)).records
                = Append(After(s, c).records, <<c + i - 1, c + d>>)
  <1>1. Len(t) \in Nat /\ c \in Nat /\ s \in Seq(Byte)
    BY LenProperties DEF IsSlice
  <1>2. /\ After(s, c + e).at = "delimiter" /\ After(s, c + e).start = c + i - 1
        /\ After(s, c + e).records = After(s, c).records
    BY ObjectAt DEF RecordAt
  <1>3. e \in 0..Len(t) /\ d \in (e + 1)..Len(t) /\ NonBlank(t, e + 1, d)
        /\ t[d] \in {"comma", "]"} /\ (t[d] = "]" => Blank(t, d + 1))
    BY <1>1 DEF RecordAt, NonBlank
  <1> DEFINE y == c + d - 1
             x == c + i - 1
             z == c + d
  <1>4. /\ After(s, y).at = "delimiter" /\ After(s, y).start = x
        /\ After(s, y).records = After(s, c).records
    BY <1>2, <1>3, NonBlankSlice
  <1>5. y \in Nat /\ y < Len(s) /\ y + 1 = z /\ s[y + 1] = t[d]
    BY SliceNext DEF IsSlice
  <1>6. /\ After(s, z).at = IF t[d] = "]" THEN "closed" ELSE "value"
        /\ After(s, z).records = Append(After(s, c).records, <<x, z>>)
    <2> HIDE DEF y, x, z
    <2> QED
      BY <1>1, <1>3, <1>4, <1>5, AfterNext
  <1>7. CASE t[d] = "]"
    <2>1. /\ After(s, c + Len(t)).at = "closed"
          /\ After(s, c + Len(t)).records = After(s, c + d).records
      <3>1. d \in 0..Len(t) /\ Blank(t, d + 1) /\ After(s, c + d).at = "closed"
        BY <1>3, <1>6, <1>7
      <3> QED
        BY <3>1, ClosedSlice
    <2> QED
      BY <1>6, <1>7, <2>1 DEF Dealt
  <1>8. CASE t[d] # "]"
    BY <1>6, <1>8 DEF Dealt
  <1> QED
    BY <1>7, <1>8

\* The opening bracket is where the array begins (consumeOpeningBracket).
LEMMA BracketOpens ==
    ASSUME NEW t, NEW s, NEW c, IsSlice(t, s, c), After(s, c).at = "open",
           NEW i \in 1..Len(t), NonBlank(t, 1, i)
    PROVE IF t[i] = "["
          THEN /\ After(s, c + i).at = "value"
               /\ After(s, c + i).records = After(s, c).records
          ELSE After(s, c + Len(t)).at = "corrupt"
  <1> DEFINE y == c + i - 1
             z == c + i
  <1>1. /\ After(s, y).at = "open" /\ After(s, y).records = After(s, c).records
        /\ t[i] # "w"
    BY FirstByte
  <1>2. s \in Seq(Byte) /\ y \in Nat /\ y < Len(s) /\ y + 1 = z /\ s[y + 1] = t[i]
    BY SliceNext DEF IsSlice
  <1>3. /\ After(s, z).at = IF t[i] = "[" THEN "value" ELSE "corrupt"
        /\ After(s, z).records = After(s, c).records
    <2> HIDE DEF y, z
    <2> QED
      BY <1>1, <1>2, AfterNext
  <1>4. t[i] # "[" => After(s, c + Len(t)).at = "corrupt"
    BY <1>3, CorruptSlice
  <1> QED
    BY <1>3, <1>4

\* "]" where a record is due closes an array that has none (Next).
LEMMA BracketCloses ==
    ASSUME NEW t, NEW s, NEW c, IsSlice(t, s, c), After(s, c).at = "value",
           NEW i \in 1..Len(t), NonBlank(t, 1, i), t[i] = "]"
    PROVE IF After(s, c).records = <<>> /\ Blank(t, i + 1)
          THEN /\ After(s, c + Len(t)).at = "closed"
               /\ After(s, c + Len(t)).records = After(s, c).records
          ELSE After(s, c + Len(t)).at = "corrupt"
  <1> DEFINE y == c + i - 1
             z == c + i
  <1>1. /\ After(s, y).at = "value" /\ After(s, y).records = After(s, c).records
    BY FirstByte
  <1>2. s \in Seq(Byte) /\ y \in Nat /\ y < Len(s) /\ y + 1 = z /\ s[y + 1] = t[i]
    BY SliceNext DEF IsSlice
  <1>3. /\ After(s, z).at = IF After(s, c).records = <<>> THEN "closed" ELSE "corrupt"
        /\ After(s, z).records = After(s, c).records
    <2> HIDE DEF y, z
    <2> QED
      BY <1>1, <1>2, AfterNext
  <1>4. CASE After(s, c).records = <<>>
    <2>1. Len(t) \in Nat /\ i \in 0..Len(t) /\ After(s, c + i).at = "closed"
      BY <1>3, <1>4, LenProperties DEF IsSlice
    <2> QED
      BY <1>3, <1>4, <2>1, ClosedSlice
  <1>5. CASE After(s, c).records # <<>>
    BY <1>3, <1>5, CorruptSlice
  <1> QED
    BY <1>4, <1>5

\* A complete or partial object over the limit is in a file that is corrupt,
\* with --max-record-bytes part of the grammar (decodeObject).
LEMMA TooLargeIsCorrupt ==
    ASSUME NEW t, NEW s, NEW c, IsSlice(t, s, c), After(s, c).at = "value",
           IsTooLarge(t)
    PROVE After(s, c + Len(t)).at = "corrupt"
  <1>1. /\ Len(t) \in Nat /\ t \in Seq(Byte) /\ DOMAIN t = 1..Len(t)
        /\ MaxRecordBytes \in Nat
    BY LenProperties, MaxRecordBytesAssumption DEF IsSlice
  <1>2. PICK i \in 1..Len(t) :
            NonBlank(t, 1, i) /\ t[i] = "first" /\ ObjectTooLarge(t, i)
    BY <1>1 DEF IsTooLarge
  <1>3. After(s, c + i - 1).at = "value"
    BY <1>2, FirstByte
  <1>4. ASSUME NEW e \in (i + 1)..Len(t), ScanStop(t, i, e),
               ~(t[e] = "last" /\ e - i + 1 <= MaxRecordBytes)
        PROVE After(s, c + Len(t)).at = "corrupt"
    <2>1. After(s, c + e).at = "corrupt"
      BY <1>2, <1>3, <1>4, ScanStopSlice
    <2>2. e \in 1..Len(t)
      BY <1>1
    <2> QED
      BY <2>1, <2>2, CorruptSlice
  <1>5. CASE \E e \in DOMAIN t : ObjectEnds(t, i, e) /\ e - i + 1 > MaxRecordBytes
    <2>1. PICK e \in 1..Len(t) : ObjectEnds(t, i, e) /\ e - i + 1 > MaxRecordBytes
      BY <1>1, <1>5
    <2>2. e \in (i + 1)..Len(t) /\ ScanStop(t, i, e) /\ ~(e - i + 1 <= MaxRecordBytes)
      BY <1>1, <2>1 DEF ObjectEnds, ScanStop
    <2> QED
      BY <1>4, <2>2
  <1>6. CASE ObjectIncomplete(t, i) /\ Len(t) - i + 1 > MaxRecordBytes
    <2>1. CASE \E k \in (i + 1)..Len(t) : t[k] \notin Interior
      <3>1. PICK e \in (i + 1)..Len(t) : ScanStop(t, i, e)
        BY <1>1, <2>1, ScanStopExists
      <3>2. t[e] # "last"
        BY <1>6, <3>1 DEF ObjectIncomplete
      <3> QED
        BY <1>4, <3>1, <3>2
    <2>2. CASE \A k \in (i + 1)..Len(t) : t[k] \in Interior
      <3> DEFINE n == Len(t)
      <3>1. /\ n \in i..Len(t) /\ \A k \in (i + 1)..n : t[k] \in Interior
            /\ ~(n - i + 1 <= MaxRecordBytes)
        BY <1>1, <1>6, <2>2
      <3> HIDE DEF n
      <3>2. After(s, c + n).at = "corrupt"
        BY <1>2, <1>3, <3>1, ObjectSlice
      <3> QED
        BY <3>2 DEF n
    <2> QED
      BY <2>1, <2>2
  <1> QED
    BY <1>2, <1>5, <1>6 DEF ObjectTooLarge

\* What Next calls invalid framing corrupts the file: nothing that may still
\* become a record is rejected (Next, decodeObject, isIncomplete).
LEMMA InvalidIsCorrupt ==
    ASSUME NEW t, NEW s, NEW c, IsSlice(t, s, c), After(s, c).at = "value",
           recordsSeen <=> After(s, c).records # <<>>,
           ~IsRecord(t), ~IsEmptyArrayEnd(t), ~IsTooLarge(t), ~NeedsMore(t)
    PROVE After(s, c + Len(t)).at = "corrupt"
  <1>1. /\ Len(t) \in Nat /\ t \in Seq(Byte) /\ DOMAIN t = 1..Len(t)
        /\ s \in Seq(Byte) /\ c \in Nat
    BY LenProperties DEF IsSlice
  <1>2. PICK i \in 1..Len(t) : NonBlank(t, 1, i)
    <2>1. ~Blank(t, 1) /\ 1 \in Nat
      BY DEF NeedsMore
    <2> QED
      BY <1>1, <2>1, NonBlankExists
  <1>3. After(s, c + i - 1).at = "value" /\ t[i] # "w" /\ t[i] \in Byte
    BY <1>1, <1>2, FirstByte, ElementOfSeq
  <1>4. CASE t[i] = "]"
    <2>1. ~(After(s, c).records = <<>> /\ Blank(t, i + 1))
      BY <1>1, <1>2, <1>4 DEF IsEmptyArrayEnd
    <2> QED
      BY <1>2, <1>4, <2>1, BracketCloses
  <1>5. CASE t[i] = "first"
    <2>1. ~ObjectTooLarge(t, i)
      BY <1>1, <1>2, <1>5 DEF IsTooLarge
    <2>2. ~ObjectIncomplete(t, i)
      BY <1>1, <1>2, <1>5, <2>1 DEF NeedsMore
    <2>3. PICK e \in (i + 1)..Len(t) : ScanStop(t, i, e)
      BY <2>2 DEF ObjectIncomplete
    <2>4. e \in 1..Len(t) /\ e \in 0..Len(t) /\ e + 1 \in Nat
      BY <1>1
    <2>5. CASE t[e] # "last"
      <3>1. After(s, c + e).at = "corrupt"
        BY <1>3, <1>5, <2>3, <2>5, ScanStopSlice
      <3> QED
        BY <2>4, <3>1, CorruptSlice
    <2>6. CASE t[e] = "last"
      <3>1. ObjectEnds(t, i, e)
        BY <2>3, <2>6 DEF ObjectEnds
      <3>2. e - i + 1 <= MaxRecordBytes
        BY <1>1, <2>1, <2>4, <3>1, MaxRecordBytesAssumption DEF ObjectTooLarge
      <3>3. ~Blank(t, e + 1)
        BY <1>1, <1>2, <1>5, <2>1, <2>4, <3>1 DEF NeedsMore
      <3>4. PICK d \in (e + 1)..Len(t) : NonBlank(t, e + 1, d)
        BY <1>1, <2>4, <3>3, NonBlankExists
      <3>5. After(s, c + e).at = "delimiter"
        BY <1>2, <1>5, <2>4, <3>1, <3>2, ObjectAt
      <3>6. After(s, c + d - 1).at = "delimiter" /\ t[d] # "w" /\ d \in 1..Len(t)
        BY <2>4, <3>4, <3>5, NonBlankSlice
      <3>7. t[d] # "comma" /\ (t[d] = "]" => ~Blank(t, d + 1))
        BY <1>1, <1>2, <1>5, <2>4, <3>1, <3>2, <3>4, <3>6 DEF IsRecord, RecordAt
      <3> DEFINE y == c + d - 1
                 z == c + d
      <3>8. y \in Nat /\ y < Len(s) /\ y + 1 = z /\ s[y + 1] = t[d]
        BY <3>6, SliceNext DEF IsSlice
      <3>9. After(s, z).at = IF t[d] = "]" THEN "closed" ELSE "corrupt"
        <4> HIDE DEF y, z
        <4>1. After(s, y).at = "delimiter" /\ t[d] \notin {"comma", "w"}
          BY <3>6, <3>7 DEF y
        <4> QED
          BY <1>1, <3>8, <4>1, AfterNext
      <3>10. CASE t[d] = "]"
        <4>1. d \in 0..Len(t) /\ ~Blank(t, d + 1) /\ After(s, c + d).at = "closed"
          BY <1>1, <3>6, <3>7, <3>9, <3>10
        <4> QED
          BY <4>1, ClosedSlice
      <3>11. CASE t[d] # "]"
        BY <3>6, <3>9, <3>11, CorruptSlice
      <3> QED
        BY <3>10, <3>11
    <2> QED
      BY <2>5, <2>6
  <1>6. CASE t[i] \notin {"first", "]"}
    <2> DEFINE y == c + i - 1
               z == c + i
    <2>1. y \in Nat /\ y < Len(s) /\ y + 1 = z /\ s[y + 1] = t[i]
      BY SliceNext DEF IsSlice
    <2>2. After(s, z).at = "corrupt"
      <3> HIDE DEF y, z
      <3>1. After(s, y).at = "value"
        BY <1>3 DEF y
      <3> QED
        BY <1>1, <1>3, <1>6, <2>1, <3>1, AfterNext
    <2> QED
      BY <2>2, CorruptSlice
  <1> QED
    BY <1>4, <1>5, <1>6

\* A buffer of whitespace completes nothing.
LEMMA BlankBuffer ==
    ASSUME NEW t, NEW s, NEW c, IsSlice(t, s, c), Blank(t, 1),
           After(s, c).at \in {"open", "value", "closed"}
    PROVE /\ After(s, c + Len(t)).at = After(s, c).at
          /\ After(s, c + Len(t)).records = After(s, c).records
  <1> DEFINE m == 0
             n == Len(t)
  <1>1. /\ m \in 0..Len(t) /\ n \in m..Len(t) /\ c + m = c
        /\ \A k \in (m + 1)..n : t[k] = "w"
    BY LenProperties DEF IsSlice, Blank
  <1>2. After(s, c + m).at \in {"open", "value", "delimiter", "closed"}
    BY <1>1
  <1> HIDE DEF m, n
  <1>3. /\ After(s, c + n).at = After(s, c + m).at
        /\ After(s, c + n).records = After(s, c + m).records
    BY <1>1, <1>2, BlankSlice
  <1> QED
    BY <1>1, <1>3 DEF n

\* When Next asks for more data the buffer completes no record and does not
\* close the array, and if it is corrupt its last byte is what corrupts it:
\* isIncomplete takes a byte rejected at the very end for a partial object.
LEMMA NeedsMoreIsIncomplete ==
    ASSUME NEW t, NEW s, NEW c, IsSlice(t, s, c), After(s, c).at = "value",
           NeedsMore(t)
    PROVE LET last == After(s, c + Len(t))
          IN  /\ last.records = After(s, c).records /\ last.at # "closed"
              /\ last.at = "corrupt" =>
                    Len(t) > 0 /\ After(s, c + Len(t) - 1).at # "corrupt"
  <1>1. /\ Len(t) \in Nat /\ t \in Seq(Byte) /\ DOMAIN t = 1..Len(t)
        /\ s \in Seq(Byte) /\ c \in Nat /\ MaxRecordBytes \in Nat
    BY LenProperties, MaxRecordBytesAssumption DEF IsSlice
  <1>2. CASE Blank(t, 1)
    BY <1>2, BlankBuffer
  <1>3. CASE ~Blank(t, 1)
    <2>1. PICK i \in 1..Len(t) :
            /\ NonBlank(t, 1, i) /\ t[i] = "first" /\ ~ObjectTooLarge(t, i)
            /\ \/ ObjectIncomplete(t, i)
               \/ \E e \in 1..Len(t) : ObjectEnds(t, i, e) /\ Blank(t, e + 1)
      BY <1>1, <1>3 DEF NeedsMore
    <2>2. After(s, c + i - 1).at = "value"
          /\ After(s, c + i - 1).records = After(s, c).records
      BY <2>1, FirstByte
    <2>3. CASE ObjectIncomplete(t, i)
      <3>1. Len(t) - i + 1 <= MaxRecordBytes
        BY <1>1, <2>1, <2>3 DEF ObjectTooLarge
      <3>2. CASE \A k \in (i + 1)..Len(t) : t[k] \in Interior
        <4> DEFINE n == Len(t)
        <4>1. /\ n \in i..Len(t) /\ \A k \in (i + 1)..n : t[k] \in Interior
              /\ n - i + 1 <= MaxRecordBytes
          BY <1>1, <3>1, <3>2
        <4> HIDE DEF n
        <4>2. /\ After(s, c + n).at = "object"
              /\ After(s, c + n).records = After(s, c + i - 1).records
          BY <2>1, <2>2, <4>1, ObjectSlice
        <4> QED
          BY <2>2, <4>2 DEF n
      <3>3. CASE \E k \in (i + 1)..Len(t) : t[k] \notin Interior
        <4>1. PICK e \in (i + 1)..Len(t) : ScanStop(t, i, e)
          BY <1>1, <3>3, ScanStopExists
        <4>2. e = Len(t)
          BY <2>3, <4>1 DEF ObjectIncomplete
        <4> DEFINE n == e - 1
                   y == c + n
        <4>3. /\ n \in i..Len(t) /\ \A k \in (i + 1)..n : t[k] \in Interior
              /\ n - i + 1 <= MaxRecordBytes
          BY <1>1, <3>1, <4>1, <4>2 DEF ScanStop
        <4>4. /\ y \in Nat /\ y < Len(s) /\ y + 1 = c + Len(t)
              /\ y = c + Len(t) - 1 /\ Len(t) > 0
          <5>1. e \in 1..Len(t)
            BY <1>1
          <5>2. c + e - 1 \in Nat /\ c + e - 1 < Len(s)
            BY <5>1, SliceNext
          <5> QED
            BY <1>1, <4>2, <5>1, <5>2
        <4>5. After(s, y).at = "object"
              /\ After(s, y).records = After(s, c).records
          <5> HIDE DEF n
          <5> QED
            BY <2>1, <2>2, <4>3, ObjectSlice
        <4> HIDE DEF y
        <4>6. /\ After(s, y + 1).records = After(s, c).records
              /\ After(s, y + 1).at # "closed"
          BY <1>1, <4>4, <4>5, AfterNext
        <4> QED
          BY <4>4, <4>5, <4>6
      <3> QED
        BY <3>2, <3>3
    <2>4. ASSUME NEW e \in 1..Len(t), ObjectEnds(t, i, e), Blank(t, e + 1)
          PROVE /\ After(s, c + Len(t)).at = "delimiter"
                /\ After(s, c + Len(t)).records = After(s, c).records
      <3>1. e - i + 1 <= MaxRecordBytes
        BY <1>1, <2>1, <2>4 DEF ObjectTooLarge
      <3>2. /\ After(s, c + e).at = "delimiter"
            /\ After(s, c + e).records = After(s, c).records
        BY <2>1, <2>4, <3>1, ObjectAt
      <3> DEFINE n == Len(t)
      <3>3. /\ e \in 0..Len(t) /\ n \in e..Len(t)
            /\ \A k \in (e + 1)..n : t[k] = "w"
        BY <1>1, <2>4 DEF Blank
      <3> HIDE DEF n
      <3>4. /\ After(s, c + n).at = "delimiter"
            /\ After(s, c + n).records = After(s, c + e).records
        BY <3>2, <3>3, BlankSlice
      <3> QED
        BY <3>2, <3>4 DEF n
    <2> QED
      BY <2>1, <2>3, <2>4
  <1> QED
    BY <1>2, <1>3

\* A buffer that needs more holds one object within the limit, and otherwise
\* only whitespace (decodeObject's limit on a partial object).
LEMMA NeedsMoreIsSmall ==
    ASSUME NEW t \in Seq(Byte), NeedsMore(t),
           NEW i \in 1..Len(t), NEW j \in 1..Len(t),
           i <= j, t[i] # "w", t[j] # "w"
    PROVE j - i + 1 <= MaxRecordBytes
  <1>1. Len(t) \in Nat /\ DOMAIN t = 1..Len(t) /\ MaxRecordBytes \in Nat
    BY LenProperties, MaxRecordBytesAssumption
  <1>2. ~Blank(t, 1)
    BY <1>1 DEF Blank
  <1>3. PICK first \in 1..Len(t) :
            /\ NonBlank(t, 1, first) /\ ~ObjectTooLarge(t, first)
            /\ \/ ObjectIncomplete(t, first)
               \/ \E e \in 1..Len(t) : ObjectEnds(t, first, e) /\ Blank(t, e + 1)
    BY <1>1, <1>2 DEF NeedsMore
  <1>4. first <= i
    BY <1>1, <1>3 DEF NonBlank
  <1>5. CASE ObjectIncomplete(t, first)
    <2>1. Len(t) - first + 1 <= MaxRecordBytes
      BY <1>1, <1>3, <1>5 DEF ObjectTooLarge
    <2> QED
      BY <1>1, <1>4, <2>1
  <1>6. ASSUME NEW e \in 1..Len(t), ObjectEnds(t, first, e), Blank(t, e + 1)
        PROVE j - i + 1 <= MaxRecordBytes
    <2>1. e - first + 1 <= MaxRecordBytes
      BY <1>1, <1>3, <1>6 DEF ObjectTooLarge
    <2>2. j <= e
      BY <1>1, <1>6 DEF Blank
    <2> QED
      BY <1>1, <1>4, <2>1, <2>2
  <1> QED
    BY <1>3, <1>5, <1>6

-----------------------------------------------------------------------------
(***************************************************************************)
(* How the buffer and the file change.                                     *)
(***************************************************************************)

\* Dropping the first n bytes of the buffer (Commit, consumeStructuralBytes).
LEMMA ConsumeType ==
    ASSUME NEW t \in Seq(Byte), NEW n \in 0..Len(t)
    PROVE LET rest == SubSeq(t, n + 1, Len(t))
          IN  /\ rest \in Seq(Byte) /\ Len(rest) = Len(t) - n
              /\ \A i \in 1..Len(rest) : rest[i] = t[n + i]
              /\ n = Len(t) => rest = <<>>
  <1> DEFINE m == n + 1
             last == Len(t)
             rest == SubSeq(t, m, last)
  <1>1. Len(t) \in Nat /\ m \in Int /\ last \in Int
    BY LenProperties
  <1>2. \A i \in m..last : t[i] \in Byte
    BY <1>1, ElementOfSeq
  <1>3. /\ rest \in Seq(Byte) /\ Len(rest) = IF m <= last THEN last - m + 1 ELSE 0
        /\ \A i \in 1..last - m + 1 : rest[i] = t[m + i - 1]
    <2> HIDE DEF m, last, Byte
    <2> QED
      BY <1>1, <1>2, SubSeqProperties
  <1>4. Len(rest) = Len(t) - n
    BY <1>1, <1>3
  <1>5. \A i \in 1..Len(rest) : rest[i] = t[n + i]
    <2> TAKE i \in 1..Len(rest)
    <2>1. i \in 1..last - m + 1 /\ m + i - 1 = n + i
      BY <1>1, <1>4
    <2> HIDE DEF rest, m, last
    <2> QED
      BY <1>3, <2>1
  <1>6. n = Len(t) => rest = <<>>
    <2> HIDE DEF rest
    <2> QED
      BY <1>1, <1>3, <1>4, EmptySeq
  <1> QED
    BY <1>3, <1>4, <1>5, <1>6

\* What is left of the buffer is a slice at the offset reached.
LEMMA ConsumeSlice ==
    ASSUME NEW t, NEW s, NEW c, IsSlice(t, s, c), NEW n \in 0..Len(t)
    PROVE IsSlice(SubSeq(t, n + 1, Len(t)), s, c + n)
  <1> DEFINE rest == SubSeq(t, n + 1, Len(t))
  <1>1. /\ s \in Seq(Byte) /\ t \in Seq(Byte) /\ c \in Nat /\ Len(s) \in Nat
        /\ Len(t) \in Nat /\ c + Len(t) <= Len(s)
        /\ \A i \in 1..Len(t) : t[i] = s[c + i]
    BY LenProperties DEF IsSlice
  <1>2. /\ rest \in Seq(Byte) /\ Len(rest) = Len(t) - n
        /\ \A i \in 1..Len(rest) : rest[i] = t[n + i]
    BY <1>1, ConsumeType
  <1> HIDE DEF rest
  <1>3. \A i \in 1..Len(rest) : rest[i] = s[(c + n) + i]
    <2> TAKE i \in 1..Len(rest)
    <2>1. n + i \in 1..Len(t) /\ c + (n + i) = (c + n) + i
      BY <1>1, <1>2
    <2>2. t[n + i] = s[c + (n + i)]
      BY <1>1, <2>1
    <2> QED
      BY <1>2, <2>1, <2>2
  <1>4. c + n \in Nat /\ (c + n) + Len(rest) <= Len(s)
    BY <1>1, <1>2
  <1> QED
    BY <1>1, <1>2, <1>3, <1>4 DEF IsSlice, rest

\* Appending what the file has from the offset r up to m (ReadAt, Append).
LEMMA ReadType ==
    ASSUME NEW t \in Seq(Byte), NEW s \in Seq(Byte), NEW r \in Nat, NEW m \in Int,
           m <= Len(s)
    PROVE LET more == SubSeq(s, r + 1, m)
          IN  /\ more \in Seq(Byte) /\ t \o more \in Seq(Byte)
              /\ Len(more) = IF r < m THEN m - r ELSE 0
              /\ \A i \in 1..Len(more) : more[i] = s[r + i]
  <1> DEFINE first == r + 1
             more == SubSeq(s, first, m)
  <1>1. Len(s) \in Nat /\ first \in Int /\ \A i \in first..m : s[i] \in Byte
    BY LenProperties, ElementOfSeq
  <1>2. /\ more \in Seq(Byte) /\ Len(more) = IF first <= m THEN m - first + 1 ELSE 0
        /\ \A i \in 1..m - first + 1 : more[i] = s[first + i - 1]
    <2> HIDE DEF first, Byte
    <2> QED
      BY <1>1, SubSeqProperties
  <1>3. Len(more) = IF r < m THEN m - r ELSE 0
    BY <1>1, <1>2
  <1>4. \A i \in 1..Len(more) : more[i] = s[r + i]
    <2> TAKE i \in 1..Len(more)
    <2>1. i \in 1..m - first + 1 /\ first + i - 1 = r + i
      BY <1>1, <1>3
    <2> HIDE DEF more, first
    <2> QED
      BY <1>2, <2>1
  <1>5. t \o more \in Seq(Byte)
    <2> HIDE DEF more, Byte
    <2> QED
      BY <1>2, ConcatProperties
  <1> QED
    BY <1>2, <1>3, <1>4, <1>5

\* What was read at the read offset continues the slice.
LEMMA ReadSlice ==
    ASSUME NEW t, NEW s, NEW c, IsSlice(t, s, c), NEW m \in Int, m <= Len(s)
    PROVE IsSlice(t \o SubSeq(s, c + Len(t) + 1, m), s, c)
  <1>1. /\ s \in Seq(Byte) /\ t \in Seq(Byte) /\ c \in Nat /\ Len(s) \in Nat
        /\ Len(t) \in Nat /\ c + Len(t) <= Len(s)
        /\ \A i \in 1..Len(t) : t[i] = s[c + i]
    BY LenProperties DEF IsSlice
  <1> DEFINE r == c + Len(t)
             more == SubSeq(s, r + 1, m)
             all == t \o more
  <1>2. /\ more \in Seq(Byte) /\ all \in Seq(Byte)
        /\ Len(more) = IF r < m THEN m - r ELSE 0
        /\ \A i \in 1..Len(more) : more[i] = s[r + i]
    <2>1. r \in Nat
      BY <1>1
    <2> HIDE DEF r
    <2> QED
      BY <1>1, <2>1, ReadType
  <1>3. /\ Len(all) = Len(t) + Len(more)
        /\ \A i \in 1..Len(t) + Len(more) :
              all[i] = IF i <= Len(t) THEN t[i] ELSE more[i - Len(t)]
    <2>1. t \in Seq(Byte) /\ more \in Seq(Byte)
      BY <1>1, <1>2
    <2> HIDE DEF more, Byte
    <2> QED
      BY <2>1, ConcatProperties
  <1> HIDE DEF more, all
  <1>4. Len(more) \in Nat /\ c + Len(all) <= Len(s)
    BY <1>1, <1>2, <1>3
  <1>5. \A i \in 1..Len(all) : all[i] = s[c + i]
    <2> TAKE i \in 1..Len(all)
    <2>1. CASE i <= Len(t)
      BY <1>1, <1>3, <1>4, <2>1
    <2>2. CASE i > Len(t)
      <3>1. i - Len(t) \in 1..Len(more) /\ r + (i - Len(t)) = c + i
        BY <1>1, <1>3, <1>4, <2>2
      <3>2. all[i] = more[i - Len(t)]
        BY <1>1, <1>3, <1>4, <2>2
      <3> QED
        BY <1>2, <3>1, <3>2
    <2> QED
      BY <1>1, <1>4, <2>1, <2>2
  <1> QED
    BY <1>1, <1>2, <1>4, <1>5 DEF IsSlice, all, more

\* One more byte is one more step of the grammar.
LEMMA FramingAppend ==
    ASSUME NEW s \in Seq(Byte), NEW b \in Byte
    PROVE /\ Append(s, b) \in Seq(Byte) /\ Len(Append(s, b)) = Len(s) + 1
          /\ \A k \in 1..Len(s) : Append(s, b)[k] = s[k]
          /\ Framing(Append(s, b)) = FramingStep(Framing(s), b)
          /\ \A n \in 0..Len(s) : After(Append(s, b), n) = After(s, n)
  <1> DEFINE longer == Append(s, b)
  <1>1. /\ longer \in Seq(Byte) /\ Len(longer) = Len(s) + 1 /\ Len(s) \in Nat
        /\ \A k \in 1..Len(s) : longer[k] = s[k]
        /\ longer[Len(s) + 1] = b
    <2> HIDE DEF Byte
    <2> QED
      BY AppendProperties, LenProperties
  <1> HIDE DEF longer
  <1>2. ASSUME NEW n \in 0..Len(s) PROVE After(longer, n) = After(s, n)
    <2>1. /\ n \in Nat /\ n <= Len(s) /\ n <= Len(longer)
          /\ \A k \in 1..n : longer[k] = s[k]
      BY <1>1
    <2> QED
      BY <1>1, <2>1, AfterAgrees
  <1>3. Framing(longer) = FramingStep(Framing(s), b)
    <2>1. After(s, Len(s)) = Framing(s) /\ After(longer, Len(longer)) = Framing(longer)
      BY <1>1, AfterSteps
    <2> DEFINE n == Len(longer)
    <2>2. n \in 1..Len(longer) /\ n - 1 = Len(s) /\ longer[n] = b
      BY <1>1
    <2> HIDE DEF n
    <2>3. After(longer, n) = FramingStep(After(longer, n - 1), longer[n])
      BY <1>1, <2>2, AfterSteps
    <2>4. After(longer, Len(s)) = After(s, Len(s))
      BY <1>1, <1>2
    <2> QED
      BY <2>1, <2>2, <2>3, <2>4 DEF n
  <1> QED
    BY <1>1, <1>2, <1>3 DEF longer

\* Cutting the file leaves what comes before the cut.
LEMMA CutKeeps ==
    ASSUME NEW s \in Seq(Byte), NEW n \in 0..Len(s)
    PROVE /\ SubSeq(s, 1, n) \in Seq(Byte) /\ Len(SubSeq(s, 1, n)) = n
          /\ \A k \in 1..n : SubSeq(s, 1, n)[k] = s[k]
          /\ \A k \in 0..n : After(SubSeq(s, 1, n), k) = After(s, k)
  <1> DEFINE cut == SubSeq(s, 1, n)
  <1>1. cut \in Seq(Byte) /\ Len(cut) = n /\ \A k \in 1..n : cut[k] = s[k]
    BY PrefixType
  <1> HIDE DEF cut
  <1>2. ASSUME NEW k \in 0..n PROVE After(cut, k) = After(s, k)
    <2>1. /\ k \in Nat /\ k <= Len(cut) /\ k <= Len(s)
          /\ \A i \in 1..k : cut[i] = s[i]
      BY <1>1, LenProperties
    <2> QED
      BY <1>1, <2>1, AfterAgrees
  <1> QED
    BY <1>1, <1>2 DEF cut

\* A slice of the file is one of every file that has the same bytes so far.
LEMMA SliceOfPrefix ==
    ASSUME NEW t, NEW s, NEW c, IsSlice(t, s, c), NEW u \in Seq(Byte),
           c + Len(t) <= Len(u), \A k \in 1..c + Len(t) : u[k] = s[k]
    PROVE IsSlice(t, u, c)
  <1>1. c \in Nat /\ Len(t) \in Nat
    BY LenProperties DEF IsSlice
  <1> QED
    BY <1>1 DEF IsSlice

-----------------------------------------------------------------------------
(***************************************************************************)
(* The invariant, one lemma for each kind of step.                         *)
(***************************************************************************)


\* A new reader of an empty file is at the start of the grammar.
LEMMA InitReader == Init => ReaderInv
  <1> SUFFICES ASSUME Init PROVE ReaderInv
    OBVIOUS
  <1> USE DEF Init
  <1>1. <<>> \in Seq(Byte) /\ <<>> \in Seq(Nat \X Nat) /\ Len(<<>>) = 0
    BY EmptySeq
  <1>2. TypeOK
    BY <1>1 DEF TypeOK, NoRecord, Record, Result
  <1>3. After(<<>>, 0) = FramingStart /\ Framing(<<>>) = FramingStart
    BY <1>1, AfterSteps
  <1>4. FramingStart.at = "open" /\ FramingStart.records = <<>>
    BY DEF FramingStart
  <1>5. IsSlice(buffer, file, committed)
    BY <1>1 DEF IsSlice
  <1>6. FramedInv
    BY <1>3, <1>4, <1>5 DEF FramedInv
  <1>7. PendingIsFramed /\ ControlInv /\ ReturnInv /\ FileInv
    BY <1>3 DEF PendingIsFramed, ControlInv, ReturnInv, FileInv
  <1> QED
    BY <1>2, <1>6, <1>7 DEF ReaderInv

\* A byte the writer adds lies beyond the read offset.
LEMMA WriteByteKeeps ==
    ASSUME ReaderInv, NEW b \in Byte, WriteByte(b)
    PROVE ReaderInv'
  <1> USE DEF ReaderInv
  <1>1. /\ file' = Append(file, b) /\ grammar' = FramingStep(grammar, b)
        /\ UNCHANGED <<buffer, committed, opened, closed, recordsSeen, pending>>
        /\ UNCHANGED <<pc, size, result, delivered, shrunk, torn>>
    BY DEF WriteByte, decoderVars
  <1>2. file \in Seq(Byte) /\ grammar = Framing(file)
    BY DEF TypeOK, FileInv
  <1>3. /\ file' \in Seq(Byte) /\ Len(file') = Len(file) + 1 /\ Len(file) \in Nat
        /\ \A k \in 1..Len(file) : file'[k] = file[k]
        /\ Framing(file') = FramingStep(Framing(file), b)
        /\ \A n \in 0..Len(file) : After(file', n) = After(file, n)
    BY <1>1, <1>2, FramingAppend, LenProperties
  <1>4. TypeOK'
    BY <1>1, <1>3 DEF TypeOK
  <1>5. PendingIsFramed' /\ ControlInv' /\ ReturnInv'
    BY <1>1 DEF PendingIsFramed, ControlInv, ReturnInv, AwaitsMore
  <1>6. FileInv'
    BY <1>1, <1>2, <1>3 DEF FileInv
  <1>7. ASSUME ~shrunk PROVE FramedInv'
    <2>1. IsSlice(buffer, file, committed)
      BY <1>7 DEF FramedInv
    <2>2. /\ committed \in 0..Len(file) /\ ReadOffset \in 0..Len(file)
          /\ committed + Len(buffer) <= Len(file')
          /\ \A k \in 1..committed + Len(buffer) : file'[k] = file[k]
      BY <1>3, <2>1, LenProperties DEF IsSlice, ReadOffset
    <2>3. IsSlice(buffer, file', committed)
      BY <1>3, <2>1, <2>2, SliceOfPrefix
    <2>4. /\ After(file', committed) = After(file, committed)
          /\ After(file', ReadOffset) = After(file, ReadOffset)
      BY <1>3, <2>2
    <2> QED
      BY <1>1, <1>7, <2>3, <2>4 DEF FramedInv, ReadOffset
  <1> QED
    BY <1>1, <1>4, <1>5, <1>6, <1>7 DEF FramedInv

\* A cut at or beyond the read offset takes nothing that was read, and one
\* below it is remembered.
LEMMA TruncateKeeps ==
    ASSUME ReaderInv, NEW n \in Nat, Truncate(n)
    PROVE ReaderInv'
  <1> USE DEF ReaderInv
  <1>1. /\ MayTruncate /\ n < Len(file) /\ file' = SubSeq(file, 1, n)
        /\ grammar' = Framing(file') /\ shrunk' = (shrunk \/ n < ReadOffset)
        /\ UNCHANGED <<buffer, committed, opened, closed, recordsSeen, pending>>
        /\ UNCHANGED <<pc, size, result, delivered>>
    BY DEF Truncate, decoderVars
  <1>2. /\ file \in Seq(Byte) /\ Len(file) \in Nat /\ n \in 0..Len(file)
        /\ shrunk \in BOOLEAN /\ torn' \in BOOLEAN
    BY <1>1, LenProperties DEF TypeOK, Truncate
  <1>3. /\ file' \in Seq(Byte) /\ Len(file') = n
        /\ \A k \in 1..n : file'[k] = file[k]
        /\ \A k \in 0..n : After(file', k) = After(file, k)
    BY <1>1, <1>2, CutKeeps
  <1>4. TypeOK'
    BY <1>1, <1>2, <1>3 DEF TypeOK
  <1>5. PendingIsFramed' /\ ControlInv' /\ ReturnInv'
    BY <1>1, <1>2 DEF PendingIsFramed, ControlInv, ReturnInv, AwaitsMore
  <1>6. FileInv'
    BY <1>1 DEF FileInv
  <1>7. ASSUME ~shrunk' PROVE FramedInv'
    <2>1. ~shrunk /\ ~(n < ReadOffset)
      BY <1>1, <1>7
    <2>2. IsSlice(buffer, file, committed)
      BY <2>1 DEF FramedInv
    <2>3. /\ committed \in 0..n /\ ReadOffset \in 0..n
          /\ committed + Len(buffer) <= Len(file')
          /\ \A k \in 1..committed + Len(buffer) : file'[k] = file[k]
      BY <1>3, <2>1, <2>2, LenProperties DEF IsSlice, ReadOffset
    <2>4. IsSlice(buffer, file', committed)
      BY <1>3, <2>2, <2>3, SliceOfPrefix
    <2>5. /\ After(file', committed) = After(file, committed)
          /\ After(file', ReadOffset) = After(file, ReadOffset)
      BY <1>3, <2>3
    <2> QED
      BY <1>1, <2>1, <2>4, <2>5 DEF FramedInv, ReadOffset
  <1> QED
    BY <1>4, <1>5, <1>6, <1>7 DEF FramedInv

\* The steps that decide where to go on, and change nothing else.
Deciding ==
    \/ StartDrain \/ NextPending \/ NextClosed \/ NextNeedMore \/ ApplyFails
    \/ Stat \/ StatFails \/ ReadNothing \/ ReadAtFails

\* Where the reader only decides, the file and the decoder stay as they are,
\* and what it found out still holds of them.
LEMMA DecidingKeeps ==
    ASSUME ReaderInv, Deciding
    PROVE ReaderInv'
  <1> USE DEF ReaderInv
  <1>1. /\ UNCHANGED <<file, buffer, committed, opened, closed, recordsSeen>>
        /\ UNCHANGED <<pending, delivered, grammar, shrunk>>
    BY DEF Deciding, StartDrain, NextPending, NextClosed, NextNeedMore, ApplyFails,
           Stat, StatFails, ReadNothing, ReadAtFails, decoderVars, historyVars
  <1>2. torn' \in BOOLEAN /\ pc' \in {"idle", "next", "apply", "stat", "read"} /\ result' \in Result
    BY DEF Deciding, StartDrain, NextPending, NextClosed, NextNeedMore, ApplyFails,
           Stat, StatFails, ReadNothing, ReadAtFails, Return, Result, TypeOK, historyVars
  <1>3. size' \in Nat
    BY LenProperties
       DEF Deciding, StartDrain, NextPending, NextClosed, NextNeedMore, ApplyFails,
           Stat, StatFails, ReadNothing, ReadAtFails, TypeOK
  <1>4. TypeOK'
    BY <1>1, <1>2, <1>3 DEF TypeOK
  <1>5. /\ pc' = "apply" => pending # NoRecord
        /\ pc' \in {"stat", "read"} => ~closed /\ pending = NoRecord
        /\ pc' = "stat" => AwaitsMore
    BY DEF Deciding, StartDrain, NextPending, NextClosed, NextNeedMore, ApplyFails,
           Stat, StatFails, ReadNothing, ReadAtFails, Return, Ready, AwaitsMore, ControlInv, ReturnInv,
           PendingIsFramed
  <1>6. PendingIsFramed'
    <2>1. pending # NoRecord => pc' \in {"apply", "idle", "next"}
      BY <1>2, <1>5
    <2> QED
      BY <1>1, <2>1 DEF PendingIsFramed
  <1>7. ControlInv'
    BY <1>1, <1>5 DEF ControlInv
  <1>8. /\ result' \notin {"framing", "tooLarge"}
        /\ pc' = "idle" /\ result' = "ok" => AwaitsMore /\ ~closed /\ pending = NoRecord
        /\ pc' = "idle" /\ result' = "closed" => closed
    <2>1. CASE Stat
      <3>1. /\ AwaitsMore /\ ~closed /\ pending = NoRecord
            /\ result \notin {"framing", "tooLarge"}
        BY <2>1 DEF Stat, ReturnInv, ControlInv, PendingIsFramed
      <3>2. /\ result' \in {result, "ok", "truncated"}
            /\ pc' = "idle" => result' # "closed"
        BY <2>1 DEF Stat, Return
      <3> QED
        BY <3>1, <3>2
    <2>2. CASE StartDrain
      BY <2>2 DEF StartDrain
    <2>3. CASE NextPending \/ NextNeedMore
      BY <2>3 DEF NextPending, NextNeedMore, Ready, ReturnInv
    <2>4. CASE NextClosed
      BY <2>4 DEF NextClosed, Return
    <2>5. CASE ApplyFails \/ StatFails \/ ReadNothing \/ ReadAtFails
      BY <2>5 DEF ApplyFails, StatFails, ReadNothing, ReadAtFails, Return
    <2> QED
      BY <2>1, <2>2, <2>3, <2>4, <2>5 DEF Deciding
  <1>9. result' = "truncated" => shrunk
    <2>1. CASE Stat
      <3>1. ASSUME Len(file) < ReadOffset, ~shrunk PROVE FALSE
        <4>1. committed + Len(buffer) <= Len(file) /\ committed \in Nat
              /\ Len(buffer) \in Nat /\ Len(file) \in Nat
          BY <3>1, LenProperties DEF FramedInv, IsSlice
        <4> QED
          BY <3>1, <4>1 DEF ReadOffset
      <3> QED
        BY <2>1, <3>1 DEF Stat, Return, ReturnInv, TypeOK
    <2>2. CASE ~Stat
      BY <2>2 DEF Deciding, StartDrain, NextPending, NextClosed, NextNeedMore,
           ApplyFails, StatFails, ReadNothing, ReadAtFails, Return, ReturnInv
    <2> QED
      BY <2>1, <2>2
  <1>10. ReturnInv'
    BY <1>1, <1>5, <1>8, <1>9 DEF ReturnInv, AwaitsMore
  <1>11. FileInv' /\ FramedInv'
    BY <1>1, <1>8 DEF FileInv, FramedInv, ReadOffset
  <1> QED
    BY <1>4, <1>6, <1>7, <1>10, <1>11

\* What the decoder rejects is corrupt up to the read offset.
LEMMA RejectingKeeps ==
    ASSUME ReaderInv, NextTooLarge \/ NextInvalidFraming
    PROVE ReaderInv'
  <1> USE DEF ReaderInv
  <1>1. /\ UNCHANGED <<file, buffer, committed, opened, closed, recordsSeen>>
        /\ UNCHANGED <<pending, delivered, grammar, shrunk, torn, size>>
        /\ pc' = "idle" /\ result' \in {"framing", "tooLarge"}
        /\ pending = NoRecord /\ ~closed
    BY DEF NextTooLarge, NextInvalidFraming, Ready, Return, decoderVars, historyVars
  <1>2. TypeOK'
    BY <1>1 DEF TypeOK, Result
  <1>3. PendingIsFramed' /\ ControlInv' /\ ReturnInv' /\ FileInv'
    BY <1>1 DEF PendingIsFramed, ControlInv, ReturnInv, FileInv
  <1>4. ASSUME ~shrunk
        PROVE After(file, committed + Len(buffer)).at = "corrupt"
    <2>1. /\ IsSlice(buffer, file, committed)
          /\ After(file, committed).records = delivered
          /\ After(file, committed).at = IF opened THEN "value" ELSE "open"
      BY <1>1, <1>4 DEF FramedInv
    <2>2. CASE NextTooLarge
      BY <2>1, <2>2, TooLargeIsCorrupt DEF NextTooLarge
    <2>3. CASE NextInvalidFraming /\ opened
      <3>1. recordsSeen <=> After(file, committed).records # <<>>
        BY <2>1 DEF ControlInv
      <3> QED
        BY <2>1, <2>3, <3>1, InvalidIsCorrupt DEF NextInvalidFraming
    <2>4. CASE NextInvalidFraming /\ ~opened
      <3>1. PICK i \in 1..Len(buffer) : NonBlank(buffer, 1, i) /\ buffer[i] # "["
        <4>1. DOMAIN buffer = 1..Len(buffer)
          BY LenProperties DEF TypeOK
        <4> QED
          BY <2>4, <4>1 DEF NextInvalidFraming
      <3>2. After(file, committed).at = "open"
        BY <2>1, <2>4
      <3> QED
        BY <2>1, <3>1, <3>2, BracketOpens
    <2> QED
      BY <2>2, <2>3, <2>4
  <1>5. FramedInv'
    BY <1>1, <1>4 DEF FramedInv, ReadOffset
  <1> QED
    BY <1>2, <1>3, <1>5

\* A read continues the buffer where it ends.
LEMMA ReadKeeps ==
    ASSUME ReaderInv, Read
    PROVE ReaderInv'
  <1> USE DEF ReaderInv
  <1> DEFINE last == Smaller(Smaller(size, Len(file)), ReadOffset + ReadBufferBytes)
  <1>1. /\ UNCHANGED <<file, committed, opened, closed, recordsSeen, pending>>
        /\ UNCHANGED <<delivered, grammar, shrunk, torn, size, result>>
        /\ pc = "read" /\ pc' = "next"
        /\ \E end \in (ReadOffset + 1)..last :
              buffer' = buffer \o SubSeq(file, ReadOffset + 1, end)
    BY DEF Read, historyVars
  <1>2. /\ file \in Seq(Byte) /\ buffer \in Seq(Byte) /\ committed \in Nat
        /\ ReadOffset \in Nat /\ last \in Int /\ last <= Len(file)
        /\ Len(file) \in Nat
    BY ReadBufferAssumption, LenProperties DEF TypeOK, ReadOffset, Smaller
  <1> HIDE DEF last
  <1>9. PICK end \in (ReadOffset + 1)..last :
            buffer' = buffer \o SubSeq(file, ReadOffset + 1, end)
    BY <1>1
  <1>10. end \in Int /\ end <= Len(file)
    BY <1>2, <1>9
  <1>3. buffer' \in Seq(Byte)
    BY <1>2, <1>9, <1>10, ReadType
  <1>4. TypeOK'
    BY <1>1, <1>3 DEF TypeOK
  <1>5. pending = NoRecord /\ ~closed /\ result \notin {"framing", "tooLarge"}
    BY <1>1 DEF PendingIsFramed, ControlInv, ReturnInv
  <1>6. PendingIsFramed' /\ ControlInv' /\ ReturnInv' /\ FileInv'
    BY <1>1, <1>5 DEF PendingIsFramed, ControlInv, ReturnInv, FileInv
  <1>7. ASSUME ~shrunk PROVE IsSlice(buffer', file, committed)
    <2>1. IsSlice(buffer, file, committed)
      BY <1>7 DEF FramedInv
    <2> QED
      BY <1>1, <1>2, <1>9, <1>10, <2>1, ReadSlice DEF ReadOffset
  <1>8. FramedInv'
    BY <1>1, <1>5, <1>7 DEF FramedInv
  <1> QED
    BY <1>4, <1>6, <1>8

\* The opening bracket is consumed where the grammar opens the array.
LEMMA OpeningKeeps ==
    ASSUME ReaderInv, ConsumeOpeningBracket
    PROVE ReaderInv'
  <1> USE DEF ReaderInv
  <1>1. /\ file \in Seq(Byte) /\ buffer \in Seq(Byte) /\ committed \in Nat
        /\ Len(buffer) \in Nat /\ DOMAIN buffer = 1..Len(buffer)
    BY LenProperties DEF TypeOK
  <1>2. PICK i \in 1..Len(buffer) :
            NonBlank(buffer, 1, i) /\ buffer[i] = "[" /\ Consume(i)
    BY <1>1 DEF ConsumeOpeningBracket
  <1>3. /\ UNCHANGED <<file, closed, recordsSeen, pending, pc, size, result>>
        /\ UNCHANGED <<delivered, grammar, shrunk, torn>>
        /\ opened' = TRUE /\ committed' = committed + i
        /\ buffer' = SubSeq(buffer, i + 1, Len(buffer))
        /\ pc = "next" /\ pending = NoRecord /\ ~closed /\ ~opened
    BY <1>2 DEF ConsumeOpeningBracket, Ready, Consume, historyVars
  <1>4. i \in 0..Len(buffer) /\ buffer' \in Seq(Byte)
    BY <1>1, <1>3, ConsumeType
  <1>5. TypeOK'
    BY <1>1, <1>3, <1>4 DEF TypeOK
  <1>6. result \notin {"framing", "tooLarge"}
    BY <1>3 DEF ReturnInv
  <1>7. PendingIsFramed' /\ ControlInv' /\ ReturnInv' /\ FileInv'
    BY <1>3 DEF PendingIsFramed, ControlInv, ReturnInv, FileInv
  <1>8. ASSUME ~shrunk PROVE FramedInv'
    <2>1. /\ IsSlice(buffer, file, committed)
          /\ After(file, committed).records = delivered
          /\ After(file, committed).at = "open"
      BY <1>3, <1>8 DEF FramedInv
    <2>2. IsSlice(buffer', file, committed')
      BY <1>3, <1>4, <2>1, ConsumeSlice
    <2>3. /\ After(file, committed + i).at = "value"
          /\ After(file, committed + i).records = delivered
      BY <1>2, <2>1, BracketOpens
    <2> QED
      BY <1>3, <1>6, <2>2, <2>3 DEF FramedInv
  <1> QED
    BY <1>3, <1>5, <1>7, <1>8 DEF FramedInv

\* A record found stays in the buffer until it is applied.
LEMMA NextRecordKeeps ==
    ASSUME ReaderInv, NextRecord
    PROVE ReaderInv'
  <1> USE DEF ReaderInv
  <1>1. /\ UNCHANGED <<file, buffer, committed, opened, closed, recordsSeen>>
        /\ UNCHANGED <<delivered, grammar, shrunk, torn, size, result>>
        /\ pc = "next" /\ pc' = "apply" /\ ~closed /\ opened
    BY DEF NextRecord, Ready, historyVars
  <1>2. PICK i, e, d \in DOMAIN buffer :
            /\ RecordAt(buffer, i, e, d)
            /\ pending' = [start |-> committed + i - 1, end |-> committed + d,
                           closesArray |-> buffer[d] = "]"]
    BY DEF NextRecord
  <1>3. /\ i \in 1..Len(buffer) /\ d \in 1..Len(buffer) /\ Len(buffer) \in Nat
        /\ committed \in Nat
    BY LenProperties DEF TypeOK
  <1>4. pending' \in Record /\ pending' # NoRecord
    <2>1. committed + i - 1 \in Nat /\ committed + d \in Nat /\ committed + d # 0
      BY <1>3
    <2> QED
      BY <1>2, <2>1 DEF Record, NoRecord
  <1>5. TypeOK'
    BY <1>1, <1>4 DEF TypeOK
  <1>6. PendingIsFramed'
    BY <1>1, <1>2 DEF PendingIsFramed
  <1>7. ControlInv' /\ ReturnInv' /\ FileInv' /\ FramedInv'
    BY <1>1, <1>4 DEF ControlInv, ReturnInv, FileInv, FramedInv, ReadOffset
  <1> QED
    BY <1>5, <1>6, <1>7

\* An empty array is closed where the grammar closes it.
LEMMA EmptyArrayKeeps ==
    ASSUME ReaderInv, NextEmptyArray
    PROVE ReaderInv'
  <1> USE DEF ReaderInv
  <1>1. /\ UNCHANGED <<file, opened, recordsSeen, pending, size, delivered>>
        /\ UNCHANGED <<grammar, shrunk, torn>>
        /\ buffer' = SubSeq(buffer, Len(buffer) + 1, Len(buffer))
        /\ committed' = committed + Len(buffer)
        /\ pc' = "idle" /\ result' = "closed" /\ closed' = TRUE
        /\ pending = NoRecord /\ ~closed /\ opened
    BY DEF NextEmptyArray, Ready, Return, Consume, historyVars
  <1>2. /\ buffer \in Seq(Byte) /\ Len(buffer) \in Nat /\ committed \in Nat
        /\ DOMAIN buffer = 1..Len(buffer) /\ Len(buffer) \in 0..Len(buffer)
    BY LenProperties DEF TypeOK
  <1>3. buffer' = <<>> /\ buffer' \in Seq(Byte) /\ Len(buffer') = 0
    BY <1>1, <1>2, ConsumeType, EmptySeq
  <1>4. TypeOK'
    BY <1>1, <1>2, <1>3 DEF TypeOK, Result
  <1>5. PendingIsFramed' /\ ControlInv' /\ ReturnInv' /\ FileInv'
    BY <1>1, <1>3 DEF PendingIsFramed, ControlInv, ReturnInv, FileInv
  <1>6. ASSUME ~shrunk PROVE FramedInv'
    <2>1. /\ IsSlice(buffer, file, committed)
          /\ After(file, committed).records = delivered
          /\ After(file, committed).at = "value"
      BY <1>1, <1>6 DEF FramedInv
    <2>2. IsSlice(buffer', file, committed')
      BY <1>1, <1>2, <2>1, ConsumeSlice
    <2>3. PICK i \in 1..Len(buffer) :
              /\ NonBlank(buffer, 1, i) /\ buffer[i] = "]" /\ ~recordsSeen
              /\ Blank(buffer, i + 1)
      BY <1>2 DEF NextEmptyArray, IsEmptyArrayEnd
    <2>4. delivered = <<>>
      BY <2>3 DEF ControlInv
    <2>5. /\ After(file, committed').at = "closed"
          /\ After(file, committed').records = delivered
      BY <1>1, <2>1, <2>3, <2>4, BracketCloses
    <2> QED
      BY <1>1, <2>2, <2>5 DEF FramedInv
  <1> QED
    BY <1>1, <1>4, <1>5, <1>6 DEF FramedInv

\* Apply hands over the next record and moves the watermark past it.
LEMMA ApplyEffect ==
    ASSUME ReaderInv, Apply
    PROVE /\ pending.start \in Nat /\ pending.end \in Nat
          /\ \E n \in 0..Len(buffer) :
              /\ buffer' = SubSeq(buffer, n + 1, Len(buffer))
              /\ committed' = committed + n
              /\ closed' => n = Len(buffer)
              /\ ~shrunk =>
                  /\ After(file, committed + n).at
                        = IF closed' THEN "closed" ELSE "value"
                  /\ After(file, committed + n).records
                        = Append(delivered, <<pending.start, pending.end>>)
  <1> USE DEF ReaderInv
  <1>1. pending # NoRecord /\ opened /\ ~closed
    BY DEF Apply, ControlInv, PendingIsFramed
  <1>2. PICK i, e, d \in DOMAIN buffer :
            /\ RecordAt(buffer, i, e, d)
            /\ pending = [start |-> committed + i - 1, end |-> committed + d,
                          closesArray |-> buffer[d] = "]"]
    BY <1>1 DEF PendingIsFramed
  <1>3. /\ i \in 1..Len(buffer) /\ e \in 1..Len(buffer) /\ d \in 1..Len(buffer)
        /\ Len(buffer) \in Nat /\ committed \in Nat
    BY LenProperties DEF TypeOK
  <1> DEFINE n == Dealt(buffer, d)
  <1>4. /\ pending.start = committed + i - 1 /\ pending.end = committed + d
        /\ pending.closesArray = (buffer[d] = "]")
    BY <1>2
  <1>5. /\ n \in 0..Len(buffer) /\ pending.start \in Nat /\ pending.end \in Nat
        /\ n = IF pending.closesArray THEN Len(buffer) ELSE pending.end - committed
    <2>1. committed + i - 1 \in Nat /\ committed + d \in Nat
          /\ (committed + d) - committed = d /\ n \in 0..Len(buffer)
      BY <1>3 DEF Dealt
    <2>2. CASE buffer[d] = "]"
      BY <1>4, <2>1, <2>2 DEF Dealt
    <2>3. CASE buffer[d] # "]"
      BY <1>4, <2>1, <2>3 DEF Dealt
    <2> QED
      BY <2>2, <2>3
  <1>6. /\ closed' = (buffer[d] = "]")
        /\ buffer' = SubSeq(buffer, n + 1, Len(buffer))
        /\ committed' = committed + n
    <2>1. closed' = pending.closesArray
          /\ Consume(IF pending.closesArray THEN Len(buffer)
                     ELSE pending.end - committed)
      BY DEF Apply
    <2>2. Consume(n)
      BY <1>5, <2>1, Zenon
    <2> QED
      BY <1>4, <2>1, <2>2 DEF Consume
  <1>7. ASSUME ~shrunk
        PROVE /\ After(file, committed + n).at
                    = IF buffer[d] = "]" THEN "closed" ELSE "value"
              /\ After(file, committed + n).records
                    = Append(delivered, <<pending.start, pending.end>>)
    <2>1. /\ IsSlice(buffer, file, committed)
          /\ After(file, committed).records = delivered
          /\ After(file, committed).at = "value"
      BY <1>1, <1>7 DEF FramedInv
    <2>2. RecordAt(buffer, i, e, d) /\ After(file, committed).at = "value"
      BY <1>2, <2>1
    <2>3. /\ After(file, committed + n).at
                = IF buffer[d] = "]" THEN "closed" ELSE "value"
          /\ After(file, committed + n).records
                = Append(After(file, committed).records,
                         <<committed + i - 1, committed + d>>)
      <3> DEFINE t == buffer
                 s == file
                 c == committed
      <3>1. /\ IsSlice(t, s, c) /\ After(s, c).at = "value" /\ RecordAt(t, i, e, d)
            /\ i \in 1..Len(t) /\ e \in 1..Len(t) /\ d \in 1..Len(t)
        BY <1>3, <2>1, <2>2
      <3> HIDE DEF t, s, c
      <3>2. /\ After(s, c + Dealt(t, d)).at
                    = IF t[d] = "]" THEN "closed" ELSE "value"
            /\ After(s, c + Dealt(t, d)).records
                    = Append(After(s, c).records, <<c + i - 1, c + d>>)
        BY <3>1, RecordIsFramed
      <3> QED
        BY <3>2 DEF t, s, c
    <2> QED
      BY <1>4, <2>1, <2>3
  <1>8. /\ closed' => n = Len(buffer)
        /\ ~shrunk => After(file, committed + n).at
                            = IF closed' THEN "closed" ELSE "value"
    BY <1>6, <1>7 DEF Dealt
  <1> HIDE DEF n, ReaderInv
  <1> QED
    BY <1>5, <1>6, <1>7, <1>8

\* Committing a record leaves the decoder where the grammar is.
LEMMA ApplyKeeps ==
    ASSUME ReaderInv, Apply
    PROVE ReaderInv'
  <1> DEFINE record == <<pending.start, pending.end>>
  <1>1. PICK n \in 0..Len(buffer) :
              /\ buffer' = SubSeq(buffer, n + 1, Len(buffer))
              /\ committed' = committed + n
              /\ closed' => n = Len(buffer)
              /\ ~shrunk =>
                  /\ After(file, committed + n).at
                        = IF closed' THEN "closed" ELSE "value"
                  /\ After(file, committed + n).records = Append(delivered, record)
    BY ApplyEffect
  <1>2. record \in Nat \X Nat
    BY ApplyEffect
  <1> HIDE DEF record
  <1> USE DEF ReaderInv
  <1>3. /\ UNCHANGED <<file, opened, size, result, grammar, shrunk, torn>>
        /\ delivered' = Append(delivered, record)
        /\ recordsSeen' = TRUE /\ pending' = NoRecord /\ pc = "apply" /\ pc' = "next"
        /\ closed' = pending.closesArray /\ opened /\ pending \in Record
    BY DEF Apply, ControlInv, PendingIsFramed, TypeOK, record
  <1>4. /\ buffer \in Seq(Byte) /\ committed \in Nat /\ Len(buffer) \in Nat
        /\ delivered \in Seq(Nat \X Nat) /\ n \in Nat
    BY LenProperties DEF TypeOK
  <1>5. /\ buffer' \in Seq(Byte)
        /\ n = Len(buffer) => buffer' = <<>>
    BY <1>1, <1>4, ConsumeType
  <1>6. delivered' \in Seq(Nat \X Nat) /\ delivered' # <<>>
    <2>1. delivered' = Append(delivered, record) /\ delivered \in Seq(Nat \X Nat)
      BY <1>3, <1>4
    <2> HIDE DEF ReaderInv
    <2> QED
      BY ONLY <1>2, <2>1, AppendProperties
  <1>7. TypeOK'
    BY <1>1, <1>3, <1>4, <1>5, <1>6 DEF TypeOK, NoRecord, Record
  <1>8. result \notin {"framing", "tooLarge"}
    BY <1>3 DEF ReturnInv
  <1>9. PendingIsFramed' /\ ControlInv' /\ ReturnInv' /\ FileInv'
    BY <1>1, <1>3, <1>5, <1>6 DEF PendingIsFramed, ControlInv, ReturnInv, FileInv
  <1>10. ASSUME ~shrunk PROVE FramedInv'
    <2>1. IsSlice(buffer, file, committed)
      BY <1>10 DEF FramedInv
    <2>2. IsSlice(buffer', file, committed')
      BY <1>1, <2>1, ConsumeSlice
    <2> QED
      BY <1>1, <1>3, <1>8, <1>10, <2>2 DEF FramedInv
  <1> QED
    BY <1>3, <1>7, <1>9, <1>10 DEF FramedInv

-----------------------------------------------------------------------------
(***************************************************************************)
(* The inductive invariant of the reader: the buffer is a slice of the     *)
(* file, what was delivered are the records of the file up to the          *)
(* committed offset, and the decoder is where the grammar is there         *)
(* (drain, Next, Commit, consumeStructuralBytes).                          *)
(***************************************************************************)
THEOREM ReaderFollowsGrammar == Spec => []ReaderInv
  <1>1. ReaderInv /\ [Next]_vars => ReaderInv'
    <2> SUFFICES ASSUME ReaderInv, [Next]_vars PROVE ReaderInv'
      OBVIOUS
    <2>1. ASSUME NEW b \in Alphabet, WriteByte(b) PROVE ReaderInv'
      BY <2>1, WriteByteKeeps, AlphabetAssumption
    <2>2. ASSUME NEW n \in 0..MaxFileBytes, Truncate(n) PROVE ReaderInv'
      BY <2>2, TruncateKeeps, MaxFileAssumption
    <2>3. CASE Deciding
      BY <2>3, DecidingKeeps
    <2>4. CASE NextTooLarge \/ NextInvalidFraming
      BY <2>4, RejectingKeeps
    <2>5. CASE ConsumeOpeningBracket
      BY <2>5, OpeningKeeps
    <2>6. CASE NextRecord
      BY <2>6, NextRecordKeeps
    <2>7. CASE NextEmptyArray
      BY <2>7, EmptyArrayKeeps
    <2>8. CASE Apply
      BY <2>8, ApplyKeeps
    <2>9. CASE Read
      BY <2>9, ReadKeeps
    <2>10. CASE UNCHANGED vars
      BY <2>10 DEF vars, decoderVars, historyVars, ReaderInv, TypeOK, PendingIsFramed,
         ControlInv, ReturnInv, AwaitsMore, FileInv, FramedInv, ReadOffset
    <2> QED
      BY <2>1, <2>2, <2>3, <2>4, <2>5, <2>6, <2>7, <2>8, <2>9, <2>10
         DEF Next, Writer, Reader, DecoderNext, Deciding
  <1> QED
    BY InitReader, <1>1, PTL DEF Spec

(***************************************************************************)
(* The reader is well-typed: in particular no commit takes the watermark   *)
(* below the start of the file (Commit, consumeStructuralBytes).           *)
(***************************************************************************)
THEOREM WellTyped == Spec => []TypeOK
  BY ReaderFollowsGrammar, PTL DEF ReaderInv

(***************************************************************************)
(* The buffer is the part of the file between the committed offset and the *)
(* read offset, with a pending record inside (drain, Append, Commit).      *)
(***************************************************************************)
THEOREM ReadsContiguously == Spec => []BufferIsFileSlice
  <1>1. ReaderInv => BufferIsFileSlice
    <2> SUFFICES ASSUME ReaderInv, ~shrunk
                 PROVE /\ ReadOffset <= Len(file)
                       /\ \A i \in DOMAIN buffer : buffer[i] = file[committed + i]
                       /\ pending # NoRecord =>
                            committed <= pending.start /\ pending.end <= ReadOffset
      BY DEF BufferIsFileSlice, Untouched
    <2>1. IsSlice(buffer, file, committed)
      BY DEF ReaderInv, FramedInv
    <2>2. DOMAIN buffer = 1..Len(buffer) /\ Len(buffer) \in Nat /\ committed \in Nat
      BY <2>1, LenProperties DEF IsSlice
    <2>3. ASSUME pending # NoRecord
          PROVE committed <= pending.start /\ pending.end <= ReadOffset
      <3>1. PICK i, e, d \in 1..Len(buffer) :
                pending = [start |-> committed + i - 1, end |-> committed + d,
                           closesArray |-> buffer[d] = "]"]
        BY <2>2, <2>3 DEF ReaderInv, PendingIsFramed
      <3>2. pending.start = committed + i - 1 /\ pending.end = committed + d
        BY <3>1
      <3> QED
        BY <2>2, <3>2 DEF ReadOffset
    <2> QED
      BY <2>1, <2>2, <2>3 DEF IsSlice, ReadOffset
  <1> QED
    BY ReaderFollowsGrammar, <1>1, PTL

\* What was delivered is a prefix of the records in the file.
LEMMA DeliveredPrefix ==
    ASSUME ReaderInv, ~shrunk
    PROVE /\ Len(delivered) <= Len(grammar.records)
          /\ delivered = SubSeq(grammar.records, 1, Len(delivered))
  <1>1. /\ IsSlice(buffer, file, committed)
        /\ After(file, committed).records = delivered /\ grammar = Framing(file)
    BY DEF ReaderInv, FramedInv, FileInv
  <1>2. /\ file \in Seq(Byte) /\ committed \in 0..Len(file)
        /\ Len(file) \in committed..Len(file)
    BY <1>1, LenProperties DEF IsSlice
  <1> DEFINE all == Len(file)
  <1>3. After(file, all) = grammar /\ all \in committed..Len(file)
    BY <1>1, <1>2, AfterSteps
  <1> HIDE DEF all
  <1>4. /\ Len(After(file, committed).records) <= Len(After(file, all).records)
        /\ After(file, committed).records
              = SubSeq(After(file, all).records, 1,
                       Len(After(file, committed).records))
    BY <1>2, <1>3, RecordsGrow
  <1> QED
    BY <1>1, <1>3, <1>4

(***************************************************************************)
(* Whatever the reads, the failing handler calls and the growth of the     *)
(* file, the records handed over are the file's first records: none twice, *)
(* none skipped, none cut short (Next, Commit, drain).                     *)
(***************************************************************************)
THEOREM DeliversEachOnce == Spec => []DeliversFileRecords
  <1>1. ReaderInv => DeliversFileRecords
    BY DeliveredPrefix DEF DeliversFileRecords, Untouched
  <1> QED
    BY ReaderFollowsGrammar, <1>1, PTL

(***************************************************************************)
(* Drain reports invalid framing or an oversize record only of a file that *)
(* is corrupt, however it was read and however it has grown since          *)
(* (isIncomplete, decodeObject).                                           *)
(***************************************************************************)
THEOREM RejectionsAreReal == Spec => []RejectsOnlyCorruptFiles
  <1>1. ReaderInv => RejectsOnlyCorruptFiles
    <2> SUFFICES ASSUME ReaderInv, ~shrunk, result \in {"framing", "tooLarge"}
                 PROVE grammar.at = "corrupt"
      BY DEF RejectsOnlyCorruptFiles, Untouched
    <2>1. /\ IsSlice(buffer, file, committed) /\ grammar = Framing(file)
          /\ After(file, ReadOffset).at = "corrupt"
      BY DEF ReaderInv, FramedInv, FileInv
    <2> DEFINE all == Len(file)
    <2>2. /\ file \in Seq(Byte) /\ ReadOffset \in 0..Len(file)
          /\ all \in ReadOffset..Len(file)
      BY <2>1, LenProperties DEF IsSlice, ReadOffset
    <2>3. After(file, all) = grammar
      BY <2>1, <2>2, AfterSteps
    <2> HIDE DEF all
    <2> QED
      BY <2>1, <2>2, <2>3, CorruptStays
  <1> QED
    BY ReaderFollowsGrammar, <1>1, PTL

(***************************************************************************)
(* What drain keeps when it asks for more is, whitespace aside, at most    *)
(* one object within --max-record-bytes (decodeObject).                    *)
(***************************************************************************)
THEOREM RetentionIsBounded == Spec => []RetainsAtMostOneObject
  <1>1. ReaderInv => RetainsAtMostOneObject
    <2> SUFFICES ASSUME ReaderInv, pc = "stat", opened,
                        NEW i \in DOMAIN buffer, NEW j \in DOMAIN buffer,
                        i <= j, buffer[i] # "w", buffer[j] # "w"
                 PROVE j - i + 1 <= MaxRecordBytes
      BY DEF RetainsAtMostOneObject
    <2>1. buffer \in Seq(Byte) /\ NeedsMore(buffer)
      BY DEF ReaderInv, TypeOK, ReturnInv, AwaitsMore
    <2>2. DOMAIN buffer = 1..Len(buffer)
      BY <2>1, LenProperties
    <2> QED
      BY <2>1, <2>2, NeedsMoreIsSmall
  <1> QED
    BY ReaderFollowsGrammar, <1>1, PTL

\* A read is under way of a file longer than the read offset, or of one that
\* was cut since fstat; an unexpected end of file is the last thing drain says.
TornInv ==
    /\ pc = "read" /\ Len(file) <= ReadOffset => torn
    /\ result = "unexpectedEOF" => torn /\ pc = "idle"

\* fstat found more than was read, every cut after it is remembered, and
\* nothing else takes the read offset to the end of the file.
LEMMA TornKept ==
    ASSUME ReaderInv, TornInv, [Next]_vars
    PROVE TornInv'
  <1>1. ASSUME NEW b \in Alphabet, WriteByte(b) PROVE TornInv'
    <2>1. Len(file') = Len(file) + 1 /\ Len(file) \in Nat
      BY <1>1, LenProperties, AlphabetAssumption DEF WriteByte, ReaderInv, TypeOK
    <2>2. ReadOffset' = ReadOffset /\ ReadOffset \in Nat
          /\ UNCHANGED <<pc, result, torn>>
      BY <1>1, LenProperties
         DEF WriteByte, decoderVars, ReadOffset, ReaderInv, TypeOK
    <2> QED
      BY <2>1, <2>2 DEF TornInv
  <1>2. ASSUME NEW n \in 0..MaxFileBytes, Truncate(n) PROVE TornInv'
    <2>1. Len(file') = n
      <3>1. file \in Seq(Byte) /\ Len(file) \in Nat /\ n \in 0..Len(file)
        BY <1>2, LenProperties, MaxFileAssumption DEF Truncate, ReaderInv, TypeOK
      <3> QED
        BY <1>2, <3>1, CutKeeps DEF Truncate
    <2>2. ReadOffset' = ReadOffset /\ UNCHANGED <<pc, result>>
          /\ torn' = (torn \/ (pc = "read" /\ n <= ReadOffset))
      BY <1>2 DEF Truncate, decoderVars, ReadOffset
    <2> QED
      BY <2>1, <2>2 DEF TornInv
  <1>3. CASE Stat
    <2>1. pc' = "read" => Len(file) > ReadOffset
      BY <1>3 DEF Stat, Return
    <2>2. file' = file /\ ReadOffset' = ReadOffset
      BY <1>3 DEF Stat, decoderVars, ReadOffset
    <2>3. Len(file) \in Nat /\ ReadOffset \in Nat
      BY LenProperties DEF ReadOffset, ReaderInv, TypeOK
    <2>4. result' # "unexpectedEOF"
      BY <1>3 DEF Stat, Return, TornInv
    <2> QED
      BY <2>1, <2>2, <2>3, <2>4 DEF TornInv
  <1>4. CASE ReadNothing
    BY <1>4 DEF ReadNothing, Return, historyVars, TornInv
  <1>5. CASE Reader /\ ~Stat /\ ~ReadNothing
    <2>1. pc' # "read"
      BY <1>5 DEF Reader, StartDrain, DecoderNext, NextPending, NextClosed, Ready,
         ConsumeOpeningBracket, NextRecord, NextEmptyArray, NextTooLarge,
         NextNeedMore, NextInvalidFraming, Apply, ApplyFails, StatFails, Read,
         ReadAtFails, Return
    <2>2. result' # "unexpectedEOF"
      BY <1>5 DEF Reader, StartDrain, DecoderNext, NextPending, NextClosed, Ready,
         ConsumeOpeningBracket, NextRecord, NextEmptyArray, NextTooLarge,
         NextNeedMore, NextInvalidFraming, Apply, ApplyFails, StatFails, Read,
         ReadAtFails, Return, TornInv
    <2> QED
      BY <2>1, <2>2 DEF TornInv
  <1>6. CASE UNCHANGED vars
    BY <1>6 DEF vars, decoderVars, historyVars, ReadOffset, TornInv
  <1> QED
    BY <1>1, <1>2, <1>3, <1>4, <1>5, <1>6 DEF Next, Writer

(***************************************************************************)
(* A truncation is reported only of a file that was cut below what the     *)
(* reader had read, and an unexpected end of file only of one that was cut *)
(* between fstat and ReadAt (currentSize and drain's comparisons).         *)
(***************************************************************************)
THEOREM TruncationsAreReal == Spec => []TruncationAlarmIsReal
  <1>1. Init => TornInv
    BY DEF Init, TornInv
  <1>2. ReaderInv /\ TornInv /\ [Next]_vars => TornInv'
    BY TornKept
  <1>3. ReaderInv /\ TornInv => TruncationAlarmIsReal
    BY DEF ReaderInv, ReturnInv, TornInv, TruncationAlarmIsReal
  <1> QED
    BY ReaderFollowsGrammar, <1>1, <1>2, <1>3, PTL DEF Spec

(***************************************************************************)
(* When drain returns without error it has handed over every record that   *)
(* is complete in the bytes it read, it says the report is closed exactly  *)
(* if those bytes close it, and only their last byte can be one the        *)
(* grammar rejects (drain, Next, isIncomplete).                            *)
(***************************************************************************)
THEOREM ReturnsCaughtUp == Spec => []CleanReturnIsCaughtUp
  <1>1. ReaderInv => CleanReturnIsCaughtUp
    <2> SUFFICES ASSUME ReaderInv, ~shrunk, pc = "idle", result \in {"ok", "closed"}
                 PROVE LET read == SubSeq(file, 1, ReadOffset) IN
                       /\ delivered = Records(read)
                       /\ result = "closed" <=> IsClosed(read)
                       /\ IsCorrupt(read)
                            => ~IsCorrupt(SubSeq(read, 1, Len(read) - 1))
      BY DEF CleanReturnIsCaughtUp, Untouched
    <2> DEFINE read == SubSeq(file, 1, ReadOffset)
    <2>1. /\ IsSlice(buffer, file, committed)
          /\ After(file, committed).records = delivered
          /\ After(file, committed).at
                = IF closed THEN "closed" ELSE IF opened THEN "value" ELSE "open"
      BY DEF ReaderInv, FramedInv
    <2>2. /\ file \in Seq(Byte) /\ committed \in Nat /\ Len(buffer) \in Nat
          /\ Len(file) \in Nat /\ ReadOffset \in 0..Len(file)
      BY <2>1, LenProperties DEF IsSlice, ReadOffset
    <2>3. Framing(read) = After(file, ReadOffset)
      BY DEF After
    <2>4. ASSUME ReadOffset > 0
          PROVE Framing(SubSeq(read, 1, Len(read) - 1)) = After(file, ReadOffset - 1)
      <3>1. read \in Seq(Byte) /\ Len(read) = ReadOffset
            /\ \A k \in 0..ReadOffset : After(read, k) = After(file, k)
        BY <2>2, CutKeeps
      <3>2. ReadOffset - 1 \in 0..ReadOffset
        BY <2>2, <2>4
      <3> QED
        BY <3>1, <3>2 DEF After
    <2>5. /\ After(file, ReadOffset).records = delivered
          /\ After(file, ReadOffset).at = "closed" <=> closed
          /\ After(file, ReadOffset).at = "corrupt" =>
                ReadOffset > 0 /\ After(file, ReadOffset - 1).at # "corrupt"
      <3>1. CASE closed
        <4>1. Len(buffer) = 0
          BY <3>1, EmptySeq DEF ReaderInv, ControlInv
        <4>2. ReadOffset = committed
          BY <2>2, <4>1 DEF ReadOffset
        <4> QED
          BY <2>1, <3>1, <4>2
      <3>2. CASE ~closed
        <4>1. AwaitsMore
          BY <3>2 DEF ReaderInv, ReturnInv
        <4>2. CASE opened
          <5>1. NeedsMore(buffer) /\ After(file, committed).at = "value"
            BY <2>1, <3>2, <4>1, <4>2 DEF AwaitsMore
          <5>2. /\ After(file, committed + Len(buffer)).records
                      = After(file, committed).records
                /\ After(file, committed + Len(buffer)).at # "closed"
                /\ After(file, committed + Len(buffer)).at = "corrupt" =>
                      /\ Len(buffer) > 0
                      /\ After(file, committed + Len(buffer) - 1).at # "corrupt"
            BY <2>1, <5>1, NeedsMoreIsIncomplete
          <5>3. /\ committed + Len(buffer) = ReadOffset
                /\ committed + Len(buffer) - 1 = ReadOffset - 1
                /\ Len(buffer) > 0 => ReadOffset > 0
            BY <2>2 DEF ReadOffset
          <5>4. After(file, committed).records = delivered
            BY <2>1
          <5> QED
            BY <3>2, <5>2, <5>3, <5>4
        <4>3. CASE ~opened
          <5>1. Blank(buffer, 1) /\ After(file, committed).at = "open"
            BY <2>1, <3>2, <4>1, <4>3 DEF AwaitsMore
          <5>2. /\ After(file, committed + Len(buffer)).at = "open"
                /\ After(file, committed + Len(buffer)).records = delivered
            BY <2>1, <5>1, BlankBuffer
          <5> QED
            BY <3>2, <5>2 DEF ReadOffset
        <4> QED
          BY <4>2, <4>3
      <3> QED
        BY <3>1, <3>2
    <2>6. result = "closed" <=> closed
      BY DEF ReaderInv, ReturnInv
    <2>7. Len(read) = ReadOffset
      BY <2>2, CutKeeps
    <2> HIDE DEF read
    <2>8. /\ delivered = Records(read)
          /\ result = "closed" <=> IsClosed(read)
          /\ IsCorrupt(read) => ~IsCorrupt(SubSeq(read, 1, Len(read) - 1))
      BY <2>3, <2>4, <2>5, <2>6 DEF Records, IsClosed, IsCorrupt
    <2> QED
      BY <2>8 DEF read
  <1> QED
    BY ReaderFollowsGrammar, <1>1, PTL

-----------------------------------------------------------------------------
(***************************************************************************)
(* The record stream.                                                      *)
(***************************************************************************)

\* A byte of the writer completes one record or none.
LEMMA WriteByteCompletes ==
    ASSUME ReaderInv, NEW b \in Byte, WriteByte(b)
    PROVE Stream!Complete \/ UNCHANGED <<grammar.records, delivered>>
  <1>1. /\ file \in Seq(Byte) /\ grammar = Framing(file)
        /\ grammar' = FramingStep(grammar, b) /\ UNCHANGED delivered
    BY DEF ReaderInv, TypeOK, FileInv, WriteByte
  <1>2. grammar \in FramingState
    <2>1. Len(file) \in 0..Len(file)
      BY <1>1, LenProperties
    <2> DEFINE all == Len(file)
    <2>2. After(file, all) = grammar /\ all \in 0..Len(file)
      BY <1>1, <2>1, AfterSteps
    <2> HIDE DEF all
    <2> QED
      BY <1>1, <2>2, AfterType
  <1> DEFINE old == grammar.records
             new == grammar'.records
             x == <<grammar.start, grammar.offset + 1>>
  <1>3. new \in {old, Append(old, x)}
    BY <1>1, <1>2, FramingStepType
  <1>4. old \in Seq(Nat \X Nat) /\ x \in Nat \X Nat /\ Len(old) \in Nat
    BY <1>2, LenProperties DEF FramingState
  <1>5. Len(Append(old, x)) = Len(old) + 1 /\ SubSeq(Append(old, x), 1, Len(old)) = old
    <2> HIDE DEF old, x
    <2>1. /\ Append(old, x) \in Seq(Nat \X Nat) /\ Len(Append(old, x)) = Len(old) + 1
          /\ \A i \in 1..Len(old) : Append(old, x)[i] = old[i]
      BY <1>4, AppendProperties
    <2> DEFINE cut == SubSeq(Append(old, x), 1, Len(old))
    <2>2. \A i \in 1..Len(old) : Append(old, x)[i] \in Nat \X Nat
      BY <1>4, <2>1, ElementOfSeq
    <2>3. /\ cut \in Seq(Nat \X Nat) /\ Len(cut) = Len(old)
          /\ \A i \in 1..Len(old) : cut[i] = old[i]
      BY <1>4, <2>1, <2>2, SubSeqProperties
    <2> HIDE DEF cut
    <2>4. cut = old
      BY <1>4, <2>3, SeqEqual
    <2> QED
      BY <2>1, <2>4 DEF cut
  <1>6. CASE new = old
    BY <1>1, <1>6
  <1>7. CASE new = Append(old, x)
    <2>1. Len(new) = Len(old) + 1 /\ SubSeq(new, 1, Len(old)) = old
      <3> HIDE DEF new, old, x
      <3> QED
        BY <1>5, <1>7
    <2> QED
      BY <1>1, <2>1 DEF Stream!Complete
  <1> QED
    BY <1>3, <1>6, <1>7

\* A record the handler accepts is the next one of the stream.
LEMMA ApplyDelivers ==
    ASSUME ReaderInv, Apply, ~shrunk
    PROVE Stream!Deliver
  <1> DEFINE record == <<pending.start, pending.end>>
             all == grammar.records
  <1>1. delivered' = Append(delivered, record) /\ grammar' = grammar /\ shrunk' = shrunk
    BY DEF Apply
  <1>2. ReaderInv'
    BY ApplyKeeps
  <1>3. /\ delivered \in Seq(Nat \X Nat) /\ record \in Nat \X Nat
        /\ Len(delivered) \in Nat
    BY ApplyEffect, LenProperties DEF ReaderInv, TypeOK
  <1>4. /\ file' \in Seq(Byte) /\ committed' \in 0..Len(file')
        /\ After(file', committed').records = delivered' /\ grammar' = Framing(file')
    <2>1. IsSlice(buffer, file, committed)'
      BY <1>1, <1>2 DEF ReaderInv, FramedInv
    <2> QED
      BY <1>1, <1>2, <2>1, LenProperties DEF ReaderInv, FramedInv, FileInv, IsSlice
  <1>5. /\ Len(delivered') <= Len(all)
        /\ delivered' = SubSeq(all, 1, Len(delivered'))
        /\ all \in Seq(Nat \X Nat)
    <2> DEFINE end == Len(file')
               s == file'
               c == committed'
    <2>1. /\ s \in Seq(Byte) /\ c \in 0..Len(s) /\ end \in c..Len(s)
          /\ end \in 0..Len(s) /\ After(s, end) = grammar
          /\ After(s, c).records = delivered'
      BY <1>1, <1>4, AfterSteps, LenProperties
    <2> HIDE DEF end, s, c
    <2>2. /\ Len(After(s, c).records) <= Len(After(s, end).records)
          /\ After(s, c).records
                = SubSeq(After(s, end).records, 1, Len(After(s, c).records))
      BY <2>1, RecordsGrow
    <2>3. After(s, end) \in FramingState
      BY <2>1, AfterType
    <2> QED
      BY <2>1, <2>2, <2>3 DEF FramingState
  <1> HIDE DEF record, all
  <1>6. /\ Len(Append(delivered, record)) = Len(delivered) + 1
        /\ Append(delivered, record)[Len(delivered) + 1] = record
    BY <1>3, AppendProperties
  <1>7. Len(delivered) + 1 <= Len(all) /\ Len(all) \in Nat
    BY <1>1, <1>5, <1>6, LenProperties
  <1>8. all[Len(delivered) + 1] = record
    <2> DEFINE n == Len(delivered) + 1
    <2>1. n \in Int /\ n \in 1..n /\ \A i \in 1..n : all[i] \in Nat \X Nat
      BY <1>3, <1>5, <1>7, ElementOfSeq
    <2>2. SubSeq(all, 1, n)[n] = record
      BY <1>1, <1>5, <1>6
    <2> HIDE DEF n
    <2>3. \A i \in 1..n - 1 + 1 : SubSeq(all, 1, n)[i] = all[1 + i - 1]
      BY <2>1, SubSeqProperties
    <2>4. n \in 1..n - 1 + 1 /\ 1 + n - 1 = n
      BY <2>1
    <2>5. SubSeq(all, 1, n)[n] = all[n]
      BY <2>3, <2>4
    <2> QED
      BY <2>2, <2>5 DEF n
  <1> QED
    BY <1>1, <1>3, <1>7, <1>8 DEF Stream!Deliver, all

(***************************************************************************)
(* While nobody truncates the file the reader implements the record        *)
(* stream: records come out one at a time, in order, each exactly once,    *)
(* however bytes are written, read and framed (drain, Next, Commit).       *)
(***************************************************************************)
THEOREM ReaderImplementsStream ==
    ASSUME ~MayTruncate PROVE Spec => ImplementsRecordStream
  <1>1. Init => Stream!StreamInit
    BY DEF Init, Stream!StreamInit, FramingStart
  <1>2. ReaderInv /\ [Next]_vars => [Stream!StreamNext]_(Stream!streamVars)
    <2> SUFFICES ASSUME ReaderInv, [Next]_vars
                 PROVE Stream!Complete \/ Stream!Deliver
                       \/ UNCHANGED <<grammar.records, delivered>>
      BY DEF Stream!StreamNext, Stream!streamVars
    <2>1. ~shrunk
      BY DEF ReaderInv, FileInv
    <2>2. ASSUME NEW b \in Alphabet, WriteByte(b)
          PROVE Stream!Complete \/ UNCHANGED <<grammar.records, delivered>>
      BY <2>2, WriteByteCompletes, AlphabetAssumption
    <2>3. CASE Apply
      BY <2>1, <2>3, ApplyDelivers
    <2>4. ASSUME NEW n \in 0..MaxFileBytes, Truncate(n) PROVE FALSE
      BY <2>4 DEF Truncate
    <2>5. CASE UNCHANGED <<grammar, delivered>>
      BY <2>5
    <2>6. CASE Reader /\ ~Apply
      <3>1. UNCHANGED <<grammar, delivered>>
        BY <2>6 DEF Reader, StartDrain, DecoderNext, NextPending, NextClosed,
           ConsumeOpeningBracket, NextRecord, NextEmptyArray, NextTooLarge,
           NextNeedMore, NextInvalidFraming, ApplyFails, Stat, StatFails, Read,
           ReadNothing, ReadAtFails, historyVars
      <3> QED
        BY <2>5, <3>1
    <2>7. CASE UNCHANGED vars
      BY <2>5, <2>7 DEF vars, historyVars
    <2> QED
      BY <2>2, <2>3, <2>4, <2>6, <2>7 DEF Next, Writer
  <1> QED
    BY ReaderFollowsGrammar, <1>1, <1>2, PTL
       DEF Spec, ImplementsRecordStream, Stream!StreamSpec
=============================================================================
