-------------------------- MODULE ReportFramingProofs --------------------------
(***************************************************************************)
(* The reference grammar of a report, byte by byte: what each byte does,   *)
(* and what follows for the bytes of a prefix.  Framing is defined by a    *)
(* recursive function on the offsets of a sequence; what holds after every *)
(* prefix is proved by induction on its length (SetInduction), from the    *)
(* well-foundedness of the natural numbers.                                *)
(***************************************************************************)
EXTENDS ReportFraming, SequenceTheorems, WellFoundedInduction, TLAPS

\* Every set of natural numbers that is not empty has a least element.
LEMMA LeastElement ==
    ASSUME NEW S, S \subseteq Nat, S # {}
    PROVE \E m \in S : \A n \in S : m <= n
  <1> DEFINE R == {pair \in Nat \X Nat : pair[1] < pair[2]}
  <1>1. IsWellFoundedOn(R, Nat)
    BY NatLessThanWellFounded, Zenon DEF OpToRel
  <1>2. \E m \in S : \A n \in S : ~ (<<n, m>> \in R)
    <2> HIDE DEF R
    <2> QED
      BY <1>1, WFMin, Zenon
  <1> QED
    <2>1. PICK m \in S : \A n \in S : ~ (<<n, m>> \in R)
      BY <1>2
    <2>2. ASSUME NEW n \in S PROVE m <= n
      <3>1. ~ (n < m)
        BY <2>1
      <3> QED
        BY <3>1
    <2> QED
      BY <2>2

\* A set that has 0, and n + 1 with every n, has every natural number.
LEMMA SetInduction ==
    ASSUME NEW S, 0 \in S, \A n \in Nat : n \in S => n + 1 \in S
    PROVE Nat \subseteq S
  <1> SUFFICES ASSUME Nat \ S # {} PROVE FALSE
    OBVIOUS
  <1>1. PICK m \in Nat \ S : \A n \in Nat \ S : m <= n
    BY LeastElement
  <1>2. m # 0 /\ m - 1 \in Nat \ S
    OBVIOUS
  <1> QED
    BY <1>1, <1>2

\* The places of the grammar, and the states of its automaton.
Place == {"open", "value", "object", "delimiter", "closed", "corrupt"}
FramingState ==
    [at : Place, offset : Nat, start : Nat, records : Seq(Nat \X Nat)]

\* GoTo moves on by one byte and keeps the records.
LEMMA GoToType ==
    ASSUME NEW a \in FramingState, NEW p \in Place
    PROVE /\ GoTo(a, p) \in FramingState
          /\ GoTo(a, p) = [at |-> p, offset |-> a.offset + 1, start |-> a.start,
                           records |-> a.records]
  <1>1. GoTo(a, p) = [at |-> p, offset |-> a.offset + 1, start |-> a.start,
                           records |-> a.records]
    <2>1. [a EXCEPT !.at = p]
            = [at |-> p, offset |-> a.offset, start |-> a.start, records |-> a.records]
      BY DEF FramingState
    <2>2. GoTo(a, p) = [[a EXCEPT !.at = p] EXCEPT !.offset = a.offset + 1]
      BY Zenon DEF GoTo
    <2> QED
      BY <2>1, <2>2
  <1>2. a.offset + 1 \in Nat /\ a.start \in Nat /\ a.records \in Seq(Nat \X Nat)
    BY DEF FramingState
  <1> QED
    BY <1>1, <1>2 DEF FramingState, Place

\* The byte that begins an object of the array.
Begin(a) == [GoTo(a, "object") EXCEPT !.start = a.offset]

\* What one byte does, at each place of the grammar.
LEMMA StepAt ==
    ASSUME NEW a \in FramingState, NEW b \in Byte
    PROVE /\ a.at = "open" =>
              FramingStep(a, b) = GoTo(a, IF b = "w" THEN "open"
                                          ELSE IF b = "[" THEN "value" ELSE "corrupt")
          /\ a.at = "value" /\ b = "first" =>
              FramingStep(a, b) = Begin(a)
          /\ a.at = "value" /\ b # "first" =>
              FramingStep(a, b) =
                GoTo(a, IF b = "w" THEN "value"
                        ELSE IF b = "]" /\ a.records = <<>> THEN "closed"
                        ELSE "corrupt")
          /\ a.at = "object" =>
              FramingStep(a, b) =
                GoTo(a, IF \/ b \notin Interior \cup {"last"}
                           \/ a.offset + 1 - a.start > MaxRecordBytes
                        THEN "corrupt" ELSE IF b = "last" THEN "delimiter" ELSE "object")
          /\ a.at = "delimiter" /\ b \in {"comma", "]"} =>
              FramingStep(a, b) = Complete(a, IF b = "comma" THEN "value" ELSE "closed")
          /\ a.at = "delimiter" /\ b \notin {"comma", "]"} =>
              FramingStep(a, b) = GoTo(a, IF b = "w" THEN "delimiter" ELSE "corrupt")
          /\ a.at = "closed" =>
              FramingStep(a, b) = GoTo(a, IF b = "w" THEN "closed" ELSE "corrupt")
          /\ a.at = "corrupt" => FramingStep(a, b) = GoTo(a, "corrupt")
  <1> USE DEF GoTo, Corrupt, Begin
  <1>1. CASE a.at = "open"
    BY <1>1, Zenon DEF FramingStep
  <1>2. CASE a.at = "value"
    BY <1>2 DEF FramingStep
  <1>3. CASE a.at = "object"
    BY <1>3 DEF FramingStep
  <1>4. CASE a.at = "delimiter"
    BY <1>4 DEF FramingStep
  <1>5. CASE a.at = "closed"
    BY <1>5 DEF FramingStep
  <1>6. CASE a.at = "corrupt"
    BY <1>6 DEF FramingStep
  <1> QED
    BY <1>1, <1>2, <1>3, <1>4, <1>5, <1>6 DEF FramingState, Place

\* The byte that begins an object records where it is.
LEMMA BeginType ==
    ASSUME NEW a \in FramingState
    PROVE /\ Begin(a) \in FramingState
          /\ Begin(a) = [at |-> "object", offset |-> a.offset + 1, start |-> a.offset,
                      records |-> a.records]
  <1>1. GoTo(a, "object") = [at |-> "object", offset |-> a.offset + 1, start |-> a.start,
                             records |-> a.records]
    BY GoToType DEF Place
  <1>2. a.offset \in Nat /\ a.offset + 1 \in Nat /\ a.records \in Seq(Nat \X Nat)
    BY DEF FramingState
  <1>3. [GoTo(a, "object") EXCEPT !.start = a.offset]
            = [at |-> "object", offset |-> a.offset + 1, start |-> a.offset,
               records |-> a.records]
    BY <1>1
  <1> QED
    BY <1>2, <1>3 DEF FramingState, Place, Begin

\* A delimiter completes the record whose object precedes it.
LEMMA CompleteType ==
    ASSUME NEW a \in FramingState, NEW p \in Place
    PROVE /\ Complete(a, p) \in FramingState
          /\ Complete(a, p) = [at |-> p, offset |-> a.offset + 1, start |-> a.start,
                               records |-> Append(a.records, <<a.start, a.offset + 1>>)]
  <1>1. GoTo(a, p) = [at |-> p, offset |-> a.offset + 1, start |-> a.start,
                      records |-> a.records]
    BY GoToType
  <1>2. a.offset + 1 \in Nat /\ a.start \in Nat /\ a.records \in Seq(Nat \X Nat)
    BY DEF FramingState
  <1>3. Complete(a, p) = [at |-> p, offset |-> a.offset + 1, start |-> a.start,
                          records |-> Append(a.records, <<a.start, a.offset + 1>>)]
    <2> DEFINE record == <<a.start, a.offset + 1>>
    <2>1. Complete(a, p)
            = [GoTo(a, p) EXCEPT !.records = Append(GoTo(a, p).records, record)]
      BY Zenon DEF Complete
    <2> DEFINE longer == Append(GoTo(a, p).records, record)
    <2>2. longer = Append(a.records, record)
      BY <1>1
    <2>4. Complete(a, p) = [GoTo(a, p) EXCEPT !.records = longer]
      BY <2>1
    <2> HIDE DEF longer
    <2>3. Complete(a, p) = [at |-> p, offset |-> a.offset + 1, start |-> a.start,
                            records |-> longer]
      BY <1>1, <2>4
    <2> QED
      BY <2>2, <2>3
  <1>4. Append(a.records, <<a.start, a.offset + 1>>) \in Seq(Nat \X Nat)
    BY <1>2, AppendProperties
  <1> QED
    BY <1>2, <1>3, <1>4 DEF FramingState, Place

\* A byte moves on, begins an object or completes a record.
LEMMA StepCases ==
    ASSUME NEW a \in FramingState, NEW b \in Byte
    PROVE \/ \E p \in Place : FramingStep(a, b) = GoTo(a, p)
          \/ FramingStep(a, b) = Begin(a)
          \/ \E p \in Place : FramingStep(a, b) = Complete(a, p)
  <1>1. a.at \in Place
    BY DEF FramingState, Place
  <1> HIDE DEF FramingState
  <1> QED
    BY <1>1, StepAt, Zenon DEF Place, Begin

\* A byte keeps the automaton well-typed and adds at most one record.
LEMMA FramingStepType ==
    ASSUME NEW a \in FramingState, NEW b \in Byte
    PROVE /\ FramingStep(a, b) \in FramingState
          /\ FramingStep(a, b).offset = a.offset + 1
          /\ FramingStep(a, b).records
                \in {a.records, Append(a.records, <<a.start, a.offset + 1>>)}
  <1>1. ASSUME NEW p \in Place
        PROVE /\ GoTo(a, p) \in FramingState /\ GoTo(a, p).offset = a.offset + 1
              /\ GoTo(a, p).records = a.records
    BY GoToType
  <1>2. ASSUME NEW p \in Place
        PROVE /\ Complete(a, p) \in FramingState /\ Complete(a, p).offset = a.offset + 1
              /\ Complete(a, p).records = Append(a.records, <<a.start, a.offset + 1>>)
    BY CompleteType
  <1>3. /\ Begin(a) \in FramingState /\ Begin(a).offset = a.offset + 1
        /\ Begin(a).records = a.records
    BY BeginType
  <1> QED
    BY <1>1, <1>2, <1>3, StepCases

\* f is the scan that Framing defines, on the first m bytes.
IsScan(f, bytes, m) ==
    f = [n \in 0..m |-> IF n = 0 THEN FramingStart ELSE FramingStep(f[n - 1], bytes[n])]

\* The recursive function of Framing exists.
LEMMA ScanExists ==
    ASSUME NEW bytes, NEW m \in Nat
    PROVE \E f : IsScan(f, bytes, m)
  <1> DEFINE S == {n \in Nat : \E f : IsScan(f, bytes, n)}
  <1>1. 0 \in S
    <2> DEFINE f == [n \in 0..0 |-> FramingStart]
    <2>1. IsScan(f, bytes, 0)
      BY DEF IsScan
    <2> QED
      BY <2>1
  <1>2. ASSUME NEW n \in Nat, n \in S PROVE n + 1 \in S
    <2>1. PICK f : IsScan(f, bytes, n)
      BY <1>2
    <2> DEFINE g == [k \in 0..(n + 1) |->
                        IF k = n + 1 THEN FramingStep(f[n], bytes[n + 1]) ELSE f[k]]
    <2>2. \A k \in 0..(n + 1) :
              g[k] = IF k = 0 THEN FramingStart ELSE FramingStep(g[k - 1], bytes[k])
      BY <2>1 DEF IsScan
    <2>3. IsScan(g, bytes, n + 1)
      BY <2>2 DEF IsScan
    <2> QED
      BY <2>3
  <1>3. Nat \subseteq S
    <2> HIDE DEF S
    <2> QED
      BY <1>1, <1>2, SetInduction
  <1> QED
    BY <1>3

\* Scans of sequences that agree on a prefix agree after it.
LEMMA ScansAgree ==
    ASSUME NEW s, NEW t, NEW f, NEW g, NEW m \in Nat, NEW n \in Nat,
           IsScan(f, s, m), IsScan(g, t, n),
           m <= n, \A k \in 1..m : s[k] = t[k]
    PROVE f[m] = g[m]
  <1> DEFINE S == {k \in Nat : k <= m => f[k] = g[k]}
  <1>1. 0 \in S
    BY DEF IsScan
  <1>2. ASSUME NEW k \in Nat, k \in S PROVE k + 1 \in S
    BY <1>2 DEF IsScan
  <1>3. Nat \subseteq S
    <2> HIDE DEF S
    <2> QED
      BY <1>1, <1>2, SetInduction
  <1> QED
    BY <1>3

\* Framing is the last value of such a scan.
LEMMA FramingIsScan ==
    ASSUME NEW bytes \in Seq(Byte)
    PROVE \E f : IsScan(f, bytes, Len(bytes)) /\ Framing(bytes) = f[Len(bytes)]
  <1> DEFINE scan == CHOOSE f : f = [n \in 0..Len(bytes) |->
                        IF n = 0 THEN FramingStart ELSE FramingStep(f[n - 1], bytes[n])]
  <1>1. \E f : f = [n \in 0..Len(bytes) |->
                        IF n = 0 THEN FramingStart ELSE FramingStep(f[n - 1], bytes[n])]
    BY ScanExists, LenProperties DEF IsScan
  <1>2. scan = [n \in 0..Len(bytes) |->
                    IF n = 0 THEN FramingStart
                    ELSE FramingStep(scan[n - 1], bytes[n])]
    BY <1>1, Zenon
  <1>3. Framing(bytes) = scan[Len(bytes)]
    BY Zenon DEF Framing
  <1> HIDE DEF scan
  <1> QED
    BY <1>2, <1>3 DEF IsScan

\* The automaton after the first n bytes.
After(s, n) == Framing(SubSeq(s, 1, n))

\* A prefix of a sequence of bytes.
LEMMA PrefixType ==
    ASSUME NEW s \in Seq(Byte), NEW n \in 0..Len(s)
    PROVE /\ SubSeq(s, 1, n) \in Seq(Byte) /\ Len(SubSeq(s, 1, n)) = n
          /\ \A k \in 1..n : SubSeq(s, 1, n)[k] = s[k]
  <1>1. \A k \in 1..n : s[k] \in Byte
    BY ElementOfSeq, LenProperties
  <1>2. n \in Int /\ n \in Nat
    BY LenProperties
  <1> HIDE DEF Byte
  <1> QED
    BY <1>1, <1>2, SubSeqProperties

\* The automaton goes from each byte to the next by one step.
LEMMA AfterSteps ==
    ASSUME NEW s \in Seq(Byte)
    PROVE /\ After(s, 0) = FramingStart
          /\ \A n \in 1..Len(s) : After(s, n) = FramingStep(After(s, n - 1), s[n])
          /\ After(s, Len(s)) = Framing(s)
  <1>1. PICK f : IsScan(f, s, Len(s))
    BY FramingIsScan
  <1>2. \A n \in 0..Len(s) : After(s, n) = f[n]
    <2> TAKE n \in 0..Len(s)
    <2> DEFINE t == SubSeq(s, 1, n)
    <2>1. t \in Seq(Byte) /\ Len(t) = n /\ \A k \in 1..n : t[k] = s[k]
      BY PrefixType
    <2> HIDE DEF t
    <2>2. PICK g : IsScan(g, t, n) /\ Framing(t) = g[n]
      BY <2>1, FramingIsScan
    <2>3. n \in Nat /\ Len(s) \in Nat /\ n <= Len(s)
      BY LenProperties
    <2>4. g[n] = f[n]
      BY <1>1, <2>1, <2>2, <2>3, ScansAgree
    <2> QED
      BY <2>2, <2>4 DEF After, t
  <1>3. Len(s) \in Nat
    BY LenProperties
  <1>4. f[0] = FramingStart /\ \A n \in 1..Len(s) : f[n] = FramingStep(f[n - 1], s[n])
    BY <1>1, <1>3 DEF IsScan
  <1>5. After(s, Len(s)) = Framing(s)
    BY SubSeqFull DEF After
  <1> QED
    BY <1>2, <1>3, <1>4, <1>5

\* It is well-typed after every byte, and its offset counts them.
LEMMA AfterType ==
    ASSUME NEW s \in Seq(Byte), NEW n \in 0..Len(s)
    PROVE After(s, n) \in FramingState /\ After(s, n).offset = n
  <1> DEFINE S == {k \in Nat : k <= Len(s) =>
                        After(s, k) \in FramingState /\ After(s, k).offset = k}
  <1>1. 0 \in S
    <2>1. FramingStart \in FramingState /\ FramingStart.offset = 0
      BY EmptySeq DEF FramingStart, FramingState, Place
    <2> QED
      BY <2>1, AfterSteps
  <1>2. ASSUME NEW k \in Nat, k \in S PROVE k + 1 \in S
    <2> SUFFICES ASSUME k + 1 <= Len(s)
                 PROVE After(s, k + 1) \in FramingState /\ After(s, k + 1).offset = k + 1
      OBVIOUS
    <2>1. After(s, k) \in FramingState /\ After(s, k).offset = k
      BY <1>2, LenProperties
    <2>2. k + 1 \in 1..Len(s) /\ s[k + 1] \in Byte
      BY ElementOfSeq, LenProperties
    <2>3. After(s, k + 1) = FramingStep(After(s, k), s[k + 1])
      BY <2>2, AfterSteps
    <2>4. /\ FramingStep(After(s, k), s[k + 1]) \in FramingState
          /\ FramingStep(After(s, k), s[k + 1]).offset = After(s, k).offset + 1
      <3> DEFINE a == After(s, k)
                 b == s[k + 1]
      <3>1. a \in FramingState /\ b \in Byte
        BY <2>1, <2>2
      <3> HIDE DEF a, b, S
      <3>2. FramingStep(a, b) \in FramingState /\ FramingStep(a, b).offset = a.offset + 1
        BY <3>1, FramingStepType
      <3> QED
        BY <3>2 DEF a, b
    <2> QED
      BY <2>1, <2>3, <2>4
  <1>3. Nat \subseteq S
    <2> HIDE DEF S
    <2> QED
      BY <1>1, <1>2, SetInduction
  <1> QED
    BY <1>3, LenProperties

\* It depends on the bytes before it only.
LEMMA AfterAgrees ==
    ASSUME NEW s \in Seq(Byte), NEW t \in Seq(Byte), NEW n \in Nat,
           n <= Len(s), n <= Len(t), \A k \in 1..n : s[k] = t[k]
    PROVE After(s, n) = After(t, n)
  <1>1. n \in 0..Len(s) /\ n \in 0..Len(t)
    BY LenProperties
  <1>2. SubSeq(s, 1, n) = SubSeq(t, 1, n)
    BY <1>1, PrefixType, SeqEqual
  <1> QED
    BY <1>2 DEF After

\* Later bytes add records and change none of those there are.
LEMMA RecordsGrow ==
    ASSUME NEW s \in Seq(Byte), NEW m \in 0..Len(s), NEW n \in m..Len(s)
    PROVE /\ Len(After(s, m).records) <= Len(After(s, n).records)
          /\ After(s, m).records
                = SubSeq(After(s, n).records, 1, Len(After(s, m).records))
  <1> DEFINE old == After(s, m).records
             Extends(r) == /\ r \in Seq(Nat \X Nat) /\ Len(old) <= Len(r)
                           /\ \A i \in 1..Len(old) : r[i] = old[i]
             S == {k \in Nat : m + k <= Len(s) => Extends(After(s, m + k).records)}
  <1>0. Len(s) \in Nat /\ m \in Nat /\ n \in Nat /\ m <= n /\ n <= Len(s)
    BY LenProperties
  <1>1. old \in Seq(Nat \X Nat) /\ Len(old) \in Nat
    BY AfterType, LenProperties DEF FramingState
  <1>2. 0 \in S
    BY <1>0, <1>1
  <1>3. ASSUME NEW k \in Nat, k \in S PROVE k + 1 \in S
    <2> SUFFICES ASSUME m + (k + 1) <= Len(s)
                 PROVE Extends(After(s, m + (k + 1)).records)
      OBVIOUS
    <2> DEFINE a == After(s, m + k)
               b == After(s, m + k + 1)
    <2>1. m + k \in 0..Len(s) /\ m + k + 1 \in 1..Len(s) /\ s[m + k + 1] \in Byte
      BY <1>0, ElementOfSeq
    <2>2. a \in FramingState /\ Extends(a.records)
      BY <1>0, <1>3, <2>1, AfterType
    <2>3. b = FramingStep(a, s[m + k + 1])
      BY <1>0, <2>1, AfterSteps
    <2>4. b.records \in {a.records, Append(a.records, <<a.start, a.offset + 1>>)}
      BY <2>1, <2>2, <2>3, FramingStepType
    <2>5. <<a.start, a.offset + 1>> \in Nat \X Nat
      BY <2>2 DEF FramingState
    <2> HIDE DEF a, b
    <2>6. Extends(b.records)
      <3> HIDE DEF old
      <3> DEFINE r == a.records
                 x == <<a.start, a.offset + 1>>
      <3>1. r \in Seq(Nat \X Nat) /\ x \in Nat \X Nat /\ Len(r) \in Nat
        BY <2>2, <2>5, LenProperties
      <3>2. /\ Append(r, x) \in Seq(Nat \X Nat) /\ Len(Append(r, x)) = Len(r) + 1
            /\ \A i \in 1..Len(r) : Append(r, x)[i] = r[i]
        <4> HIDE DEF r, x
        <4> QED
          BY <3>1, AppendProperties
      <3>3. Extends(Append(r, x))
        <4> HIDE DEF r, x
        <4>1. Extends(r)
          BY <2>2 DEF r
        <4> QED
          BY <1>1, <3>1, <3>2, <4>1
      <3> QED
        BY <2>2, <2>4, <3>3
    <2> QED
      BY <1>0, <2>6 DEF b
  <1>4. Nat \subseteq S
    <2> HIDE DEF S
    <2> QED
      BY <1>2, <1>3, SetInduction
  <1>5. n - m \in Nat /\ m + (n - m) = n
    BY <1>0
  <1>6. Extends(After(s, n).records)
    BY <1>0, <1>4, <1>5
  <1> DEFINE new == After(s, n).records
  <1> HIDE DEF old, new
  <1>7. SubSeq(new, 1, Len(old)) = old
    <2>1. \A i \in 1..Len(old) : new[i] \in Nat \X Nat
      BY <1>1, <1>6, ElementOfSeq DEF new
    <2>2. /\ SubSeq(new, 1, Len(old)) \in Seq(Nat \X Nat)
          /\ Len(SubSeq(new, 1, Len(old))) = Len(old)
          /\ \A i \in 1..Len(old) : SubSeq(new, 1, Len(old))[i] = new[i]
      BY <1>1, <2>1, SubSeqProperties
    <2> QED
      BY <1>1, <1>6, <2>2, SeqEqual DEF new
  <1> QED
    BY <1>6, <1>7 DEF old, new

\* No later byte mends a corrupt report.
LEMMA CorruptStays ==
    ASSUME NEW s \in Seq(Byte), NEW m \in 0..Len(s), NEW n \in m..Len(s),
           After(s, m).at = "corrupt"
    PROVE After(s, n).at = "corrupt"
  <1> DEFINE S == {k \in Nat : m + k <= Len(s) => After(s, m + k).at = "corrupt"}
  <1>0. Len(s) \in Nat /\ m \in Nat /\ n \in Nat /\ m <= n /\ n <= Len(s)
    BY LenProperties
  <1>1. 0 \in S
    BY <1>0
  <1>2. ASSUME NEW k \in Nat, k \in S PROVE k + 1 \in S
    <2> SUFFICES ASSUME m + (k + 1) <= Len(s) PROVE After(s, m + (k + 1)).at = "corrupt"
      OBVIOUS
    <2>1. m + k \in 0..Len(s) /\ m + k + 1 \in 1..Len(s) /\ s[m + k + 1] \in Byte
      BY <1>0, ElementOfSeq
    <2>2. After(s, m + k) \in FramingState /\ After(s, m + k).at = "corrupt"
      BY <1>0, <1>2, <2>1, AfterType
    <2>3. After(s, m + k + 1) = FramingStep(After(s, m + k), s[m + k + 1])
      BY <1>0, <2>1, AfterSteps
    <2>4. After(s, m + k + 1) = GoTo(After(s, m + k), "corrupt")
      BY <2>1, <2>2, <2>3, StepAt
    <2>5. After(s, m + k + 1).at = "corrupt"
      BY <2>2, <2>4, GoToType DEF Place
    <2> QED
      BY <1>0, <2>5
  <1>3. Nat \subseteq S
    <2> HIDE DEF S
    <2> QED
      BY <1>1, <1>2, SetInduction
  <1>4. n - m \in Nat /\ m + (n - m) = n
    BY <1>0
  <1> QED
    BY <1>0, <1>3, <1>4

\* What the byte at offset k does, at each place of the grammar.
LEMMA AfterNext ==
    ASSUME NEW s \in Seq(Byte), NEW k \in Nat, k < Len(s)
    PROVE LET a == After(s, k)
              b == s[k + 1]
              c == After(s, k + 1)
          IN  /\ b \in Byte
              /\ a.at = "open" =>
                    /\ c.at = IF b = "w" THEN "open"
                              ELSE IF b = "[" THEN "value" ELSE "corrupt"
                    /\ c.start = a.start /\ c.records = a.records
              /\ a.at = "value" /\ b = "first" =>
                    c.at = "object" /\ c.start = k /\ c.records = a.records
              /\ a.at = "value" /\ b # "first" =>
                    /\ c.at = IF b = "w" THEN "value"
                              ELSE IF b = "]" /\ a.records = <<>> THEN "closed"
                              ELSE "corrupt"
                    /\ c.start = a.start /\ c.records = a.records
              /\ a.at = "object" =>
                    /\ c.at = IF \/ b \notin Interior \cup {"last"}
                                 \/ k + 1 - a.start > MaxRecordBytes
                              THEN "corrupt"
                              ELSE IF b = "last" THEN "delimiter" ELSE "object"
                    /\ c.start = a.start /\ c.records = a.records
              /\ a.at = "delimiter" /\ b \in {"comma", "]"} =>
                    /\ c.at = IF b = "comma" THEN "value" ELSE "closed"
                    /\ c.records = Append(a.records, <<a.start, k + 1>>)
              /\ a.at = "delimiter" /\ b \notin {"comma", "]"} =>
                    /\ c.at = IF b = "w" THEN "delimiter" ELSE "corrupt"
                    /\ c.start = a.start /\ c.records = a.records
              /\ a.at = "closed" =>
                    /\ c.at = IF b = "w" THEN "closed" ELSE "corrupt"
                    /\ c.start = a.start /\ c.records = a.records
              /\ a.at = "corrupt" => c.at = "corrupt"
  <1> DEFINE a == After(s, k)
             b == s[k + 1]
             c == After(s, k + 1)
  <1>1. Len(s) \in Nat /\ k \in 0..Len(s) /\ k + 1 \in 1..Len(s)
    BY LenProperties
  <1>2. a \in FramingState /\ a.offset = k
    BY <1>1, AfterType
  <1>3. b \in Byte
    BY <1>1, ElementOfSeq
  <1>4. c = FramingStep(a, b)
    BY <1>1, AfterSteps
  <1> HIDE DEF a, b, c
  <1>5. ASSUME NEW p \in Place, c = GoTo(a, p)
        PROVE c.at = p /\ c.start = a.start /\ c.records = a.records
    BY <1>2, <1>5, GoToType
  <1>6. c = Begin(a) => c.at = "object" /\ c.start = k /\ c.records = a.records
    BY <1>2, BeginType
  <1>7. ASSUME NEW p \in Place, c = Complete(a, p)
        PROVE c.at = p /\ c.records = Append(a.records, <<a.start, k + 1>>)
    BY <1>2, <1>7, CompleteType
  <1>8. CASE a.at = "open"
    <2> DEFINE p == IF b = "w" THEN "open" ELSE IF b = "[" THEN "value" ELSE "corrupt"
    <2>1. p \in Place /\ c = GoTo(a, p)
      BY <1>2, <1>3, <1>4, <1>8, StepAt DEF Place
    <2> QED
      BY <1>3, <1>5, <1>8, <2>1 DEF a, b, c
  <1>9. CASE a.at = "value"
    <2> DEFINE p == IF b = "w" THEN "value"
                    ELSE IF b = "]" /\ a.records = <<>> THEN "closed" ELSE "corrupt"
    <2>1. IF b = "first" THEN c = Begin(a) ELSE p \in Place /\ c = GoTo(a, p)
      BY <1>2, <1>3, <1>4, <1>9, StepAt DEF Place
    <2> QED
      BY <1>3, <1>5, <1>6, <1>9, <2>1 DEF a, b, c
  <1>10. CASE a.at = "object"
    <2> DEFINE p == IF b \notin Interior \cup {"last"} \/ k + 1 - a.start > MaxRecordBytes
                    THEN "corrupt" ELSE IF b = "last" THEN "delimiter" ELSE "object"
    <2>1. p \in Place /\ c = GoTo(a, p)
      BY <1>2, <1>3, <1>4, <1>10, StepAt DEF Place
    <2> QED
      BY <1>3, <1>5, <1>10, <2>1 DEF a, b, c
  <1>11. CASE a.at = "delimiter"
    <2> DEFINE p == IF b = "comma" THEN "value" ELSE "closed"
               q == IF b = "w" THEN "delimiter" ELSE "corrupt"
    <2>1. /\ p \in Place /\ q \in Place
          /\ IF b \in {"comma", "]"} THEN c = Complete(a, p) ELSE c = GoTo(a, q)
      BY <1>2, <1>3, <1>4, <1>11, StepAt DEF Place
    <2> QED
      BY <1>3, <1>5, <1>7, <1>11, <2>1 DEF a, b, c
  <1>12. CASE a.at = "closed"
    <2> DEFINE p == IF b = "w" THEN "closed" ELSE "corrupt"
    <2>1. p \in Place /\ c = GoTo(a, p)
      BY <1>2, <1>3, <1>4, <1>12, StepAt DEF Place
    <2> QED
      BY <1>3, <1>5, <1>12, <2>1 DEF a, b, c
  <1>13. CASE a.at = "corrupt"
    <2>1. c = GoTo(a, "corrupt") /\ "corrupt" \in Place
      BY <1>2, <1>3, <1>4, <1>13, StepAt DEF Place
    <2> QED
      BY <1>3, <1>5, <1>13, <2>1 DEF a, b, c
  <1> QED
    BY <1>2, <1>8, <1>9, <1>10, <1>11, <1>12, <1>13 DEF FramingState, Place

\* Whitespace outside an object changes nothing.
LEMMA BlankStays ==
    ASSUME NEW s \in Seq(Byte), NEW m \in 0..Len(s), NEW n \in m..Len(s),
           After(s, m).at \in {"open", "value", "delimiter", "closed"},
           \A k \in (m + 1)..n : s[k] = "w"
    PROVE /\ After(s, n).at = After(s, m).at /\ After(s, n).start = After(s, m).start
          /\ After(s, n).records = After(s, m).records
  <1> DEFINE Same(k) == /\ After(s, k).at = After(s, m).at
                        /\ After(s, k).start = After(s, m).start
                        /\ After(s, k).records = After(s, m).records
             S == {k \in Nat : m + k <= n => Same(m + k)}
  <1>0. Len(s) \in Nat /\ m \in Nat /\ n \in Nat /\ m <= n /\ n <= Len(s)
    BY LenProperties
  <1>1. 0 \in S
    BY <1>0
  <1>2. ASSUME NEW k \in Nat, k \in S PROVE k + 1 \in S
    <2> SUFFICES ASSUME m + (k + 1) <= n PROVE Same(m + k + 1)
      BY <1>0
    <2>1. m + k \in Nat /\ m + k < Len(s) /\ s[m + k + 1] = "w"
      BY <1>0
    <2>2. Same(m + k)
      BY <1>0, <1>2
    <2> QED
      BY <2>1, <2>2, AfterNext
  <1>3. Nat \subseteq S
    <2> HIDE DEF S
    <2> QED
      BY <1>1, <1>2, SetInduction
  <1>4. n - m \in Nat /\ m + (n - m) = n
    BY <1>0
  <1> QED
    BY <1>0, <1>3, <1>4

\* The bytes inside an object leave it open until it is larger than --max-
\* record-bytes, and corrupt from then on.
LEMMA InsideStays ==
    ASSUME NEW s \in Seq(Byte), NEW m \in 0..Len(s), NEW n \in m..Len(s),
           After(s, m).at = "object", m - After(s, m).start <= MaxRecordBytes,
           \A k \in (m + 1)..n : s[k] \in Interior
    PROVE IF n - After(s, m).start <= MaxRecordBytes
          THEN /\ After(s, n).at = "object" /\ After(s, n).start = After(s, m).start
               /\ After(s, n).records = After(s, m).records
          ELSE After(s, n).at = "corrupt"
  <1> DEFINE start == After(s, m).start
             Same(k) == /\ After(s, k).at = "object" /\ After(s, k).start = start
                        /\ After(s, k).records = After(s, m).records
             S == {k \in Nat :
                     m + k <= n /\ m + k - start <= MaxRecordBytes => Same(m + k)}
  <1>0. Len(s) \in Nat /\ m \in Nat /\ n \in Nat /\ m <= n /\ n <= Len(s)
    BY LenProperties
  <1>1. start \in Nat /\ MaxRecordBytes \in Nat
    BY AfterType, MaxRecordBytesAssumption DEF FramingState
  <1>2. 0 \in S
    BY <1>0
  <1>3. ASSUME NEW k \in Nat, k \in S PROVE k + 1 \in S
    <2> SUFFICES ASSUME m + (k + 1) <= n, m + (k + 1) - start <= MaxRecordBytes
                 PROVE Same(m + k + 1)
      BY <1>0
    <2>1. m + k \in Nat /\ m + k < Len(s) /\ s[m + k + 1] \in Interior
      BY <1>0
    <2>2. Same(m + k) /\ ~(m + k + 1 - start > MaxRecordBytes)
      BY <1>0, <1>1, <1>3
    <2> HIDE DEF start
    <2> QED
      BY <2>1, <2>2, AfterNext DEF Interior
  <1>4. Nat \subseteq S
    <2> HIDE DEF S
    <2> QED
      BY <1>2, <1>3, SetInduction
  <1>5. ASSUME NEW k \in m..n, k - start <= MaxRecordBytes PROVE Same(k)
    <2> DEFINE j == k - m
    <2>1. j \in Nat /\ m + j = k /\ m + j <= n
      BY <1>0
    <2>2. j \in S
      BY <1>4, <2>1
    <2> HIDE DEF j, start
    <2>3. m + j - start <= MaxRecordBytes
      BY <1>0, <1>1, <1>5, <2>1
    <2>4. Same(m + j)
      BY <2>1, <2>2, <2>3
    <2> QED
      BY <2>1, <2>4
  <1>6. CASE n - start <= MaxRecordBytes
    BY <1>0, <1>5, <1>6
  <1>7. CASE n - start > MaxRecordBytes
    <2> DEFINE last == start + MaxRecordBytes
    <2> HIDE DEF start
    <2>1. last \in m..n /\ last < n /\ last \in Nat /\ last < Len(s)
      BY <1>0, <1>1, <1>7 DEF start
    <2>2. Same(last)
      BY <1>1, <1>5, <2>1
    <2>3. s[last + 1] \in Interior /\ last + 1 - start > MaxRecordBytes
      BY <1>0, <1>1, <2>1
    <2> HIDE DEF last
    <2>4. After(s, last + 1).at = "corrupt"
      BY <2>1, <2>2, <2>3, AfterNext
    <2>5. last + 1 \in 0..Len(s) /\ n \in (last + 1)..Len(s)
      BY <1>0, <2>1
    <2>6. After(s, n).at = "corrupt"
      BY <2>4, <2>5, CorruptStays
    <2> QED
      BY <1>0, <1>1, <1>7, <2>6 DEF start
  <1> QED
    BY <1>0, <1>1, <1>6, <1>7
=============================================================================
