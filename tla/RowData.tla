------------------------------- MODULE RowData -------------------------------
(***************************************************************************)
(* One row of the table: what the writers put into it, what may become of   *)
(* it, and what the readers with -validate-data make of it (GenerateData,   *)
(* ValidateData, and the five counters of the counter table).               *)
(*                                                                         *)
(* A value is a sequence of cells, the bytes of the program, at a           *)
(* parametric width: so are its 64-bit words, its checksum and the least    *)
(* size of a value with a checksum.  Rows suffer one fault at a time.       *)
(***************************************************************************)
EXTENDS RandomSource, Sequences

CONSTANTS
    CellBits,      \* the bits of a cell: 8 in the program
    WordCells,     \* cells of an int64: 8
    ChecksumCells, \* checksumSize: 4
    MinSize,       \* generatedDataMinSize: 57
    PkFactor, CkFactor,     \* the multipliers of fillPayload
    Shift1, Shift2, Shift3, \* its shifts: 13, 7 and 17
    Sizes,         \* the limits of -clustering-row-size
    PartitionKeys,
    ClusteringKeys, \* the absolute values
    MaxUpdates     \* bound: the updates of a counter row

ASSUME FormatAssumption ==
    /\ CellBits \in Nat \ {0} /\ WordCells \in Nat \ {0}
    /\ ChecksumCells \in 1 .. WordCells
    /\ MinSize \in Nat /\ MinSize > 3 * WordCells + ChecksumCells
    /\ PkFactor \in Nat /\ CkFactor \in Nat
    /\ {Shift1, Shift2, Shift3} \subseteq 1 .. CellBits * WordCells

ASSUME SizeAssumption == Sizes \subseteq Nat \ {0}

\* The number of bits of an int64, and the powers of two up to its values.
WordBits == CellBits * WordCells
TwoTo[k \in 0 .. WordBits] == IF k = 0 THEN 1 ELSE 2 * TwoTo[k - 1]
CellValues == TwoTo[CellBits]
Word == TwoTo[WordBits]

\* A size that has to fits into an int8, and keys are int64s.
ASSUME RangeAssumption ==
    /\ 3 * WordCells <= CellValues \div 2
    /\ PartitionKeys \subseteq -(Word \div 2) .. (Word \div 2) - 1
    /\ ClusteringKeys \subseteq 0 .. (Word \div 2) - 1

VARIABLES
    sizeDist, \* -clustering-row-size; none when the size is drawn
    validateData, randomData, \* flags of the writers, and of the readers
    table,    \* "blob" or "counters": which table the row is in
    pk, ck,   \* the key of the row
    value,    \* column v, or the counters
    fault,    \* what has happened to it since it was written
    verdict   \* of the last read since
rowVars == <<sizeDist, validateData, randomData, table, pk, ck, value, fault, verdict>>

-----------------------------------------------------------------------------
(* The formats *)

HeaderSize == 3 * WordCells

\* The first cells of a number: little endian, and two's complement.
Cells(number, count) ==
    [i \in 1 .. count |-> (number \div TwoTo[CellBits * (i - 1)]) % CellValues]

Zeros(count) == [i \in 1 .. count |-> 0]
Bit(number, i) == (number \div TwoTo[i]) % 2

\* Exclusive or of two words, the sum of the bits in which they differ.
WordXor(a, b) ==
    LET Low[n \in 0 .. WordBits] ==
            IF n = 0 THEN 0
            ELSE Low[n - 1] + TwoTo[n - 1] * ((Bit(a, n - 1) + Bit(b, n - 1)) % 2)
    IN  Low[WordBits]

Int8(cell) == IF cell < CellValues \div 2 THEN cell ELSE cell - CellValues

\* A round of fillPayload's generator.
NextWord(state) ==
    LET a == WordXor(state, state * TwoTo[Shift1])
        b == WordXor(a, a \div TwoTo[Shift2])
    IN  WordXor(b, b * TwoTo[Shift3])

\* fillPayload: whole words, then as much of one as fits.
FillPayload(p, c, size) ==
    LET mixed == WordXor(p * PkFactor, c * CkFactor)
        Words[i \in 0 .. size] == IF i = 0 THEN IF mixed = 0 THEN 1 ELSE mixed
                                          ELSE NextWord(Words[i - 1])
    IN  [i \in 1 .. size |->
            Cells(Words[(i - 1) \div WordCells + 1], WordCells)[((i - 1) % WordCells) + 1]]

\* Mutant of EnsureNonZero: the limit is too low by one.
EnsureNonZeroTooShort(buf) ==
    IF Len(buf) < WordCells - 1 /\ buf = Zeros(Len(buf)) THEN [buf EXCEPT ![1] = 1] ELSE buf

EnsureNonZero(buf) ==
    IF Len(buf) < WordCells /\ buf = Zeros(Len(buf)) THEN [buf EXCEPT ![1] = 1] ELSE buf

\* Stands for CRC32C, and detects a change of one cell as it does.
Crc(cells) ==
    LET Sum[n \in 0 .. Len(cells)] == IF n = 0 THEN 0 ELSE Sum[n - 1] + cells[n]
    IN  Cells(Sum[Len(cells)], ChecksumCells)

\* Mutant of Payload: the checksum does not cover the last cell before it.
PayloadCut(data) == SubSeq(data, HeaderSize + 1, Len(data) - ChecksumCells - 1)

Payload(data) == SubSeq(data, HeaderSize + 1, Len(data) - ChecksumCells)

Header(p, c, size) == Cells(size, WordCells) \o Cells(p, WordCells) \o Cells(c, WordCells)

SmallValue(p, c, size) ==
    SubSeq(Cells(size, 1) \o Cells(WordXor(p, c), WordCells) \o Zeros(HeaderSize), 1, size)

FullValue(p, c, size) ==
    LET unsummed == Header(p, c, size)
                      \o FillPayload(p, c, size - HeaderSize - ChecksumCells)
    IN  unsummed \o Crc(Payload(unsummed \o Zeros(ChecksumCells)))

\* GenerateData with validateData ...
ValidatedValue(p, c, size) ==
    IF size < HeaderSize THEN SmallValue(p, c, size)
    ELSE IF size < MinSize THEN Header(p, c, size) \o Zeros(size - HeaderSize)
    ELSE FullValue(p, c, size)

\* ... and all of it.
GenerateData(p, c, size) ==
    IF validateData THEN ValidatedValue(p, c, size)
    ELSE IF randomData THEN EnsureNonZero(FillPayload(p, c, size))
    ELSE Zeros(size)

-----------------------------------------------------------------------------
(* Validation *)

\* storedSize is there, and is the size of the data.
SizeStored(data) ==
    IF Len(data) < HeaderSize
    THEN Len(data) >= 1 /\ Int8(data[1]) = Len(data)
    ELSE SubSeq(data, 1, WordCells) = Cells(Len(data), WordCells)

KeysStored(p, c, data) ==
    SubSeq(data, WordCells + 1, HeaderSize) = Cells(p, WordCells) \o Cells(c, WordCells)

\* ValidateData returns no error.
ValidData(p, c, data) ==
    \/ ~validateData
    \/ /\ SizeStored(data)
       /\ IF Len(data) < MinSize
          THEN data = ValidatedValue(p, c, Len(data))
          ELSE /\ KeysStored(p, c, data)
               /\ SubSeq(data, Len(data) - ChecksumCells + 1, Len(data))
                    = Crc(Payload(data))

\* What an update adds to the counters c1 to c5.
Increments == [i \in 1 .. 5 |-> ck + i - 1]

\* Go's division, towards zero; b is not 0.
Quotient(a, b) ==
    LET Abs(x) == IF x < 0 THEN -x ELSE x
        q == Abs(a) \div Abs(b)
    IN  IF (a < 0) = (b < 0) THEN q ELSE -q

\* Mutant of UpdateNum: a clustering key of 0 has no updates.
UpdateNumZero(c, counters) == IF c = 0 THEN 0 ELSE Quotient(counters[1], c)

UpdateNum(c, counters) == IF c = 0 THEN counters[2] ELSE Quotient(counters[1], c)

\* executeReadsQuery accepts the counters.
ValidCounters(c, counters) ==
    LET n == UpdateNum(c, counters)
    IN  \/ ~validateData
        \/ /\ counters[1] = c * n
           /\ \A i \in 2 .. 5 : counters[i] = counters[1] + n * (i - 1)

-----------------------------------------------------------------------------
(* The row *)

\* Those of the time series workload are negative.
Keys == PartitionKeys \X (ClusteringKeys \cup {-c : c \in ClusteringKeys})

NoDistribution == [min |-> 0, max |-> 0]

RowInit ==
    /\ sizeDist \in Distributions(Sizes)
    /\ validateData \in BOOLEAN /\ randomData \in BOOLEAN
    /\ table \in {"blob", "counters"}
    /\ \E key \in Keys : pk = key[1] /\ ck = key[2]
    /\ value = << >> /\ fault = "absent" /\ verdict = "none"

Becomes(data, how) ==
    /\ value' = data /\ fault' = how /\ verdict' = "none"
    /\ sizeDist' = NoDistribution
    /\ UNCHANGED <<validateData, randomData, table, pk, ck>>

\* A write, a batched one or a mixed one inserts the row.  (One that is overwritten
\* is as a new one, and is not followed.)
Insert ==
    /\ table = "blob" /\ fault = "absent"
    /\ \E size \in Generated(sizeDist) : Becomes(GenerateData(pk, ck, size), "none")

\* A counter update is applied: once, or again when it has timed out and is retried.
Update ==
    /\ table = "counters"
    /\ \/ fault = "absent" /\ Becomes(Increments, "none")
       \/ /\ fault = "none"
          /\ value[5] - value[4] < MaxUpdates
          /\ Becomes([i \in 1 .. 5 |-> value[i] + Increments[i]], "none")

\* The database returns a wrong cell, fewer cells or more, or another row's value.
Damage ==
    /\ table = "blob" /\ fault = "none"
    /\ \E i \in DOMAIN value, cell \in 0 .. CellValues - 1 :
          cell # value[i] /\ Becomes([value EXCEPT ![i] = cell], "cell")

Resize ==
    /\ table = "blob" /\ fault = "none"
    /\ \/ Becomes(SubSeq(value, 1, Len(value) - 1), "length")
       \/ Becomes(Append(value, 0), "length")

Misplace ==
    /\ table = "blob" /\ fault = "none"
    /\ \E other \in Keys \ {<<pk, ck>>} :
          Becomes(GenerateData(other[1], other[2], Len(value)), "key")

\* An update of one of the counters is lost, or made twice.
Miscount ==
    /\ table = "counters" /\ fault = "none"
    /\ \E i \in 1 .. 5, sign \in {-1, 1} :
          /\ Increments[i] # 0
          /\ Becomes([value EXCEPT ![i] = @ + sign * Increments[i]], "count")

\* A read or a scan returns the row.
Read ==
    /\ fault # "absent" /\ verdict = "none"
    /\ verdict' = IF IF table = "blob" THEN ValidData(pk, ck, value)
                                       ELSE ValidCounters(ck, value)
                  THEN "valid" ELSE "corrupt"
    /\ UNCHANGED <<sizeDist, validateData, randomData, table, pk, ck, value, fault>>

RowNext == Insert \/ Update \/ Damage \/ Resize \/ Misplace \/ Miscount \/ Read

RowSpec == RowInit /\ [][RowNext]_rowVars

-----------------------------------------------------------------------------
(* Properties *)

\* What was written validates, in all three formats and at their boundaries, and so
\* do counters however many updates were applied (modes.go:330-357, 371-387, 837-844).
Intact == fault = "none" => verdict # "corrupt"

\* A fault is detected: a wrong cell anywhere in the value, one too few or too many,
\* the value of another row, and a counter that differs from the others by an update,
\* in rows too whose clustering key is 0, where c1 says nothing.  (Values without a
\* header have only some cells of pk^ck, which rows may share; README.md:298,
\* modes.go:380-387, 398-404, 410-432, 837-848.)
FaultsDetected ==
    /\ validateData
    /\ \/ fault \in {"cell", "length", "count"}
       \/ fault = "key" /\ Len(value) >= HeaderSize
    => verdict # "valid"

\* Values that are not validated are not zero unless -no-random-data is set: from
\* eight bytes on by the generator alone (README.md:301; modes.go:297-314).
RandomDataNonZero ==
    table = "blob" /\ fault = "none" /\ ~validateData /\ randomData =>
        \E i \in DOMAIN value : value[i] # 0
=============================================================================
