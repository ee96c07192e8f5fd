------------------------- MODULE RotateWriterProofs -------------------------
(* Theorems about RotateWriter, for every value of its constants.          *)
EXTENDS RotateWriter, SequenceTheorems, TLAPS

(* The invariant.                                                          *)

Pieces == [line : Nat, end : Nat]
InWrite == logPc \in {"close", "oldest", "shift", "open", "append"}

WriterTypes ==
    /\ maxBackups \in Nat /\ DOMAIN files = 0..Top
    /\ \A n \in 0..Top : files[n] \in Seq(Pieces)
    /\ isOpen \in BOOLEAN /\ size \in Nat /\ length \in Nat
    /\ logPc \in {"idle", "close", "oldest", "shift", "open", "append", "down"}
    /\ i \in Int /\ (logPc = "shift" => i < Top)
    /\ writes \in Nat /\ (InWrite => writes # 0) /\ attempts \in Nat
    /\ born \subseteq [line : Nat, after : Nat]

\* What the place of Write tells about the file.
OpenFile ==
    /\ isOpen => Exists(0) /\ logPc \in {"idle", "close", "append"}
    /\ logPc = "open" => ~Exists(0)

\* While a Write is on its way none of its bytes are in a file.
LinesBelow ==
    \A n \in 0..Top : Exists(n) =>
        \A k \in 1..Len(files[n]) : /\ files[n][k].line <= writes
                                    /\ InWrite => files[n][k].line < writes

LinesOrdered ==
    \A n, m \in 0..Top : Exists(n) /\ Exists(m) =>
        \A k \in 1..Len(files[n]), l \in 1..Len(files[m]) :
            n > m \/ (n = m /\ k < l) => files[n][k].line < files[m][l].line

\* The file that is renamed next, and the files a rotation that has begun has
\* not moved yet; above the next one there is room, or the oldest backup.
Following == IF i < 1 THEN 0 ELSE i
Waits(n) == logPc = "oldest" \/ (logPc = "shift" /\ n <= Following + 1)
Room == logPc = "shift" => Following + 1 = Top \/ ~Exists(Following + 1)

\* A line moves by one file in a rotation at most.
Near(n, b) ==
    /\ Exists(n) /\ \E k \in 1..Len(files[n]) : files[n][k].line = b.line
    /\ n <= attempts - b.after
    /\ Waits(n) => n < attempts - b.after
LinesKept ==
    \A b \in born : attempts - b.after <= Top => \E n \in 0..Top : Near(n, b)

\* A line that is appended fits, or is the first in its file.
LineFits == logPc = "append" /\ isOpen => files[0] = <<>> \/ size + length <= MaxSize

WriterInv ==
    /\ WriterTypes /\ OpenFile /\ LinesBelow /\ LinesOrdered
    /\ Room /\ LinesKept /\ LineFits /\ SizeBound

\* A step that leaves the files and the history alone, and whose place promises
\* no more than the one before.
LEMMA FilesAlone ==
    ASSUME WriterInv, UNCHANGED <<maxBackups, files, born, attempts>>, writes' \in Nat,
           writes' >= writes, InWrite' => writes' > writes \/ (InWrite /\ writes' = writes),
           logPc' \notin {"oldest", "shift"}
    PROVE  /\ LinesBelow' /\ LinesOrdered' /\ Room' /\ LinesKept'
           /\ \A n \in 0..Top : Len(files[n]) <= 1 \/ Bytes(files[n]) <= MaxSize
<1>. USE DEF WriterInv, WriterTypes
<1>1. LinesBelow'
  <2>. SUFFICES ASSUME NEW n \in 0..Top, Exists(n), NEW k \in 1..Len(files[n])
                PROVE  /\ files[n][k].line <= writes'
                       /\ InWrite' => files[n][k].line < writes'
    BY DEF LinesBelow, Top, Exists
  <2>1. files[n] \in Seq(Pieces)
    OBVIOUS
  <2>2. files[n][k] \in Pieces
    BY <2>1, ElementOfSeq
  <2>3. files[n][k].line \in Nat
    BY <2>2 DEF Pieces
  <2>. QED
    BY <2>3 DEF LinesBelow, Top
<1>2. LinesOrdered' /\ Room'
  BY DEF LinesOrdered, Room, Top, Exists
<1>3. LinesKept'
  <2>. SUFFICES ASSUME NEW b \in born, attempts - b.after <= Top
                PROVE  \E n \in 0..Top : Near(n, b)'
    BY DEF LinesKept, Top
  <2>1. PICK n \in 0..Top : Near(n, b)
    BY DEF LinesKept
  <2>. QED
    BY <2>1 DEF Near, Waits, Exists
<1>. QED
  BY <1>1, <1>2, <1>3 DEF SizeBound

LEMMA WriterInit == LogInit => WriterInv
<1>. SUFFICES ASSUME LogInit PROVE WriterInv
  OBVIOUS
<1>. USE WriterConstants DEF LogInit
<1>1. maxBackups \in Nat /\ Top \in Nat
  BY DEF Top
<1>2. files = [n \in 0..Top |-> IF n = 0 THEN <<>> ELSE Gone] /\ Gone \in Seq(Pieces)
  BY DEF Gone, Pieces
<1>3. \A n \in 0..Top : files[n] = IF n = 0 THEN <<>> ELSE Gone
  BY <1>2
<1>4. Gone # <<>> /\ Len(Gone) = 1
  BY DEF Gone
<1>. HIDE DEF LogInit
<1>5. 0 \in 0..Top
  BY <1>1
<1>6. WriterTypes
  BY <1>1, <1>2, <1>3 DEF WriterTypes, LogInit
<1>7. OpenFile /\ Room /\ LinesKept /\ LineFits
  BY <1>3, <1>4, <1>5 DEF LogInit, OpenFile, Exists, Room, LinesKept, LineFits
<1>8. LinesBelow /\ LinesOrdered
  <2>1. \A n \in 0..Top : Exists(n) => Len(files[n]) = 0
    BY <1>3 DEF Exists
  <2>. QED
    BY <2>1 DEF LinesBelow, LinesOrdered
<1>9. SizeBound
  <2>1. \A n \in 0..Top : Len(files[n]) <= 1
    <3>1. Len(<<>>) <= 1 /\ Len(Gone) <= 1
      BY <1>4
    <3>. QED
      BY <1>3, <3>1
  <2>2. size = 0 /\ Bytes(files[0]) = 0
    BY <1>3, <1>5 DEF LogInit, Bytes
  <2>. QED
    BY <2>1, <2>2 DEF SizeBound
<1>. QED
  BY <1>6, <1>7, <1>8, <1>9 DEF WriterInv

(* The steps that leave the files alone.                                   *)

\* A Write begins; it closes the file, or appends to it when it fits.
LEMMA WriteKeeps == ASSUME WriterInv, NEW len \in Lengths, Write(len) PROVE WriterInv'
<1>. USE WriterConstants DEF Write, LogAt
<1>1. WriterTypes'
  BY DEF WriterInv, WriterTypes, Top, history
<1>2. writes \in Nat
  BY DEF WriterInv, WriterTypes
<1>3. /\ LinesBelow' /\ LinesOrdered' /\ Room' /\ LinesKept'
      /\ \A n \in 0..Top : Len(files[n]) <= 1 \/ Bytes(files[n]) <= MaxSize
  BY <1>2, FilesAlone DEF history
<1>4. OpenFile' /\ LineFits' /\ SizeBound'
  BY <1>3 DEF WriterInv, WriterTypes, OpenFile, LineFits, SizeBound, Exists, Top
<1>. QED
  BY <1>1, <1>3, <1>4 DEF WriterInv

\* A Write ends without a line, or the file is closed.
LEMMA RefusedKeeps ==
    ASSUME WriterInv, UNCHANGED <<maxBackups, files, size, i, length, writes, born, attempts>>,
           logPc' \in {"idle", "down"}, isOpen' = isOpen \/ ~isOpen', isOpen' \in BOOLEAN,
           logPc' = "down" => ~isOpen'
    PROVE  WriterInv'
<1>1. WriterTypes'
  BY DEF WriterInv, WriterTypes, InWrite, Top
<1>2. writes \in Nat
  BY DEF WriterInv, WriterTypes
<1>3. /\ LinesBelow' /\ LinesOrdered' /\ Room' /\ LinesKept'
      /\ \A n \in 0..Top : Len(files[n]) <= 1 \/ Bytes(files[n]) <= MaxSize
  BY <1>2, FilesAlone DEF InWrite
<1>4. OpenFile' /\ LineFits' /\ SizeBound'
  BY <1>3 DEF WriterInv, WriterTypes, OpenFile, LineFits, SizeBound, Exists, Top
<1>. QED
  BY <1>1, <1>3, <1>4 DEF WriterInv

\* A rotation begins: from now on all lines are one rotation older.
LEMMA CloseFileKeeps == ASSUME WriterInv, CloseFile PROVE WriterInv'
<1>. USE DEF WriterInv, CloseFile, LogAt, counters
<1>1. WriterTypes'
  BY DEF WriterTypes, Top
<1>2. LinesBelow' /\ LinesOrdered' /\ Room' /\ OpenFile' /\ LineFits' /\ SizeBound'
  BY DEF LinesBelow, InWrite, LinesOrdered, Room, OpenFile, LineFits, SizeBound, Exists, Top
<1>3. LinesKept'
  <2>. SUFFICES ASSUME NEW b \in born, attempts' - b.after <= Top
                PROVE  \E n \in 0..Top : Near(n, b)'
    BY DEF LinesKept, Top
  <2>1. attempts \in Nat /\ b.after \in Nat /\ Top \in Nat
    BY DEF WriterTypes, Top
  <2>2. PICK n \in 0..Top : Near(n, b)
    BY <2>1 DEF LinesKept
  <2>3. Near(n, b)'
    BY <2>1, <2>2 DEF Near, Exists
  <2>. QED
    BY <2>3
<1>. QED
  BY <1>1, <1>2, <1>3

(* The steps of a rotation.                                                *)

\* What the oldest holds is too old to be promised.
LEMMA RemoveOldestKeeps == ASSUME WriterInv, RemoveOldest PROVE WriterInv'
<1>. USE DEF RemoveOldest, LogAt, FirstShift
<1>1. /\ maxBackups \in Nat /\ Top \in Nat /\ (maxBackups = 0 => Top = 1)
      /\ (maxBackups # 0 => Top = maxBackups) /\ Gone \in Seq(Pieces) /\ Len(Gone) = 1
  BY DEF WriterInv, WriterTypes, Top, Gone, Pieces
<1>2. /\ DOMAIN files' = 0..Top /\ Top' = Top
      /\ \A n \in 0..Top : files'[n] = files[n] \/ (files'[n] = Gone /\ n = Top)
  BY <1>1 DEF WriterInv, WriterTypes, Top
<1>3. Following' + 1 = Top
  BY <1>1 DEF Following
<1>. HIDE DEF RemoveOldest
<1>4. WriterTypes'
  BY <1>1, <1>2 DEF WriterInv, WriterTypes, InWrite, RemoveOldest
<1>5. OpenFile' /\ LineFits'
  BY DEF WriterInv, OpenFile, LineFits, RemoveOldest
<1>6. LinesBelow' /\ LinesOrdered'
  BY <1>2 DEF WriterInv, LinesBelow, InWrite, LinesOrdered, Exists, RemoveOldest
<1>7. Room'
  BY <1>2, <1>3 DEF Room
<1>8. LinesKept'
  <2>. SUFFICES ASSUME NEW b \in born, attempts - b.after <= Top
                PROVE  \E n \in 0..Top : Near(n, b)'
    BY <1>2 DEF LinesKept, RemoveOldest
  <2>1. attempts \in Nat /\ b.after \in Nat
    BY DEF WriterInv, WriterTypes
  <2>2. PICK n \in 0..Top : Near(n, b)
    BY DEF WriterInv, LinesKept
  <2>3. n < attempts - b.after /\ n # Top
    BY <1>1, <2>1, <2>2 DEF Near, Waits, RemoveOldest
  <2>4. files'[n] = files[n]
    BY <1>2, <2>3
  <2>5. Near(n, b)'
    BY <2>2, <2>3, <2>4 DEF Near, Exists, RemoveOldest
  <2>. QED
    BY <2>5
<1>9. SizeBound'
  BY <1>1, <1>2 DEF WriterInv, SizeBound, RemoveOldest, OpenFile, Bytes
<1>. QED
  BY <1>4, <1>5, <1>6, <1>7, <1>8, <1>9 DEF WriterInv

\* What a rename does to the lines and to the sizes: the file n + 1 has what the
\* file n had.
LEMMA RenameKeeps ==
    ASSUME WriterInv, NEW n \in 0 .. Top - 1, Rename(n), ~isOpen, ~isOpen', InWrite,
           UNCHANGED <<maxBackups, writes>>
    PROVE  /\ DOMAIN files' = 0..Top /\ \A m \in 0..Top : files'[m] \in Seq(Pieces)
           /\ LinesBelow' /\ LinesOrdered' /\ SizeBound'
<1>1. Top \in Nat /\ Top' = Top /\ Gone \in Seq(Pieces) /\ Len(Gone) = 1
  BY DEF WriterInv, WriterTypes, Top, Gone, Pieces
<1>2. n \in Nat /\ n + 1 \in 0..Top /\ n \in 0..Top
  BY <1>1
<1>3. DOMAIN files = 0..Top /\ \A m \in 0..Top : files[m] \in Seq(Pieces)
  BY DEF WriterInv, WriterTypes
<1>4. DOMAIN files' = 0..Top
  BY <1>2, <1>3 DEF Rename
<1>5. \A m \in 0..Top : files'[m] = IF m = n THEN Gone ELSE IF m = n + 1 THEN files[n] ELSE files[m]
  BY <1>2, <1>3 DEF Rename
<1>6. \A m \in 0..Top : files'[m] \in Seq(Pieces)
  BY <1>1, <1>2, <1>3, <1>5
<1>. DEFINE From(m) == IF m = n + 1 THEN n ELSE m
<1>7. \A m \in 0..Top : Exists(m)' =>
        /\ From(m) \in 0..Top /\ Exists(From(m)) /\ files'[m] = files[From(m)] /\ m # n
  BY <1>2, <1>5 DEF Exists
<1>8. LinesBelow'
  BY <1>1, <1>7 DEF WriterInv, LinesBelow, InWrite
<1>9. LinesOrdered'
  <2>. SUFFICES ASSUME NEW l \in 0..Top, NEW m \in 0..Top, Exists(l)', Exists(m)',
                       NEW j \in 1..Len(files'[l]), NEW k \in 1..Len(files'[m]),
                       l > m \/ (l = m /\ j < k)
                PROVE  files'[l][j].line < files'[m][k].line
    BY <1>1 DEF LinesOrdered
  <2>1. From(l) > From(m) \/ (From(l) = From(m) /\ j < k)
    BY <1>2, <1>7
  <2>2. /\ From(l) \in 0..Top /\ Exists(From(l)) /\ files'[l] = files[From(l)]
        /\ From(m) \in 0..Top /\ Exists(From(m)) /\ files'[m] = files[From(m)]
    BY <1>7
  <2>. HIDE DEF From
  <2>. QED
    BY <2>1, <2>2 DEF WriterInv, LinesOrdered
<1>10. SizeBound'
  <2>1. \A m \in 0..Top : files'[m] = Gone \/ \E l \in 0..Top : files'[m] = files[l]
    BY <1>2, <1>5
  <2>. QED
    BY <1>1, <2>1 DEF WriterInv, SizeBound, Bytes
<1>. QED
  BY <1>4, <1>6, <1>8, <1>9, <1>10

\* A promised line stays promised when the file it may be in is renamed: nothing
\* promised is in the file that is replaced.
LEMMA RenameNear ==
    ASSUME WriterInv, logPc = "shift", logPc' \in {"shift", "open"}, Rename(Following),
           UNCHANGED <<maxBackups, born, attempts>>,
           logPc' = "shift" => Following' + 1 = Following
    PROVE  LinesKept'
<1>1. Top \in Nat /\ Top >= 1 /\ Top' = Top /\ i \in Int /\ i < Top
  BY DEF WriterInv, WriterTypes, Top
<1>2. Following \in 0 .. Top - 1 /\ Following + 1 \in 0..Top
  BY <1>1 DEF Following
<1>. SUFFICES ASSUME NEW b \in born, attempts - b.after <= Top
              PROVE  \E n \in 0..Top : Near(n, b)'
  BY <1>1 DEF LinesKept
<1>3. attempts \in Nat /\ b.after \in Nat
  BY DEF WriterInv, WriterTypes
<1>4. PICK n \in 0..Top : Near(n, b)
  BY DEF WriterInv, LinesKept
<1>5. n # Following + 1
  <2>. SUFFICES ASSUME n = Following + 1 PROVE FALSE
    OBVIOUS
  <2>1. n < attempts - b.after /\ Exists(n)
    BY <1>2, <1>4 DEF Near, Waits
  <2>. QED
    BY <1>1, <1>2, <1>3, <2>1 DEF WriterInv, Room
<1>6. DOMAIN files = 0..Top
  BY DEF WriterInv, WriterTypes
<1>7. CASE n = Following
  <2>1. files'[n + 1] = files[n] /\ n < attempts - b.after
    BY <1>2, <1>4, <1>6, <1>7 DEF Rename, Near, Waits
  <2>2. Near(n + 1, b)'
    BY <1>2, <1>3, <1>4, <1>7, <2>1 DEF Near, Waits, Exists
  <2>. QED
    BY <1>2, <1>7, <2>2
<1>8. CASE n # Following
  <2>1. files'[n] = files[n]
    BY <1>4, <1>5, <1>6, <1>8 DEF Rename
  <2>2. Waits(n)' => Waits(n)
    BY <1>2 DEF Waits
  <2>3. Near(n, b)'
    BY <1>4, <2>1, <2>2 DEF Near, Exists
  <2>. QED
    BY <2>3
<1>. QED
  BY <1>7, <1>8

\* A step of the loop.
LEMMA ShiftKeeps == ASSUME WriterInv, Shift PROVE WriterInv'
<1>. USE DEF Shift, LogAt, ShiftsDone, counters, history
<1>1. /\ i \in Int /\ 1 <= i /\ i < Top /\ Top \in Nat /\ Following = i /\ Top' = Top
      /\ Following' + 1 = i /\ Room /\ ~isOpen
  BY DEF WriterInv, WriterTypes, Following, Top, OpenFile
<1>2. CASE Exists(i)
  <2>1. Rename(i)
    BY <1>2
  <2>2. /\ DOMAIN files' = 0..Top /\ \A m \in 0..Top : files'[m] \in Seq(Pieces)
        /\ LinesBelow' /\ LinesOrdered' /\ SizeBound'
    BY <1>1, <2>1, RenameKeeps DEF InWrite
  <2>3. LinesKept'
    BY <1>1, <2>1, RenameNear
  <2>4. files'[i] = Gone
    BY <1>1, <2>1 DEF Rename, WriterInv, WriterTypes
  <2>5. WriterTypes' /\ OpenFile' /\ Room' /\ LineFits'
    BY <1>1, <2>2, <2>4 DEF WriterInv, WriterTypes, InWrite, OpenFile, Room, LineFits, Exists
  <2>. QED
    BY <2>2, <2>3, <2>5 DEF WriterInv
<1>3. CASE ~Exists(i)
  <2>1. WriterTypes' /\ OpenFile' /\ LineFits'
    BY <1>1, <1>3 DEF WriterInv, WriterTypes, InWrite, OpenFile, LineFits, Exists
  <2>2. Room' /\ LinesBelow' /\ LinesOrdered' /\ SizeBound'
    BY <1>1, <1>3 DEF WriterInv, Room, LinesBelow, InWrite, LinesOrdered, SizeBound, Exists
  <2>3. LinesKept'
    <3>. SUFFICES ASSUME NEW b \in born, attempts - b.after <= Top
                  PROVE  \E n \in 0..Top : Near(n, b)'
      BY <1>1 DEF LinesKept
    <3>1. PICK n \in 0..Top : Near(n, b)
      BY DEF WriterInv, LinesKept
    <3>2. Near(n, b)'
      BY <1>1, <1>3, <3>1 DEF Near, Exists, Waits
    <3>. QED
      BY <1>1, <3>2
  <2>. QED
    BY <2>1, <2>2, <2>3 DEF WriterInv
<1>. QED
  BY <1>2, <1>3

\* After the loop the file itself becomes the first backup.
LEMMA ShiftCurrentKeeps == ASSUME WriterInv, ShiftCurrent PROVE WriterInv'
<1>. USE DEF ShiftCurrent, LogAt, ShiftsDone, counters, history
<1>1. Top \in Nat /\ Top >= 1 /\ Following = 0 /\ Top' = Top /\ ~isOpen
  BY DEF WriterInv, WriterTypes, Following, Top, OpenFile
<1>2. CASE Exists(0)
  <2>1. Rename(0) /\ 0 \in 0 .. Top - 1
    BY <1>1, <1>2
  <2>2. /\ DOMAIN files' = 0..Top /\ \A m \in 0..Top : files'[m] \in Seq(Pieces)
        /\ LinesBelow' /\ LinesOrdered' /\ SizeBound'
    BY <1>1, <2>1, RenameKeeps DEF InWrite
  <2>3. LinesKept'
    BY <1>1, <2>1, RenameNear
  <2>4. files'[0] = Gone
    BY <1>1, <2>1 DEF Rename, WriterInv, WriterTypes
  <2>5. WriterTypes' /\ OpenFile' /\ Room' /\ LineFits'
    BY <1>1, <2>2, <2>4 DEF WriterInv, WriterTypes, OpenFile, Room, LineFits, Exists
  <2>. QED
    BY <2>2, <2>3, <2>5 DEF WriterInv
<1>3. CASE ~Exists(0)
  <2>1. WriterTypes' /\ OpenFile' /\ LineFits'
    BY <1>1, <1>3 DEF WriterInv, WriterTypes, InWrite, OpenFile, LineFits, Exists
  <2>2. Room' /\ LinesBelow' /\ LinesOrdered' /\ SizeBound'
    BY <1>1, <1>3 DEF WriterInv, Room, LinesBelow, InWrite, LinesOrdered, SizeBound, Exists
  <2>3. LinesKept'
    <3>. SUFFICES ASSUME NEW b \in born, attempts - b.after <= Top
                  PROVE  \E n \in 0..Top : Near(n, b)'
      BY <1>1 DEF LinesKept
    <3>1. PICK n \in 0..Top : Near(n, b)
      BY DEF WriterInv, LinesKept
    <3>2. Near(n, b)'
      BY <1>1, <1>3, <3>1 DEF Near, Exists, Waits
    <3>. QED
      BY <1>1, <3>2
  <2>. QED
    BY <2>1, <2>2, <2>3 DEF WriterInv
<1>. QED
  BY <1>2, <1>3

\* A file that did not exist begins, empty.
LEMMA NewFile ==
    ASSUME WriterInv, ~Exists(0), files' = [files EXCEPT ![0] = <<>>],
           UNCHANGED <<maxBackups, writes, born, attempts>>,
           logPc' \notin {"oldest", "shift"}, InWrite' => InWrite
    PROVE  /\ files'[0] = <<>> /\ Exists(0)'
           /\ DOMAIN files' = 0..Top /\ \A m \in 0..Top : files'[m] \in Seq(Pieces)
           /\ LinesBelow' /\ LinesOrdered' /\ Room' /\ LinesKept'
           /\ \A n \in 0..Top : Len(files'[n]) <= 1 \/ Bytes(files'[n]) <= MaxSize
<1>1. Top \in Nat /\ Top' = Top /\ 0 \in 0..Top /\ DOMAIN files = 0..Top
  BY DEF WriterInv, WriterTypes, Top
<1>2. files'[0] = <<>> /\ \A m \in 0..Top : m # 0 => files'[m] = files[m]
  BY <1>1
<1>3. Exists(0)'
  BY <1>2 DEF Exists, Gone
<1>4. DOMAIN files' = 0..Top /\ \A m \in 0..Top : files'[m] \in Seq(Pieces)
  BY <1>1, <1>2 DEF WriterInv, WriterTypes
<1>5. LinesBelow' /\ LinesOrdered'
  BY <1>1, <1>2 DEF WriterInv, LinesBelow, LinesOrdered, Exists
<1>6. LinesKept'
  <2>. SUFFICES ASSUME NEW b \in born, attempts - b.after <= Top
                PROVE  \E n \in 0..Top : Near(n, b)'
    BY <1>1 DEF LinesKept
  <2>1. PICK n \in 0..Top : Near(n, b)
    BY DEF WriterInv, LinesKept
  <2>2. n # 0
    BY <2>1 DEF Near
  <2>3. Near(n, b)'
    BY <1>2, <2>1, <2>2 DEF Near, Exists, Waits
  <2>. QED
    BY <2>3
<1>7. \A n \in 0..Top : Len(files'[n]) <= 1 \/ Bytes(files'[n]) <= MaxSize
  BY <1>1, <1>2 DEF WriterInv, SizeBound
<1>. QED
  BY <1>2, <1>3, <1>4, <1>5, <1>6, <1>7 DEF Room

LEMMA OpenKeeps == ASSUME WriterInv, OpenLog PROVE WriterInv'
<1>. USE DEF OpenLog, LogAt, counters, history
<1>1. ~Exists(0) /\ Top' = Top
  BY DEF WriterInv, OpenFile, Top
<1>2. /\ files'[0] = <<>> /\ Exists(0)'
      /\ DOMAIN files' = 0..Top /\ \A m \in 0..Top : files'[m] \in Seq(Pieces)
      /\ LinesBelow' /\ LinesOrdered' /\ Room' /\ LinesKept'
      /\ \A n \in 0..Top : Len(files'[n]) <= 1 \/ Bytes(files'[n]) <= MaxSize
  BY <1>1, NewFile DEF InWrite
<1>3. WriterTypes' /\ OpenFile' /\ LineFits' /\ SizeBound'
  BY <1>1, <1>2 DEF WriterInv, WriterTypes, InWrite, OpenFile, LineFits, SizeBound, Bytes
<1>. QED
  BY <1>2, <1>3 DEF WriterInv

\* The next process finds the file, or makes it.
LEMMA NewWriterKeeps == ASSUME WriterInv, NewRotateWriter PROVE WriterInv'
<1>. USE DEF NewRotateWriter, LogAt, counters
<1>1. Top' = Top /\ 0 \in 0..Top
  BY DEF WriterInv, WriterTypes, Top
<1>2. /\ Exists(0)' /\ DOMAIN files' = 0..Top /\ \A m \in 0..Top : files'[m] \in Seq(Pieces)
      /\ LinesBelow' /\ LinesOrdered' /\ Room' /\ LinesKept'
      /\ \A n \in 0..Top : Len(files'[n]) <= 1 \/ Bytes(files'[n]) <= MaxSize
  <2>1. CASE Exists(0)
    <3>1. files' = files /\ writes \in Nat
      BY <2>1 DEF WriterInv, WriterTypes
    <3>2. /\ LinesBelow' /\ LinesOrdered' /\ Room' /\ LinesKept'
          /\ \A n \in 0..Top : Len(files[n]) <= 1 \/ Bytes(files[n]) <= MaxSize
      BY <3>1, FilesAlone DEF InWrite
    <3>. QED
      BY <2>1, <3>1, <3>2 DEF Exists, WriterInv, WriterTypes
  <2>2. CASE ~Exists(0)
    BY <2>2, NewFile DEF InWrite
  <2>. QED
    BY <2>1, <2>2
<1>3. Bytes(files'[0]) \in Nat
  <2>. DEFINE f == files'[0]
  <2>1. f \in Seq(Pieces)
    BY <1>1, <1>2
  <2>. HIDE DEF f
  <2>2. f # <<>> => f[Len(f)] \in Pieces
    BY <2>1, ElementOfSeq, LenProperties
  <2>3. Bytes(f) \in Nat
    BY <2>2 DEF Bytes, Pieces
  <2>. QED
    BY <2>3 DEF f
<1>4. size' = Bytes(files'[0])
  OBVIOUS
<1>. HIDE DEF NewRotateWriter
<1>5. WriterTypes' /\ OpenFile' /\ LineFits' /\ SizeBound'
  BY <1>1, <1>2, <1>3, <1>4
     DEF WriterInv, WriterTypes, InWrite, OpenFile, LineFits, SizeBound, NewRotateWriter
<1>. QED
  BY <1>2, <1>5 DEF WriterInv

(* The bytes of a Write.                                                   *)

\* n bytes of the line, all of them or a part, are at the end of the file.
LEMMA AddKeeps ==
    ASSUME WriterInv, logPc = "append", isOpen, NEW n \in 0..length, files' = Add(n),
           size' = size + n, logPc' = "idle", UNCHANGED <<maxBackups, isOpen, writes, attempts>>,
           born' = born \/ born' = born \cup {[line |-> writes, after |-> attempts]}
    PROVE  /\ DOMAIN files' = 0..Top /\ \A m \in 0..Top : files'[m] \in Seq(Pieces)
           /\ OpenFile' /\ LinesBelow' /\ LinesOrdered' /\ Room' /\ LinesKept' /\ SizeBound'
<1>. DEFINE f == files[0]
            x == [line |-> writes, end |-> Bytes(f) + n]
            g == Append(f, x)
<1>1. /\ Top \in Nat /\ Top' = Top /\ 0 \in 0..Top /\ DOMAIN files = 0..Top
      /\ size \in Nat /\ length \in Nat /\ n \in Nat /\ n <= length /\ writes \in Nat
      /\ attempts \in Nat /\ MaxSize \in Nat
  BY WriterConstants DEF WriterInv, WriterTypes, Top
<1>2. f \in Seq(Pieces) /\ Exists(0) /\ Bytes(f) = size
  BY <1>1 DEF WriterInv, WriterTypes, OpenFile, SizeBound
<1>3. x \in Pieces /\ x.line = writes /\ x.end = size + n /\ Len(f) \in Nat
  BY <1>1, <1>2, LenProperties DEF Pieces
<1>4. files'[0] = g /\ \A m \in 0..Top : m # 0 => files'[m] = files[m]
  BY <1>1 DEF Add
<1>5. DOMAIN files' = 0..Top
  BY <1>1 DEF Add
<1>6. /\ g \in Seq(Pieces) /\ Len(g) = Len(f) + 1 /\ g[Len(f) + 1] = x
      /\ \A k \in 1..Len(f) : g[k] = f[k]
  BY <1>2, <1>3, AppendProperties
<1>7. Bytes(g) = size + n
  <2>1. g # <<>>
    BY <1>3, <1>6
  <2>. HIDE DEF g, x
  <2>. QED
    BY <1>3, <1>6, <2>1 DEF Bytes
<1>8. g # Gone
  <2>1. CASE f = <<>>
    <3>1. f # Gone /\ Gone[1].line = 0
      BY <1>2 DEF Exists, Gone
    <3>2. Len(f) = 0 /\ g[1].line = writes
      BY <1>3, <1>6, <2>1
    <3>3. writes # 0
      BY DEF WriterInv, WriterTypes, InWrite
    <3>. QED
      BY <3>1, <3>2, <3>3
  <2>2. CASE f # <<>>
    BY <1>2, <1>3, <1>6, <2>2 DEF Gone
  <2>. QED
    BY <2>1, <2>2
<1>. HIDE DEF f, g, x
<1>9. \A m \in 0..Top : files'[m] \in Seq(Pieces)
  BY <1>4, <1>6 DEF WriterInv, WriterTypes
<1>10. OpenFile' /\ Exists(0)'
  BY <1>4, <1>8 DEF WriterInv, OpenFile, Exists
<1>11. LinesBelow'
  <2>. SUFFICES ASSUME NEW m \in 0..Top, Exists(m)', NEW k \in 1..Len(files'[m])
                PROVE  files'[m][k].line <= writes
    BY <1>1 DEF LinesBelow, InWrite
  <2>1. CASE m # 0
    BY <1>4, <2>1 DEF WriterInv, LinesBelow, Exists
  <2>2. CASE m = 0 /\ k # Len(f) + 1
    BY <1>1, <1>2, <1>3, <1>4, <1>6, <2>2 DEF WriterInv, LinesBelow, f
  <2>3. CASE m = 0 /\ k = Len(f) + 1
    BY <1>1, <1>3, <1>4, <1>6, <2>3
  <2>. QED
    BY <2>1, <2>2, <2>3
<1>12. LinesOrdered'
  <2>. SUFFICES ASSUME NEW l \in 0..Top, NEW m \in 0..Top, Exists(l)', Exists(m)',
                       NEW j \in 1..Len(files'[l]), NEW k \in 1..Len(files'[m]),
                       l > m \/ (l = m /\ j < k)
                PROVE  files'[l][j].line < files'[m][k].line
    BY <1>1 DEF LinesOrdered
  <2>1. /\ Exists(l) /\ Exists(m)
        /\ l # 0 => files'[l] = files[l]
        /\ m # 0 => files'[m] = files[m]
    BY <1>2, <1>4 DEF Exists
  <2>2. /\ j \in 1..Len(files[l]) \/ (l = 0 /\ j = Len(f) + 1)
        /\ k \in 1..Len(files[m]) \/ (m = 0 /\ k = Len(f) + 1)
    BY <1>3, <1>4, <1>6, <2>1, SMTT(30) DEF f
  <2>3. /\ j \in 1..Len(files[l]) => files'[l][j] = files[l][j]
        /\ k \in 1..Len(files[m]) => files'[m][k] = files[m][k]
    BY <1>4, <1>6, <2>1 DEF f
  <2>4. j \in 1..Len(files[l])
    BY <1>1, <1>3, <1>4, <1>6, <2>2
  <2>5. CASE k \in 1..Len(files[m])
    BY <2>1, <2>3, <2>4, <2>5 DEF WriterInv, LinesOrdered
  <2>6. CASE m = 0 /\ k = Len(f) + 1
    <3>1. files'[m][k].line = writes
      BY <1>3, <1>4, <1>6, <2>6
    <3>2. files[l][j].line < writes
      BY <2>1, <2>4 DEF WriterInv, LinesBelow, InWrite
    <3>. QED
      BY <2>3, <2>4, <3>1, <3>2
  <2>. QED
    BY <2>2, <2>5, <2>6
<1>13. LinesKept'
  <2>. SUFFICES ASSUME NEW b \in born', attempts - b.after <= Top
                PROVE  \E m \in 0..Top : Near(m, b)'
    BY <1>1 DEF LinesKept
  <2>1. CASE b \in born
    <3>1. PICK m \in 0..Top : Near(m, b)
      BY <2>1 DEF WriterInv, LinesKept
    <3>2. PICK k \in 1..Len(files[m]) : files[m][k].line = b.line
      BY <3>1 DEF Near
    <3>3. k \in 1..Len(files'[m]) /\ files'[m][k] = files[m][k]
      BY <1>3, <1>4, <1>6, <3>2 DEF f
    <3>4. Exists(m)'
      BY <1>4, <1>10, <3>1 DEF Near, Exists
    <3>5. Near(m, b)'
      BY <3>1, <3>2, <3>3, <3>4 DEF Near, Waits
    <3>. QED
      BY <3>5
  <2>2. CASE b = [line |-> writes, after |-> attempts]
    <3>1. Len(f) + 1 \in 1..Len(files'[0]) /\ files'[0][Len(f) + 1].line = writes
      BY <1>3, <1>4, <1>6
    <3>2. Near(0, b)'
      BY <1>1, <1>10, <2>2, <3>1 DEF Near, Waits
    <3>. QED
      BY <1>1, <3>2
  <2>. QED
    BY <2>1, <2>2
<1>14. SizeBound'
  <2>1. Bytes(files'[0]) = size + n
    BY <1>4, <1>7
  <2>2. Len(g) <= 1 \/ Bytes(g) <= MaxSize
    <3>1. f = <<>> => Len(g) <= 1
      BY <1>6
    <3>. QED
      BY <1>1, <1>7, <3>1 DEF WriterInv, LineFits, f
  <2>3. \A m \in 0..Top : m # 0 => Len(files'[m]) <= 1 \/ Bytes(files'[m]) <= MaxSize
    BY <1>4 DEF WriterInv, SizeBound
  <2>. QED
    BY <1>1, <1>4, <2>1, <2>2, <2>3 DEF SizeBound
<1>. QED
  BY <1>5, <1>9, <1>10, <1>11, <1>12, <1>13, <1>14 DEF Room

\* The line is written: from now on it is promised.
LEMMA AppendLineKeeps == ASSUME WriterInv, AppendLine PROVE WriterInv'
<1>. USE DEF AppendLine, LogAt, counters
<1>1. length \in 0..length /\ length \in Nat
  BY DEF WriterInv, WriterTypes
<1>2. /\ DOMAIN files' = 0..Top /\ \A m \in 0..Top : files'[m] \in Seq(Pieces)
      /\ OpenFile' /\ LinesBelow' /\ LinesOrdered' /\ Room' /\ LinesKept' /\ SizeBound'
  BY <1>1, AddKeeps
<1>3. WriterTypes' /\ LineFits'
  BY <1>1, <1>2 DEF WriterInv, WriterTypes, LineFits, Top, InWrite
<1>. QED
  BY <1>2, <1>3 DEF WriterInv

\* A part of it is, and counts.
LEMMA AppendFailsKeeps == ASSUME WriterInv, AppendFails PROVE WriterInv'
<1>. USE DEF AppendFails, LogAt, WriteRefused
<1>1. length \in Nat /\ size \in Nat
  BY DEF WriterInv, WriterTypes
<1>2. PICK part \in 0 .. length - 1 : /\ files' = IF part = 0 THEN files ELSE Add(part)
                                     /\ size' = size + part
  OBVIOUS
<1>3. CASE part = 0
  <2>1. files' = files /\ size' = size
    BY <1>1, <1>2, <1>3
  <2>. QED
    BY <2>1, RefusedKeeps DEF WriterInv, WriterTypes
<1>4. CASE part # 0
  <2>1. part \in 0..length /\ files' = Add(part) /\ size' = size + part /\ size' \in Nat
    BY <1>1, <1>2, <1>4
  <2>2. /\ DOMAIN files' = 0..Top /\ \A m \in 0..Top : files'[m] \in Seq(Pieces)
        /\ OpenFile' /\ LinesBelow' /\ LinesOrdered' /\ Room' /\ LinesKept' /\ SizeBound'
    BY <2>1, AddKeeps
  <2>3. WriterTypes' /\ LineFits'
    BY <2>1, <2>2 DEF WriterInv, WriterTypes, LineFits, Top, InWrite
  <2>. QED
    BY <2>2, <2>3 DEF WriterInv
<1>. QED
  BY <1>3, <1>4

(* All steps.                                                              *)

LEMMA WriterNext == WriterInv /\ [LogNext]_logVars => WriterInv'
<1>. SUFFICES ASSUME WriterInv, [LogNext]_logVars PROVE WriterInv'
  OBVIOUS
<1>1. CASE UNCHANGED logVars
  BY <1>1, ZenonT(30) DEF logVars, counters, history, WriterInv, WriterTypes, OpenFile, LinesBelow, LinesOrdered,
     Room, LinesKept, LineFits, SizeBound, Near, Waits, Following, InWrite, Exists, Top
<1>2. CASE CloseFileFails \/ RenameFails \/ OpenLogFails \/ AppendClosed \/ Close \/ Die
  <2>1. isOpen' \in BOOLEAN /\ (isOpen' = isOpen \/ ~isOpen')
    BY <1>2 DEF CloseFileFails, RenameFails, OpenLogFails, AppendClosed, Close, Die,
       WriterInv, WriterTypes, counters, history
  <2>2. /\ UNCHANGED <<maxBackups, files, size, i, length, writes, born, attempts>>
        /\ logPc' \in {"idle", "down"} /\ (logPc' = "down" => ~isOpen')
    BY <1>2 DEF CloseFileFails, RenameFails, OpenLogFails, AppendClosed, Close, Die, LogAt, WriteRefused,
       counters, history
  <2>. QED
    BY <2>1, <2>2, RefusedKeeps
<1>3. CASE \E len \in Lengths : Write(len)
  BY <1>3, WriteKeeps
<1>4. CASE CloseFile \/ RemoveOldest \/ Shift \/ ShiftCurrent \/ OpenLog
  BY <1>4, CloseFileKeeps, RemoveOldestKeeps, ShiftKeeps, ShiftCurrentKeeps, OpenKeeps
<1>5. CASE AppendLine \/ AppendFails \/ NewRotateWriter
  BY <1>5, AppendLineKeeps, AppendFailsKeeps, NewWriterKeeps
<1>6. CASE LogFinished
  BY <1>1, <1>6 DEF LogFinished
<1>. QED
  BY <1>1, <1>2, <1>3, <1>4, <1>5, <1>6 DEF LogNext

\* Whatever fails, and wherever the process ends, the lines are in order, and an
\* accepted one is kept for as many rotations as there are backups, for any
\* number of backups, lines and faults.
THEOREM LinesAreKept == LogSpec => []KeptLines
<1>1. ASSUME WriterInv
      PROVE  KeptLines
  <2>1. DOMAIN files = 0..Top
    BY <1>1 DEF WriterInv, WriterTypes
  <2>2. \A n \in 0..Top : DOMAIN files[n] = 1..Len(files[n])
    BY <1>1, LenProperties DEF WriterInv, WriterTypes
  <2>3. \A p \in Places : /\ p = <<p[1], p[2]>> /\ p[1] \in 0..Top /\ Exists(p[1])
                          /\ p[2] \in 1..Len(files[p[1]])
    BY <2>1, <2>2 DEF Places
  <2>4. \A n \in 0..Top : Exists(n) =>
          \A k \in 1..Len(files[n]) : <<n, k>> \in Places /\ LineAt(<<n, k>>) = files[n][k].line
    BY <2>1, <2>2 DEF Places, LineAt
  <2>5. \A p, q \in Places : Before(p, q) => LineAt(p) < LineAt(q)
    BY <1>1, <2>3 DEF WriterInv, LinesOrdered, Before, LineAt
  <2>6. \A b \in born : attempts - b.after <= Top => \E p \in Places : LineAt(p) = b.line
    BY <1>1, <2>4, ZenonT(30) DEF WriterInv, LinesKept, Near
  <2>. QED
    BY <2>1, <2>5, <2>6 DEF KeptLines
<1>2. WriterInv => KeptLines
  BY <1>1
<1>. QED
  BY <1>2, WriterInit, WriterNext, PTL DEF LogSpec

\* The writer always knows the size of its file, and no file outgrows maxSize but
\* by a single line, for any sizes and faults.
THEOREM SizesAreKnown == LogSpec => []SizeBound
<1>1. WriterInv => SizeBound
  BY DEF WriterInv
<1>. QED
  BY <1>1, WriterInit, WriterNext, PTL DEF LogSpec
=============================================================================
