---------------------------- MODULE RotateWriter ----------------------------
(***************************************************************************)
(* The log file of utils/log_file.go and its backups: name 0 is the file,  *)
(* name i the backup with the suffix i.  Every call of the operating       *)
(* system is a step and may fail, and the process may end between two of   *)
(* them; the next one may find the files again (NewRotateWriter appends to *)
(* what is there).  The mutex makes Write and Close one after the other.   *)
(* Stat tells whether a file exists; it does not fail.  Of each piece a    *)
(* file keeps the line it belongs to and the offset at which it ends.      *)
(***************************************************************************)
EXTENDS Integers, Sequences

CONSTANTS BackupCounts,  (* the values of maxBackups looked at             *)
          MaxSize,       (* maxSize                                        *)
          Lengths,       (* the lengths of the lines                       *)
          MaxWrites,     (* bound: the calls of Write                      *)
          MaxFaults      (* bound: failures, and ends of the process       *)

ASSUME WriterConstants ==
    /\ BackupCounts \subseteq Nat /\ MaxSize \in Nat
    /\ Lengths \subseteq Nat \ {0}
    /\ MaxWrites \in Nat /\ MaxFaults \in Nat

VARIABLES
    maxBackups,      (* a field of the writer                              *)
    files,           (* of each name the pieces in it, or Gone             *)
    isOpen, size,    (* whether file is open; the size the writer counts   *)
    logPc, i, length,  (* where Write stands, the backup, the length of p  *)
    writes, faults,  (* the number of Writes, and of faults                *)
    born, attempts   (* the accepted lines, with the rotations begun       *)
                     (* before each (history); those begun (history)        *)

counters == <<writes, faults>>
history == <<born, attempts>>
logVars == <<maxBackups, files, isOpen, size, logPc, i, length, counters, history>>

Gone == <<[line |-> 0, end |-> 0]>>
Top == IF maxBackups = 0 THEN 1 ELSE maxBackups
Exists(n) == files[n] # Gone
Bytes(f) == IF f = <<>> THEN 0 ELSE f[Len(f)].end
Add(n) == [files EXCEPT ![0] = Append(@, [line |-> writes, end |-> Bytes(@) + n])]
LogAt(l) == logPc = l

LogInit ==
    /\ maxBackups \in BackupCounts
    /\ files = [n \in 0..Top |-> IF n = 0 THEN <<>> ELSE Gone]
    /\ isOpen = TRUE /\ size = 0
    /\ logPc = "idle" /\ i = 0 /\ length = 0
    /\ writes = 0 /\ faults = 0
    /\ born = {} /\ attempts = 0

Fault == faults < MaxFaults /\ faults' = faults + 1

\* Write returns an error; what was done so far stays.
WriteRefused == logPc' = "idle"

-----------------------------------------------------------------------------
(* Write and rotate.                                                       *)

Write(len) ==
    /\ LogAt("idle") /\ writes < MaxWrites
    /\ writes' = writes + 1 /\ length' = len
    /\ logPc' = IF size + len > MaxSize THEN "close" ELSE "append"
    /\ UNCHANGED <<maxBackups, files, isOpen, size, i, faults, history>>

\* rotate closes the file first, and a file is not closed twice.
CloseFile ==
    /\ LogAt("close") /\ isOpen
    /\ isOpen' = FALSE /\ attempts' = attempts + 1
    /\ logPc' = "oldest"
    /\ UNCHANGED <<maxBackups, files, size, i, length, counters, born>>
CloseFileFails ==
    /\ LogAt("close") /\ WriteRefused
    /\ IF isOpen THEN Fault ELSE UNCHANGED faults
    /\ isOpen' = FALSE
    /\ UNCHANGED <<maxBackups, files, size, i, length, writes, born, attempts>>

\* The loop over the backups goes from the last but one to the first.
FirstShift == maxBackups - 1
ShiftsDoneEarly == i < 2   \* mutant: > for >=
ShiftsDone == i < 1

\* The file that has the new name is replaced.
Rename(n) == files' = [m \in DOMAIN files \cup {n + 1} |->
                          IF m = n THEN Gone ELSE IF m = n + 1 THEN files[n] ELSE files[m]]

\* Remove of the oldest, whose error is ignored; without backups it has a name
\* that no file has.
RemoveOldest ==
    /\ LogAt("oldest") /\ logPc' = "shift" /\ i' = FirstShift
    /\ \/ /\ files' = [n \in DOMAIN files |-> IF n = maxBackups /\ n # 0 THEN Gone ELSE files[n]]
          /\ UNCHANGED faults
       \/ Fault /\ UNCHANGED files
    /\ UNCHANGED <<maxBackups, isOpen, size, length, writes, born, attempts>>

Shift ==
    /\ LogAt("shift") /\ ~ShiftsDone
    /\ i' = i - 1
    /\ IF Exists(i) THEN Rename(i) ELSE UNCHANGED files
    /\ UNCHANGED <<maxBackups, isOpen, size, logPc, length, counters, history>>
ShiftCurrent ==
    /\ LogAt("shift") /\ ShiftsDone
    /\ logPc' = "open"
    /\ IF Exists(0) THEN Rename(0) ELSE UNCHANGED files
    /\ UNCHANGED <<maxBackups, isOpen, size, i, length, counters, history>>
RenameFails ==
    /\ LogAt("shift") /\ Exists(IF ShiftsDone THEN 0 ELSE i)
    /\ Fault /\ WriteRefused
    /\ UNCHANGED <<maxBackups, files, isOpen, size, i, length, writes, born, attempts>>

OpenLog ==
    /\ LogAt("open") /\ logPc' = "append"
    /\ files' = [files EXCEPT ![0] = <<>>]
    /\ isOpen' = TRUE /\ size' = 0
    /\ UNCHANGED <<maxBackups, i, length, counters, history>>
OpenLogFails ==
    /\ LogAt("open") /\ Fault /\ WriteRefused
    /\ UNCHANGED <<maxBackups, files, isOpen, size, i, length, writes, born, attempts>>

\* The write itself.  One that fails may have written a part, which counts; the
\* file may be closed since an earlier failure.
AppendLine ==
    /\ LogAt("append") /\ isOpen
    /\ files' = Add(length)
    /\ size' = size + length
    /\ born' = born \cup {[line |-> writes, after |-> attempts]}
    /\ logPc' = "idle"
    /\ UNCHANGED <<maxBackups, isOpen, i, length, counters, attempts>>
AppendUncounted ==   \* mutant: n is only counted without an error
    /\ LogAt("append") /\ isOpen /\ Fault /\ WriteRefused
    /\ \E part \in 1..length : files' = Add(part)
    /\ UNCHANGED <<maxBackups, isOpen, size, i, length, writes, born, attempts>>
AppendFails ==
    /\ LogAt("append") /\ isOpen /\ Fault /\ WriteRefused
    /\ \E part \in 0..length - 1 :
          /\ files' = IF part = 0 THEN files ELSE Add(part)
          /\ size' = size + part
    /\ UNCHANGED <<maxBackups, isOpen, i, length, writes, born, attempts>>
AppendClosed ==
    /\ LogAt("append") /\ ~isOpen /\ WriteRefused
    /\ UNCHANGED <<maxBackups, files, isOpen, size, i, length, counters, history>>

-----------------------------------------------------------------------------
(* Close, and the process.                                                 *)

Close ==
    /\ LogAt("idle") /\ isOpen
    /\ isOpen' = FALSE
    /\ UNCHANGED <<maxBackups, files, size, logPc, i, length, counters, born, attempts>>

Die ==
    /\ ~LogAt("down") /\ logPc' = "down" /\ Fault
    /\ isOpen' = FALSE
    /\ UNCHANGED <<maxBackups, files, size, i, length, writes, born, attempts>>

\* NewRotateWriter; a process that cannot open its log panics.
NewRotateWriter ==
    /\ LogAt("down") /\ logPc' = "idle" /\ isOpen' = TRUE
    /\ files' = IF Exists(0) THEN files ELSE [files EXCEPT ![0] = <<>>]
    /\ size' = Bytes(files'[0])
    /\ UNCHANGED <<maxBackups, i, length, counters, born, attempts>>

LogFinished == LogAt("idle") /\ writes = MaxWrites /\ UNCHANGED logVars

LogNext ==
    \/ \E len \in Lengths : Write(len)
    \/ CloseFile \/ CloseFileFails \/ RemoveOldest \/ Shift \/ ShiftCurrent \/ RenameFails
    \/ OpenLog \/ OpenLogFails \/ AppendLine \/ AppendFails \/ AppendClosed
    \/ Close \/ Die \/ NewRotateWriter \/ LogFinished

LogSpec == LogInit /\ [][LogNext]_logVars

-----------------------------------------------------------------------------
(* Properties.                                                             *)

\* Where a piece is: in the file n, the k-th; and which of two is read first.
Places == UNION {{<<n, k>> : k \in DOMAIN files[n]} : n \in {m \in DOMAIN files : Exists(m)}}
LineAt(p) == files[p[1]][p[2]].line
Before(p, q) == p[1] > q[1] \/ (p[1] = q[1] /\ p[2] < q[2])

\* The backups and the file, read in this order, have the lines in the order of
\* their Writes, and an accepted line is there until as many rotations were
\* begun as there are backups, and one more: wherever they failed and wherever
\* the process ended, and though no file is left but the backups and the file.
KeptLines ==
    /\ DOMAIN files = 0..Top
    /\ \A p, q \in Places : Before(p, q) => LineAt(p) < LineAt(q)
    /\ \A b \in born : attempts - b.after <= Top => \E p \in Places : LineAt(p) = b.line

\* The writer knows the size of the file that is open, after an append that
\* failed in the middle and in the next process too, and no file is larger than
\* maxSize, except for a single line.
SizeBound ==
    /\ isOpen => size = Bytes(files[0])
    /\ \A n \in 0..Top : Len(files[n]) <= 1 \/ Bytes(files[n]) <= MaxSize
=============================================================================
