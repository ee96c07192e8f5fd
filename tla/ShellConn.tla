------------------------------ MODULE ShellConn ------------------------------
(***************************************************************************)
(* The interactive local shell of local_sh_conn.go: a process that reads   *)
(* commands from its stdin and writes, for each, some lines and the end    *)
(* marker, which no newline follows.  The client writes a command for      *)
(* every call, and reads an answer for a RunQuery only, with a new scanner *)
(* each time.  A line is its command and its number, and the marker has    *)
(* the number after the last line.  Lines fit the scanner's buffer and     *)
(* hold no quotes and no marker.  A call that fails loses the connection   *)
(* (see TimeoutPool).                                                      *)
(***************************************************************************)
EXTENDS Integers, Sequences

CONSTANTS Answers,     (* the answers of commands: the widths of the lines *)
          MaxCommands  (* bound: the commands                              *)

ASSUME ShellConstants == Answers \subseteq Seq(Nat \ {0}) /\ MaxCommands \in Nat

VARIABLES
    shPc,            (* "idle", "reading", "panic", or "gone"              *)
    asked, answer,   (* history: each call with its kind; each answer      *)
    stdin, stdout,   (* commands and pieces of answers nobody read yet     *)
    alive,           (* the process                                        *)
    buf,             (* what the scanner read and has not made a line of   *)
    lines,           (* the lines of the running call                      *)
    replies          (* the lines each call returned without an error      *)

shellVars == <<shPc, asked, answer, stdin, stdout, alive, buf, lines, replies>>

Piece(c, l) == [cmd |-> c, line |-> l]
IsEnd(x) == x.line = Len(answer[x.cmd]) + 1
Width(x) == IF IsEnd(x) THEN 1 ELSE answer[x.cmd][x.line]

ShellInit ==
    /\ shPc = "idle" /\ asked = <<>> /\ answer = <<>>
    /\ stdin = <<>> /\ stdout = <<>> /\ alive = TRUE
    /\ buf = <<>> /\ lines = <<>> /\ replies = <<>>

\* MakeParam and the write to stdin; the write fails if the process is gone.
Command(kind_, a, to) ==
    /\ shPc = "idle" /\ Len(asked) < MaxCommands
    /\ asked' = Append(asked, kind_) /\ answer' = Append(answer, a)
    /\ stdin' = Append(stdin, Piece(Len(asked'), 1))
    /\ replies' = Append(replies, <<>>) /\ lines' = <<>> /\ buf' = <<>>
    /\ shPc' = IF alive THEN to ELSE "gone"
    /\ UNCHANGED <<stdout, alive>>

ShellExecute(a) == Command("execute", a, "idle")
ShellQuery(a) == Command("query", a, "reading")

\* The process writes the next piece of its answer.
ProcessWrites ==
    /\ alive /\ stdin # <<>>
    /\ stdout' = Append(stdout, Head(stdin))
    /\ stdin' = IF IsEnd(Head(stdin)) THEN Tail(stdin) ELSE [stdin EXCEPT ![1].line = @ + 1]
    /\ UNCHANGED <<shPc, asked, answer, alive, buf, lines, replies>>

ProcessExits ==
    /\ alive /\ alive' = FALSE
    /\ UNCHANGED <<shPc, asked, answer, stdin, stdout, buf, lines, replies>>

-----------------------------------------------------------------------------
(* The split function of ParseResponseFromReader.                          *)

HasNewline == \E i \in DOMAIN buf : ~IsEnd(buf[i])
AtEndPrefix == buf # <<>> /\ IsEnd(buf[1])   \* mutant: the marker need not be all there is
AtEnd == Len(buf) = 1 /\ IsEnd(buf[1])

\* A line goes up to the newline, with what stands before it.
ScanLine ==
    /\ shPc = "reading" /\ HasNewline
    /\ \E n \in DOMAIN buf :
          /\ ~IsEnd(buf[n]) /\ \A m \in 1..(n - 1) : IsEnd(buf[m])
          /\ lines' = Append(lines, buf[n]) /\ buf' = SubSeq(buf, n + 1, Len(buf))
    /\ UNCHANGED <<shPc, asked, answer, stdin, stdout, alive, replies>>

\* Any part of what is there is read, if no line and no end can be made.
ScanReads ==
    /\ shPc = "reading" /\ ~HasNewline /\ ~AtEnd
    /\ \E n \in 1..Len(stdout) :
          buf' = buf \o SubSeq(stdout, 1, n) /\ stdout' = SubSeq(stdout, n + 1, Len(stdout))
    /\ UNCHANGED <<shPc, asked, answer, stdin, alive, lines, replies>>

\* At the end of the output, what is left is a line too, without its last byte.
Rest == IF buf = <<>> THEN <<>> ELSE <<Head(buf)>>
AtEofQuiet == FALSE   \* mutant: the end of the output is not noticed
AtEof == ~HasNewline /\ ~AtEnd /\ stdout = <<>> /\ ~alive

\* The header and the rows: a panic without a line, an error if one is wider
\* than the first.
Parse(ls) ==
    /\ shPc' = IF ls = <<>> THEN "panic"
               ELSE IF \E i \in DOMAIN ls : Width(ls[i]) > Width(ls[1]) THEN "gone" ELSE "idle"
    /\ replies' = IF shPc' = "idle" THEN [replies EXCEPT ![Len(asked)] = ls] ELSE replies
    /\ buf' = <<>> /\ lines' = <<>>
    /\ UNCHANGED <<asked, answer, stdin, stdout, alive>>

ParseAtEnd == shPc = "reading" /\ AtEnd /\ Parse(lines)
ParseAtEof == shPc = "reading" /\ AtEof /\ Parse(lines \o Rest)

\* Close kills the process; the pool closes a connection nobody uses.
ShellClose ==
    /\ shPc = "idle" /\ shPc' = "gone" /\ alive' = FALSE
    /\ UNCHANGED <<asked, answer, stdin, stdout, buf, lines, replies>>

ShellClient == ScanLine \/ ScanReads \/ ParseAtEnd \/ ParseAtEof

ShellNext ==
    \/ \E a \in Answers : ShellExecute(a) \/ ShellQuery(a)
    \/ ProcessWrites \/ ProcessExits
    \/ ScanLine \/ ScanReads \/ ParseAtEnd \/ ParseAtEof \/ ShellClose

ShellSpec == ShellInit /\ [][ShellNext]_shellVars

\* The client reads what is there, and the process answers its commands.
ShellFair == WF_shellVars(ShellClient) /\ WF_shellVars(ProcessWrites)

-----------------------------------------------------------------------------
(* Properties.                                                             *)

\* The lines a call has read, and the line, or marker, after a line in the output
\* of the process, if no line is between them.
Heard(c) == IF shPc = "reading" /\ c = Len(asked) THEN lines ELSE replies[c]
LastOf(q) == q[Len(q)]
Follows(y, x) ==
    \/ y.cmd = x.cmd /\ y.line = x.line + 1
    \/ /\ y.cmd > x.cmd /\ y.line = 1 /\ x.line = Len(answer[x.cmd])
       /\ \A c \in (x.cmd + 1)..(y.cmd - 1) : answer[c] = <<>>

\* Each call has a scanner of its own, which may read ahead, and an answer that
\* nobody read is read by a later call: still no line of the process is lost or
\* read twice in a call or between two, a call ends where an answer ends, and as
\* long as nothing was executed before, a query gets its own answer.
ShellAnswers ==
    /\ \A c \in DOMAIN replies : \A i \in 2..Len(Heard(c)) : Follows(Heard(c)[i], Heard(c)[i - 1])
    /\ \A c, d \in DOMAIN replies :
          c < d /\ Heard(c) # <<>> /\ Heard(d) # <<>> /\ (\A e \in (c + 1)..(d - 1) : Heard(e) = <<>>)
              => Follows(Heard(d)[1], LastOf(Heard(c)))
    /\ alive => \A c \in DOMAIN replies : replies[c] # <<>> =>
          /\ LastOf(replies[c]).line = Len(answer[LastOf(replies[c]).cmd])
          /\ (\A d \in 1..c : asked[d] = "query") =>
                replies[c] = [i \in DOMAIN answer[c] |-> Piece(c, i)]

\* Every query ends, whatever answers were left before it, or with the process:
\* for each there is a marker that nothing follows.  (Not so if an answer has
\* no line: its marker then follows another one.)
ShellReturns ==
    shPc = "reading" /\ (\A c \in DOMAIN answer : answer[c] # <<>>) ~> shPc # "reading"
=============================================================================
