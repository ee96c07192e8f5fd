-------------------------------- MODULE LuaVm --------------------------------
(***************************************************************************)
(* The Lua machine of vm/lua/lua_vm.go: scripts that run one after the     *)
(* other in one machine (Do), fetch the data of their Do                   *)
(* (oncecall_get_data), leave rows for it (oncecall_put_data) and keep     *)
(* values in the cache (global_map), in any order, raising errors that     *)
(* they may catch (pcall).  A value is a type and a sequence of integers:  *)
(* a number has one, a string one if it reads as a number, a table or a    *)
(* byte slice its elements.  Fractions are left out, and so are the words  *)
(* of a string that is no number.                                          *)
(***************************************************************************)
EXTENDS Integers, Sequences, FiniteSets

CONSTANTS Tables,    (* what scripts put: sequences of rows of Lua values  *)
          Inputs,    (* what Do is given: sequences of rows of Go values   *)
          Exact,     (* integers up to this are exact in a float64         *)
          MaxDo,     (* bound: the calls of Do                             *)
          MaxPuts    (* bound: the puts of one Do                          *)

\* The types of Lua and of Go; "other" stands for those the conversions refuse.
Types == {"nil", "bool", "number", "string", "table", "other",
          "int", "int64", "float64", "bytes", "refused", "no table"}
Values == [t : Types, v : Seq(Int)]

ASSUME LuaConstants ==
    /\ Exact \in Nat /\ MaxDo \in Nat /\ MaxPuts \in Nat
    /\ Tables \subseteq Seq(Seq(Values)) /\ Inputs \subseteq Seq(Seq(Values))
    /\ \A data \in Inputs : \A i \in DOMAIN data : \A j \in DOMAIN data[i] :
          data[i][j].t \in {"int", "int64"} => data[i][j].v # <<>>

VARIABLES
    luaPc,           (* "idle", or how the script stands                   *)
    luaCall,         (* the number of Do calls                             *)
    input, output,   (* the fields; <<>> stands for nil                    *)
    cache,           (* what global_map keeps under a key; <<>>: nothing   *)
    held,            (* the table the script has at hand                   *)
    left,            (* history: the put that made output                  *)
    nputs,           (* history: the puts of this Do                       *)
    done             (* history: how each Do ended, and what it returned   *)

luaVars == <<luaPc, luaCall, input, output, cache, held, left, nputs, done>>

Val(t, v) == [t |-> t, v |-> v]
NilVal == Val("nil", <<>>)
NotATable == <<Val("no table", <<>>)>>   \* in the place of a row

-----------------------------------------------------------------------------
(* The conversions.                                                        *)

Refused == Val("refused", <<>>)

\* convertLuaToAsGo: a table is a byte slice, whose elements may be up to 256
\* and are cut to a byte; a string that reads as a number is a number.
ToGoWrap(x) ==   \* mutant: the range of the elements is not tested
    CASE x.t = "table" -> Val("bytes", [i \in DOMAIN x.v |-> x.v[i] % 256])
      [] x.t = "number" \/ (x.t = "string" /\ x.v # <<>>) -> Val("float64", x.v)
      [] x.t \in {"bool", "nil"} \/ (x.t = "string" /\ x.v = <<>>) -> x
      [] OTHER -> Refused
ToGo(x) ==
    CASE x.t = "table" -> IF \A i \in DOMAIN x.v : x.v[i] \in 0..256
                          THEN Val("bytes", [i \in DOMAIN x.v |-> x.v[i] % 256]) ELSE Refused
      [] x.t = "number" \/ (x.t = "string" /\ x.v # <<>>) -> Val("float64", x.v)
      [] x.t \in {"bool", "nil"} \/ (x.t = "string" /\ x.v = <<>>) -> x
      [] OTHER -> Refused

\* An integer as a float64 with a mantissa of Exact: past it, the even ones.
AsFloat(n) == IF n <= Exact THEN n ELSE 2 * (n \div 2)

\* pushLuaFromGo.
FromGo(y) ==
    CASE y.t \in {"int", "int64"} -> Val("number", <<AsFloat(y.v[1])>>)
      [] y.t = "float64" -> Val("number", y.v)
      [] y.t = "bytes" -> Val("table", y.v)
      [] y.t \in {"nil", "string", "bool"} -> y
      [] OTHER -> Refused

Good(row, Conv(_)) == \A j \in DOMAIN row : Conv(row[j]) # Refused
Mapped(row, Conv(_)) == [j \in DOMAIN row |-> Conv(row[j])]

\* RawLength: any border, so that nils at the end are cut off, and nils within
\* may end the row early.
Borders(row) == {n \in 0..Len(row) :
                    /\ n = 0 \/ row[n] # NilVal
                    /\ n = Len(row) \/ row[n + 1] = NilVal}
CutRows(tab) ==
    {rows \in [DOMAIN tab -> UNION {{SubSeq(tab[i], 1, n) : n \in Borders(tab[i])} : i \in DOMAIN tab}] :
        \A i \in DOMAIN tab : \E n \in Borders(tab[i]) : rows[i] = SubSeq(tab[i], 1, n)}

IsGood(row) == row # NotATable /\ Good(row, ToGo)

\* The rows put_data leaves: those before the first bad one, of a bad row its
\* cells up to the first bad one, and nothing after it.  Of a table that is
\* refused a byte slice without bytes is left, of another value a nil.
BadRows(rows) == {i \in DOMAIN rows : ~IsGood(rows[i])}
Cell(row, j) ==
    IF Good(SubSeq(row, 1, j), ToGo) THEN ToGo(row[j])
    ELSE IF Good(SubSeq(row, 1, j - 1), ToGo) /\ row[j].t = "table" THEN Val("bytes", <<>>)
    ELSE NilVal
Converted(rows) ==
    [i \in DOMAIN rows |->
        IF rows[i] = NotATable \/ \E b \in BadRows(rows) : b < i THEN <<>>
        ELSE [j \in DOMAIN rows[i] |-> Cell(rows[i], j)]]

-----------------------------------------------------------------------------
(* The calls.                                                              *)

NoPut == [do |-> 0, n |-> 0, tab |-> <<>>, bad |-> {}]
NotDone == [out |-> "none", do |-> 0, n |-> 0, puts |-> 0]
Running == luaPc = "script"

LuaInit ==
    /\ luaPc = "idle" /\ luaCall = 0
    /\ input = <<>> /\ output = <<>> /\ cache = <<>> /\ held = <<>>
    /\ left = NoPut /\ nputs = 0
    /\ done = [c \in 1..MaxDo |-> NotDone]

Do(data) ==
    /\ luaPc = "idle" /\ luaCall < MaxDo
    /\ luaPc' = "script" /\ luaCall' = luaCall + 1
    /\ input' = data /\ held' = <<>> /\ nputs' = 0
    /\ UNCHANGED <<output, cache, left, done>>

\* oncecall_get_data: a value of a type it does not know raises an error.
GetData ==
    /\ Running /\ input # <<>>
    /\ IF \A i \in DOMAIN input : Good(input[i], FromGo)
       THEN held' = [i \in DOMAIN input |-> Mapped(input[i], FromGo)] /\ UNCHANGED luaPc
       ELSE luaPc' = "raised" /\ UNCHANGED held
    /\ UNCHANGED <<luaCall, input, output, cache, left, nputs, done>>

\* oncecall_put_data of a table: the output is replaced before it is converted.
PutData(tab) ==
    /\ Running /\ nputs < MaxPuts
    /\ \E rows \in CutRows(tab) :
          /\ output' = Converted(rows)
          /\ left' = [do |-> luaCall, n |-> nputs + 1, tab |-> tab, bad |-> BadRows(rows)]
          /\ luaPc' = IF BadRows(rows) = {} THEN "script" ELSE "raised"
    /\ nputs' = nputs + 1
    /\ UNCHANGED <<luaCall, input, cache, held, done>>

\* Of anything else.
PutNoTable ==
    /\ Running /\ luaPc' = "raised"
    /\ UNCHANGED <<luaCall, input, output, cache, held, left, nputs, done>>

\* global_map.set, get and del; a table is kept as it is, not copied.
CacheSet ==
    /\ Running /\ held # <<>> /\ cache' = held
    /\ UNCHANGED <<luaPc, luaCall, input, output, held, left, nputs, done>>
CacheGet ==
    /\ Running /\ cache # <<>> /\ held' = cache
    /\ UNCHANGED <<luaPc, luaCall, input, output, cache, left, nputs, done>>
CacheDel ==
    /\ Running /\ cache # <<>> /\ cache' = <<>>
    /\ UNCHANGED <<luaPc, luaCall, input, output, held, left, nputs, done>>

\* The script catches the error (pcall) and goes on.
Caught ==
    /\ luaPc = "raised" /\ luaPc' = "script"
    /\ UNCHANGED <<luaCall, input, output, cache, held, left, nputs, done>>

Ended(out, put) ==
    /\ luaPc' = "idle" /\ input' = <<>>
    /\ done' = [done EXCEPT ![luaCall] =
                   [out |-> out, do |-> put.do, n |-> put.n, puts |-> nputs]]
    /\ UNCHANGED <<luaCall, cache, held, nputs>>

\* DoString returns an error, of the script or raised by a function: Do returns
\* it, and leaves the output where it is.
ScriptFails ==
    /\ luaPc \in {"script", "raised"}
    /\ Ended("error", NoPut) /\ UNCHANGED <<output, left>>

ScriptEndKeeps ==   \* mutant: the output is not reset
    /\ Running /\ output # <<>>
    /\ Ended("rows", left) /\ UNCHANGED <<output, left>>
ScriptEnd ==
    /\ Running /\ output # <<>>
    /\ Ended("rows", left) /\ output' = <<>> /\ left' = NoPut

ScriptEndsEmpty ==
    /\ Running /\ output = <<>>
    /\ Ended("nothing", NoPut) /\ left' = NoPut /\ UNCHANGED output

LuaNext ==
    \/ \E data \in Inputs : Do(data)
    \/ GetData
    \/ \E tab \in Tables \cup {held} : PutData(tab)
    \/ PutNoTable \/ CacheSet \/ CacheGet \/ CacheDel
    \/ Caught \/ ScriptFails \/ ScriptEnd \/ ScriptEndsEmpty

LuaSpec == LuaInit /\ [][LuaNext]_luaVars

-----------------------------------------------------------------------------
(* Properties.                                                             *)

\* A Do returns the rows of its own last put, each put once.  Only a Do that
\* put nothing may return others: those of the last put of a Do that failed,
\* with nothing but failed ones that put nothing in between.
LuaOutputOwn ==
    \A c \in 1..MaxDo : done[c].out = "rows" =>
        LET d == done[c].do IN
        /\ d \in 1..c /\ done[c].n = done[d].puts
        /\ d < c => done[c].puts = 0
        /\ \A e \in d..(c - 1) : done[e].out = "error" /\ (e > d => done[e].puts = 0)

\* What a script puts, a script that is given it reads again: the rows up to a
\* bad one keep their values, whatever went to and fro before, but strings
\* that read as numbers, the table element 256, and cells after a nil; after a
\* bad row nothing is left.
ReadsAgain(x, y) ==
    \/ FromGo(y) = x
    \/ x.t = "string" /\ FromGo(y) = Val("number", x.v)
    \/ x.t = "table" /\ y.t = "bytes" /\ Len(y.v) = Len(x.v)
       /\ \A i \in DOMAIN x.v : y.v[i] = x.v[i] \/ x.v[i] = 256
LuaKeeps ==
    \A i \in DOMAIN output :
        /\ (\A b \in left.bad : i < b) =>
              /\ Len(output[i]) \in Borders(left.tab[i])
              /\ \A j \in DOMAIN output[i] : ReadsAgain(left.tab[i][j], output[i][j])
        /\ (\E b \in left.bad : b < i) => output[i] = <<>>

\* What the error at lua_vm.go:60 says of a table: that it is an array of bytes.
LuaBytes ==
    \A i \in DOMAIN output \ left.bad : \A j \in DOMAIN output[i] :
        output[i][j].t = "bytes" => output[i][j].v = left.tab[i][j].v
=============================================================================
