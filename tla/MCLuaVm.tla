------------------------------- MODULE MCLuaVm -------------------------------
(* What scripts put and are given, for the model checker (see LuaVm).      *)
EXTENDS LuaVm

\* The tables: a nil within a row and a string that reads as a number; a byte
\* that is none in the middle; a row that is none; the element 256.
Num(n) == Val("number", <<n>>)
MCTables == {
    << <<Num(1), NilVal, Val("string", <<7>>)>>, <<Val("table", <<1, 255>>)>> >>,
    << <<Val("bool", <<1>>), Num(2)>>, <<Num(1), Val("table", <<300>>), Num(2)>>, <<Num(1)>> >>,
    << <<Num(3)>>, NotATable, <<Num(1)>> >>,
    << <<Val("table", <<256>>), Val("string", <<>>)>> >> }

\* The data: none; an integer that a float64 rounds, bytes and a nil at the end;
\* a type that Lua does not know.
MCInputs == {
    <<>>,
    << <<Val("int", <<9>>), Val("bytes", <<1, 2>>), Val("string", <<7>>)>>,
       <<Val("float64", <<3>>), NilVal>> >>,
    << <<Val("other", <<>>)>> >> }
=============================================================================
