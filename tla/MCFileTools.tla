---------------------------- MODULE MCFileTools ----------------------------
(* One call on every small file, and two overlapping calls on a few.       *)
EXTENDS FileTools

MCPaths == <<"f", "g">>
MCWords == {"a", "b"}

ReadIn(s, e)       == [tool |-> "read", path |-> "f", start |-> s, end |-> e]
WriteIn(t)         == [tool |-> "write", path |-> "f", new |-> t]
EditIn(o, n)       == [tool |-> "edit", path |-> "f", old |-> o, new |-> n]
LinesIn(s, e, n)   == [tool |-> "replace", path |-> "f", regex |-> Absent,
                       start |-> s, end |-> e, new |-> n]
RegexIn(w, n)      == [tool |-> "replace", path |-> "f", regex |-> w,
                       start |-> Absent, end |-> Absent, new |-> n]
BashIn(t)          == [tool |-> "bash", path |-> "f", new |-> t]
GrepIn(w, m)       == [tool |-> "grep", regex |-> w, max |-> m]
ListIn(t, m)       == [tool |-> t, of |-> "all", max |-> m]

Numbers == (0 .. 3) \cup {Absent}
News    == {<<>>, <<"b">>, <<"a", NL, "b">>}

(* What a model may write with a required field left out.                  *)
Unfit ==
  {[ReadIn(1, 2) EXCEPT !.path = Absent], WriteIn(Absent),
   [WriteIn(<<"b">>) EXCEPT !.path = Absent], EditIn(<<"a">>, Absent),
   EditIn(Absent, <<"b">>), RegexIn("a", Absent), BashIn(Absent),
   GrepIn(Absent, 1), [ListIn("glob", 1) EXCEPT !.of = Absent],
   [ListIn("list", 0) EXCEPT !.of = Absent]}

AllInputs ==
  {ReadIn(s, e) : s \in Numbers, e \in Numbers}
  \cup {WriteIn(t) : t \in News}
  \cup {EditIn(o, n) : o \in {<<"a">>, <<"a", NL>>, <<>>}, n \in News}
  \cup {LinesIn(s, e, n) : s \in Numbers, e \in Numbers, n \in News}
  \cup {RegexIn(w, n) : w \in {"a", BadRegex}, n \in News \cup {<<"a">>}}
  \cup {GrepIn(w, m) : w \in {"a", BadRegex}, m \in 0 .. 3}
  \cup {ListIn("glob", m) : m \in 0 .. 2} \cup {ListIn("list", 0)}
  \cup Unfit

SomeTexts ==
  {Absent, <<>>, <<"a">>, <<"a", NL>>, <<NL, "a">>, <<"b", NL, "a", NL>>,
   <<"a", "a", NL, "a">>, <<"a", NL, NL, "b", NL, "a">>}

SomeInputs ==
  {ReadIn(Absent, Absent), WriteIn(<<"b">>), WriteIn(<<"a", NL, "b">>),
   BashIn(<<"a">>), EditIn(<<"a">>, <<"b", "b">>), EditIn(<<"b">>, <<"a", "a">>),
   LinesIn(1, 1, <<>>), RegexIn("a", <<>>), GrepIn("a", 2)}

Single  == [texts |-> SomeTexts, inputs |-> AllInputs, calls |-> {"c1"},
            overlap |-> FALSE]
Pairs   == [texts |-> {<<"a", NL, "b">>, Absent}, inputs |-> SomeInputs,
            calls |-> {"c1", "c2"}, overlap |-> TRUE]
MCPlans == {Single, Pairs}
=============================================================================
