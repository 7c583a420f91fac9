----------------------------- MODULE MCRoundTrip ----------------------------
(***************************************************************************)
(* Small sheets, answers and slips for RoundTrip.                          *)
(***************************************************************************)
EXTENDS RoundTrip

MCNumberOf == [w \in {"1"} |-> 1]

Cells(type, name) ==
  [type |-> type, name |-> name, required |-> "", relevant |-> <<>>, mentions |-> {}, displayed |-> {}]

MCRows ==
  {Cells(<<"begin_group">>, "g"), Cells(<<"begin_group">>, "h"), Cells(<<"end_group">>, ""),
   Cells(<<"begin_repeat">>, "r"), Cells(<<"end_repeat">>, ""),
   Cells(<<"text">>, "a"),
   [Cells(<<"select_one", "list">>, "b") EXCEPT
      !.required = "yes", !.relevant = <<[op |-> "=", field |-> "a", value |-> <<"x">>]>>],
   Cells(<<"select_one", "none">>, "b"), Cells(<<"begin", "group">>, "g"),
   Cells(<<"begin_group">>, ""), Cells(<<>>, "")}

MCChoiceLists == [list \in {"list"} |-> {"x"}]

MCStrayAttributes ==
  LET id(value) == [key |-> <<"id">>, value |-> value]
  IN {<<id("form")>>, <<[key |-> <<"version">>, value |-> "1"], id("unknown")>>, <<id("form"), id("form")>>}

MCAttributes == MCStrayAttributes \cup {<<>>}

MCStrayTags == {<<"a">>, <<"data">>}

MCTags ==
  MCStrayTags \cup {<<r.name>> : r \in MCRows}
  \cup {<<"orx", "meta">>, <<"orx", "instanceID">>, <<"orx", "deviceID">>}

MCAnswers == {<<"x", "&">>}

MCEntities == [name \in {"amp"} |-> "&"]
=============================================================================
