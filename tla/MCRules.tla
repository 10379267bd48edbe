------------------------------ MODULE MCRules ------------------------------
(* Profiles and messages for Rules: every list of up to three of seven rules
   against messages that fit some of them, and every quiet stretch of a day of
   four steps. *)
EXTENDS Rules

MCWords == {"*", "dnac", "DNAC", "redis", "error", "ERROR", "info", "note"}
MCLower == [w \in MCWords |-> CASE w = "DNAC" -> "dnac" [] w = "ERROR" -> "error" [] OTHER -> w]
MCDefaults == [s \in {"error", "info"} |-> IF s = "error" THEN "red" ELSE "blue"]
MCTags == {<<"won">>, <<"figure", "anna">>, <<"figure", "ben">>, <<"figure">>}

AnyRule == [systems |-> {"*"}, severity |-> {}, tags |-> {}, overlay |-> FALSE,
         image |-> "none", kind |-> "text", text |-> "rule text"]

SomeRules ==
  { AnyRule, [AnyRule EXCEPT !.systems = {"DNAC", "redis"}, !.kind = "card", !.text = ""],
    [AnyRule EXCEPT !.severity = {"ERROR"}], [AnyRule EXCEPT !.tags = {<<"won">>}],
    [AnyRule EXCEPT !.overlay = TRUE, !.image = "template", !.tags = {<<"won">>}],
    [AnyRule EXCEPT !.overlay = TRUE, !.systems = {"dnac"}],
    [AnyRule EXCEPT !.image = "broken"] }

AMessage == [system |-> "dnac", severity |-> "error", tags |-> <<>>, title |-> "title",
             body |-> "body", board |-> <<>>]

SomeMessages ==
  { AMessage, [AMessage EXCEPT !.system = "DNAC", !.severity = "info", !.title = ""],
    [AMessage EXCEPT !.severity = "ERROR", !.tags = <<<<"figure">>, <<"won">>>>],
    [AMessage EXCEPT !.system = "redis", !.tags = <<<<"won">>, <<"figure", "anna">>, <<"figure", "ben">>>>],
    [AMessage EXCEPT !.severity = "note"] }

Lists(S, n) == UNION {[1 .. k -> S] : k \in 0 .. n}

Asked(rules, msg, quiet, now, replay) ==
  [rules |-> rules, msg |-> msg, quiet |-> quiet, now |-> now, replay |-> replay,
   colors |-> [s \in {"info"} |-> "green"]]

-----------------------------------------------------------------------------
(* Boards: every combination of ends, server, winner and last point under both
   wires, every choice of two hues, and payloads with fields missing, twice, or
   unreadable.  A wheel of degrees: rounded to them, panel_colors takes the same
   colours for every two of these hues. *)

MCTexts == {"", "rule text", "a", "b", "A", "B", "anna", "ANNA", "ben", "BEN", "anna lena", "ANNA LENA", "ANNA ",
            "matchball", "MATCHBALL", "x", "?", "point", "undo"}
MCStrip == [t \in MCTexts |-> IF t = "ANNA " THEN "ANNA" ELSE t]
MCUpper == [t \in MCTexts |-> CASE t = "a" -> "A" [] t = "b" -> "B" [] t = "anna" -> "ANNA" [] t = "ben" -> "BEN"
                                [] t = "anna lena" -> "ANNA LENA" [] t = "matchball" -> "MATCHBALL"
                                [] OTHER -> t]
MCCut == [t \in MCTexts |-> IF t = "ANNA LENA" THEN "ANNA " ELSE t]

\* Blue and green are less than a quarter of the wheel apart, blue and magenta more.
MCPanelHues == <<209, 193, 162, 120, 47, 24, 355, 320, 268>>

APoint == <<<<"points", <<8, 11>>>>>>

Match ==
  { APoint \o <<<<"sets", <<2, 1>>>>, <<"set", <<4>>>>, <<"serve", s>>, <<"winner", w>>, <<"a", "anna lena">>,
                <<"player_b", "ben">>, <<"ends", e>>, <<"color_a", c>>, <<"color_b", 200>>,
                <<"played", <<<<11, 3>>, <<2>>, <<4, 11>>, <<11, 9>>, <<5, 11>>>>>> >> \o last :
      s \in {"", "a", "B"}, w \in {"", "a", "b", "x"}, c \in {195, -1},
      e \in {<<>>, <<"a", "b">>, <<"b", "a">>, <<"a", "a">>, <<"b">>},
      last \in { <<>>, <<<<"last", "a">>>>, <<<<"transition", "point">>, <<"side", "b">>>>,
                 <<<<"transition", "point">>, <<"side", "b">>, <<"last", "?">>>>,
                 <<<<"transition", "undo">>, <<"side", "b">>>> } }

Colored == { APoint \o <<<<"color_a", one>>, <<"color_b", two>>>> : one, two \in {5 * n : n \in 0 .. 72} }

Odd == { points \o more :
           points \in { <<>>, <<<<"points", <<8>>>>>>, <<<<"points", <<11, 9>>>>>>, <<<<"points", <<99, 100>>>>>>,
                        <<<<"points", <<-9, 99>>>>>>, <<<<"points", <<-10, -9>>>>>>, <<<<"points", <<3, -10>>>>>>,
                        <<<<"points", <<>>>>, <<"points", <<0, 0>>>>>> },
           more \in { <<>>, <<<<"best_of", <<1>>>>, <<"to", <<11>>>>>>, <<<<"best_of", <<1>>>>, <<"winner", "a">>>>,
                      <<<<"best_of", <<0>>>>, <<"to", <<-1>>>>, <<"set", <<>>>>, <<"sets", <<1>>>>>>,
                      <<<<"banner", "matchball">>, <<"source", "ben">>, <<"a", "anna">>>>,
                      <<<<"a", "anna">>, <<"player_a", "ben">>, <<"b", "">>>> } }

Boards == Match \cup Colored \cup Odd
ScoreRule == [AnyRule EXCEPT !.kind = "score"]

-----------------------------------------------------------------------------
MCCases ==
  { Asked(rules, msg, [rule |-> 0], [weekend |-> FALSE, t |-> 0], replay) :
      rules \in Lists(SomeRules, 3), msg \in SomeMessages, replay \in BOOLEAN } \cup
  { Asked(rules, msg, [start |-> s, end |-> e, weekends |-> w, allow |-> {"error"}], now, replay) :
      rules \in Lists({AnyRule}, 1), msg \in {AMessage, [AMessage EXCEPT !.severity = "ERROR"],
                                           [AMessage EXCEPT !.severity = "info"]},
      s \in 0 .. 3, e \in 0 .. 3, w \in BOOLEAN, now \in [weekend : BOOLEAN, t : 0 .. 3],
      replay \in BOOLEAN } \cup
  { Asked(<<ScoreRule>>, [AMessage EXCEPT !.board = board], [rule |-> 0],
          [weekend |-> FALSE, t |-> 0], FALSE) : board \in Boards }
=============================================================================
