------------------------------- MODULE Score -------------------------------
(***************************************************************************)
(* A board on its way to the panel (display/score.py): a payload is parsed *)
(* and written again by the rule engine, parsed a second time by the       *)
(* display mode, its colours mapped to the panel's, turned to the ends of  *)
(* the table and laid out.  These are the operators; Rules takes the steps.*)
(*                                                                         *)
(* A payload is a list of fields <<key, value>>.  A number is the list of  *)
(* the integers between its separators, empty when one is no integer; a    *)
(* player is 1 or 2, 0 when not stated; a colour is a hue on the Wheel,    *)
(* Grey without one, and -1 for what is not a colour.  Text is cut and put *)
(* in capitals by the three functions below.                               *)
(***************************************************************************)
EXTENDS Integers, Sequences, FiniteSetsExt

CONSTANTS Texts, NoText,                     \* texts, and the empty one
          Strip, Upper, Cut,                 \* .strip(), .upper(), [:MAX_NAME]
          Wheel, PanelHues, GreyColor        \* hues of PANEL_COLORS, and _GREY_COLOR

ASSUME ScoreAssumption ==
  /\ {Strip, Upper, Cut} \subseteq [Texts -> Texts] /\ NoText \in Texts
  /\ Wheel \in Nat \ {0} /\ PanelHues \in Seq(0 .. Wheel - 1) /\ GreyColor \in DOMAIN PanelHues

\* Capitals have no others and keep the space of a text; a name is cut to what
\* begins with more than space and is not cut again.
ASSUME TextAssumption ==
  /\ {"a", "b", "A", "B"} \subseteq Texts /\ NoText \notin {"a", "b", "A", "B", "0", "1", "point"}
  /\ Upper[NoText] = NoText /\ \A t \in {NoText, "A", "B"} : Strip[t] = t
  /\ \A t \in Texts :
       /\ Upper[Upper[t]] = Upper[t] /\ Strip[Upper[Strip[t]]] = Upper[Strip[t]]
       /\ Strip[Strip[t]] = Strip[t]
       /\ Strip[t] = t /\ t # NoText => Strip[Cut[Upper[t]]] # NoText
       /\ Cut[Upper[Strip[Cut[Upper[t]]]]] = Strip[Cut[Upper[t]]]

Grey == Wheel

\* A Score; what is not stated is 0, a list without elements or the empty text.
Board == [points : Int \X Int, sets : Int \X Int, set_number : Int,
          serving : 0 .. 2, winner : 0 .. 2, last : 0 .. 2,
          names : Texts \X Texts, banner : Texts, source : Texts, played : Seq(Int \X Int),
          colors : {<<>>} \cup ((0 .. Wheel) \X (0 .. Wheel)),
          best_of : Nat, to : Nat, ends : {<<>>, <<1, 2>>, <<2, 1>>}]

\* The fields of a payload, and a payload.
Fields ==
  ({"points", "sets", "set", "best_of", "to"} \X Seq(Int)) \cup ({"played"} \X Seq(Seq(Int)))
  \cup ({"a", "b", "player_a", "player_b", "banner", "source"} \X Texts)
  \cup ({"color_a", "color_b"} \X (-1 .. Wheel)) \cup ({"ends"} \X Seq(Texts))
  \cup ({"serve", "winner", "last", "transition", "side"} \X Texts)
Payload == Seq(Fields)

Alias(key) == CASE key = "player_a" -> "a" [] key = "player_b" -> "b" [] OTHER -> key

-----------------------------------------------------------------------------
(* parse_score. *)

\* _fields: the dict of a payload, where the last field of a name counts.
Has(wire, key) == \E n \in DOMAIN wire : Alias(wire[n][1]) = key
Field(wire, key, default) ==
  IF Has(wire, key) THEN wire[Max({n \in DOMAIN wire : Alias(wire[n][1]) = key})][2] ELSE default

Pair(raw) == IF Len(raw) = 2 THEN raw ELSE <<>>
Side(raw) == CASE raw \in {"a", "A", "0"} -> 1 [] raw \in {"b", "B", "1"} -> 2 [] OTHER -> 0
Letter(side) == IF side = 1 THEN "a" ELSE "b"

Said(wire, key) == Strip[Field(wire, key, NoText)]
Name(wire, key, default) ==
  Cut[Upper[IF Said(wire, key) = NoText THEN default ELSE Said(wire, key)]]

Count(wire, key) ==
  LET raw == Field(wire, key, <<>>)
  IN IF Len(raw) = 1 /\ raw[1] > 0 THEN raw[1] ELSE 0

\* The sets that were played, without what is no pair.
Pairs(raw) ==
  LET upTo[n \in 0 .. Len(raw)] ==
        IF n = 0 THEN <<>>
        ELSE IF Pair(raw[n]) = <<>> THEN upTo[n - 1] ELSE Append(upTo[n - 1], raw[n])
  IN upTo[Len(raw)]

Parse(wire) ==
  LET sets == Pair(Field(wire, "sets", <<>>))
      set == Field(wire, "set", <<1>>)
      colors == <<Field(wire, "color_a", -1), Field(wire, "color_b", -1)>>
      stated == Field(wire, "ends", <<>>)
      ends == [n \in DOMAIN stated |-> Side(stated[n])]
  IN [points |-> Pair(Field(wire, "points", <<>>)),
      sets |-> IF sets = <<>> THEN <<0, 0>> ELSE sets,
      set_number |-> IF Len(set) = 1 THEN set[1] ELSE 1,
      serving |-> Side(Field(wire, "serve", NoText)),
      winner |-> Side(Field(wire, "winner", NoText)),
      names |-> <<Name(wire, "a", "A"), Name(wire, "b", "B")>>,
      played |-> Pairs(Field(wire, "played", <<>>)),
      banner |-> Upper[Said(wire, "banner")],
      \* The payload says last=, zaehlwerk's tags the transition and its side.
      last |-> IF Has(wire, "last") THEN Side(Field(wire, "last", NoText))
               ELSE IF Field(wire, "transition", NoText) = "point"
                    THEN Side(Field(wire, "side", NoText)) ELSE 0,
      source |-> Upper[Said(wire, "source")],
      colors |-> IF -1 \in {colors[1], colors[2]} THEN <<>> ELSE colors,
      best_of |-> Count(wire, "best_of"), to |-> Count(wire, "to"),
      ends |-> IF Len(ends) = 2 /\ {ends[1], ends[2]} = {1, 2} THEN ends ELSE <<>>]

IsBoard(wire) == Parse(wire).points # <<>>

\* Mutant: the ends of the table are forgotten.
Stated_NoEnds(condition, key, value) ==
  IF condition /\ key # "ends" THEN <<<<key, value>>>> ELSE <<>>

\* format_score: what is not stated is left out.
Stated(condition, key, value) == IF condition THEN <<<<key, value>>>> ELSE <<>>
Format(b) ==
  <<<<"points", b.points>>, <<"sets", b.sets>>, <<"set", <<b.set_number>>>>>>
  \o Stated(b.serving # 0, "serve", Letter(b.serving))
  \o Stated(b.winner # 0, "winner", Letter(b.winner))
  \o <<<<"a", b.names[1]>>, <<"b", b.names[2]>>>>
  \o Stated(b.played # <<>>, "played", b.played)
  \o Stated(b.banner # NoText, "banner", b.banner)
  \o Stated(b.last # 0, "last", Letter(b.last))
  \o Stated(b.source # NoText, "source", b.source)
  \o (IF b.colors = <<>> THEN <<>>
      ELSE <<<<"color_a", b.colors[1]>>, <<"color_b", b.colors[2]>>>>)
  \o Stated(b.best_of # 0, "best_of", <<b.best_of>>)
  \o Stated(b.to # 0, "to", <<b.to>>)
  \o Stated(b.ends # <<>>, "ends", [n \in DOMAIN b.ends |-> Letter(b.ends[n])])

-----------------------------------------------------------------------------
(* The players' colours on the panel, and the ends of the table. *)

HueDistance(a, b) == LET d == IF a < b THEN b - a ELSE a - b IN IF d < Wheel - d THEN d ELSE Wheel - d

\* The first of _ranked among the panel colours S; the sort is stable.
Nearest(S, c) ==
  IF c = Grey THEN IF GreyColor \in S THEN GreyColor ELSE CHOOSE n \in S : \A m \in S : n <= m
  ELSE CHOOSE n \in S : \A m \in S :
         LET dn == HueDistance(c, PanelHues[n])
             dm == HueDistance(c, PanelHues[m])
         IN dn < dm \/ (dn = dm /\ n <= m)

Apart(n, m) == 4 * HueDistance(PanelHues[n], PanelHues[m]) >= Wheel   \* _MIN_HUE_APART

\* PANEL_COLORS has one apart from each, for the next() of panel_colors to find.
ASSUME PaletteAssumption == \A n \in DOMAIN PanelHues : \E m \in DOMAIN PanelHues : Apart(m, n)

\* Mutant: each has their nearest, the same or not.
PanelColors_Alike(colors) == <<Nearest(DOMAIN PanelHues, colors[1]), Nearest(DOMAIN PanelHues, colors[2])>>

PanelColors(colors) ==
  LET all == DOMAIN PanelHues
      one == Nearest(all, colors[1])
      two == Nearest(all, colors[2])
  IN <<one, IF two = one THEN Nearest({n \in all : Apart(n, one)}, colors[2]) ELSE two>>

Swapped(pair) == <<pair[2], pair[1]>>
Other(side) == IF side = 0 THEN 0 ELSE 3 - side

\* Mutant: who took the last point stays where it was.
FromTheLeft_KeepsLast(b) ==
  IF b.ends # <<2, 1>> THEN b
  ELSE [b EXCEPT !.points = Swapped(@), !.sets = Swapped(@), !.serving = Other(@),
                 !.names = Swapped(@), !.played = [n \in DOMAIN @ |-> Swapped(@[n])],
                 !.winner = Other(@), !.ends = <<1, 2>>,
                 !.colors = IF @ = <<>> THEN @ ELSE Swapped(@)]

FromTheLeft(b) ==
  IF b.ends # <<2, 1>> THEN b
  ELSE [b EXCEPT !.points = Swapped(@), !.sets = Swapped(@), !.serving = Other(@),
                 !.names = Swapped(@), !.played = [n \in DOMAIN @ |-> Swapped(@[n])],
                 !.winner = Other(@), !.last = Other(@), !.ends = <<1, 2>>,
                 !.colors = IF @ = <<>> THEN @ ELSE Swapped(@)]

-----------------------------------------------------------------------------
(* The layout.  Panel colours are numbers; the mode's own have names below 0. *)

ColorScore == -1
ColorLabel == -2
ColorServe == -3
ColorFaint == -4
ColorWon == -5

MaxPlayed == 3
LeftEdge == 27
RightStart == 36

\* How long str(value) is. With three digits or more a number has no room anyway.
Digits(n) == IF n < 10 THEN 1 ELSE IF n < 100 THEN 2 ELSE 3
Characters(value) == IF value < 0 THEN 1 + Digits(-value) ELSE Digits(value)

\* Mutant: the sign takes no room.
NumberWidth_NoSign(value) == 14 * Digits(IF value < 0 THEN -value ELSE value) - 2

\* number_width: a sign takes a digit's room, and is drawn as a blank.
NumberWidth(value) == 14 * Characters(value) - 2

Recent(played) ==
  IF Len(played) <= MaxPlayed THEN played
  ELSE SubSeq(played, Len(played) - MaxPlayed + 1, Len(played))

\* render: the columns of the left half and of the right, and the rows below.
Render(b) ==
  LET turned == FromTheLeft([b EXCEPT !.colors = IF @ = <<>> THEN <<>> ELSE PanelColors(@)])
      serving == IF turned.winner = 0 THEN turned.serving ELSE 0
      nameColor(side) == IF turned.colors # <<>> THEN turned.colors[side]
                         ELSE IF serving = side THEN ColorServe ELSE ColorLabel
      width(side) == NumberWidth(turned.points[side])
  IN [lit |-> "board",
      header |-> IF turned.best_of # 1 THEN "SATZ" ELSE IF turned.winner = 0 THEN "LIVE" ELSE "",
      sets |-> turned.sets,
      number |-> [side \in {1, 2} |->
        [value |-> turned.points[side],
         from |-> IF side = 1 THEN LeftEdge - width(1) + 1 ELSE RightStart,
         to |-> IF side = 1 THEN LeftEdge ELSE RightStart + width(2) - 1,
         color |-> IF turned.winner = 0 THEN ColorScore
                   ELSE IF turned.winner = side THEN ColorWon ELSE ColorFaint]],
      name |-> [side \in {1, 2} |-> [text |-> turned.names[side], color |-> nameColor(side)]],
      marker |-> serving,
      row |-> IF turned.banner # NoText
                THEN [said |-> "banner", text |-> turned.banner,
                      color |-> IF turned.winner # 0 THEN ColorWon ELSE ColorServe]
              ELSE IF turned.last # 0
                THEN [said |-> "+1", text |-> turned.names[turned.last],
                      color |-> IF turned.colors # <<>> THEN turned.colors[turned.last] ELSE ColorLabel]
              ELSE [said |-> "", text |-> NoText, color |-> ColorLabel],
      played |-> Recent(turned.played), source |-> turned.source]

\* _static_text of a payload that is no board: never a dark panel.
StaticText == [lit |-> "text"]
Dark == [lit |-> "dark"]

\* display_score, as far as the wait.
DisplayScore(wire) == IF IsBoard(wire) THEN Render(Parse(wire)) ELSE StaticText

-----------------------------------------------------------------------------
(* What Rules checks of a board. *)

\* Two payloads that are the same board, but for the space a cut leaves at the
\* end of a name.
Same(text, wire) ==
  /\ IsBoard(text) = IsBoard(wire)
  /\ IsBoard(wire) =>
       Parse(text) = [Parse(wire) EXCEPT !.names = <<Strip[@[1]], Strip[@[2]]>>]

\* Everything in one half of the panel is about the player at that end.
HalvesArePlayers(panel, b) ==
  LET colors == IF b.colors = <<>> THEN <<>> ELSE PanelColors(b.colors)
      at == IF b.ends = <<>> THEN <<1, 2>> ELSE b.ends
      recent == Recent(b.played)
  IN /\ \A half \in {1, 2} : LET player == at[half] IN
          /\ panel.number[half].value = b.points[player]
          /\ panel.sets[half] = b.sets[player]
          /\ panel.name[half].text = b.names[player]
          /\ colors # <<>> => panel.name[half].color = colors[player]
          /\ panel.number[half].color = ColorWon <=> b.winner = player
          /\ panel.marker = half <=> b.serving = player /\ b.winner = 0
          /\ \A n \in DOMAIN recent : panel.played[n][half] = recent[n][player]
     /\ panel.row.said = "+1" =>
          \E half \in {1, 2} : /\ at[half] = b.last
                               /\ panel.row.text = panel.name[half].text
                               /\ colors # <<>> => panel.row.color = panel.name[half].color

Distinguished(colors) ==
  LET got == PanelColors(colors)
      near(c, n) == c # Grey => \A m \in DOMAIN PanelHues :
                                  HueDistance(c, PanelHues[n]) <= HueDistance(c, PanelHues[m])
  IN /\ {got[1], got[2]} \subseteq DOMAIN PanelHues /\ got[1] # got[2]
     /\ near(colors[1], got[1])
     /\ near(colors[2], got[2]) \/ Apart(got[1], got[2])
=============================================================================
