------------------------------- MODULE Rules -------------------------------
(***************************************************************************)
(* The rule engine (profile/engine.py) and who asks it: which display a    *)
(* message gets on the panel (led_handler) or when it is shown again       *)
(* (create_replayer).  match_rule is a loop over the rules and is modelled *)
(* as one, a rule a step.  Words are values, Lower what .lower() makes of  *)
(* them; an element of the tags is <<name>> or <<name, value>>; the time   *)
(* of day counts in Day steps from midnight.                               *)
(***************************************************************************)
EXTENDS Score, Functions

CONSTANTS Words, Lower, Any,      \* strings, .lower(), and the "*" of a rule
          Tags,                   \* elements of a tag list
          Figure,                 \* the name a templated picture asks for
          Day,                    \* minutes of a day
          Defaults, White,        \* DEFAULT_COLORS, and the colour of any other severity
          Cases                   \* the questions: profile, message, time, and who asks

RawRules == [systems : SUBSET Words, severity : SUBSET Words, tags : SUBSET Tags,
             overlay : BOOLEAN, image : {"none", "fixed", "template", "broken"},
             kind : {"text", "card", "score"}, text : Texts]

Nothing == [rule |-> 0]
Pending == [rule |-> -1]

ASSUME RulesAssumption ==
  /\ Day \in Nat \ {0} /\ Any \in Words
  /\ Lower \in [Words -> Words] /\ \A w \in Words : Lower[Lower[w]] = Lower[w]
  /\ \A c \in Cases :
       /\ c.replay \in BOOLEAN /\ c.rules \in Seq(RawRules) /\ c.now.t \in 0 .. Day - 1
       /\ c.msg.board \in Payload
       /\ c.quiet # Nothing => c.quiet.start \in 0 .. Day - 1 /\ c.quiet.end \in 0 .. Day - 1

VARIABLES case,    \* the question, fixed
          i,       \* the rule the loop looks at next
          first,   \* the overlay that waits for what it plays over
          out,     \* the answer; Pending until there is one
          panel,   \* what it puts there
          pc

vars == <<case, i, first, out, panel, pc>>

-----------------------------------------------------------------------------
(* What load_profile makes of a rule, a colour list and the quiet hours. *)

LoadRule(raw) == [raw EXCEPT !.severity = {Lower[s] : s \in @}]

\* Profile.__post_init__: custom colours over the built-in ones.
Colors(custom) ==
  [s \in DOMAIN Defaults \cup DOMAIN custom |->
     IF s \in DOMAIN custom THEN custom[s] ELSE Defaults[s]]

\* Mutant: the last minute counts too.
Active_Inclusive(q, now) ==
  \/ q.weekends /\ now.weekend
  \/ IF q.start <= q.end THEN q.start <= now.t /\ now.t <= q.end
                         ELSE now.t >= q.start \/ now.t <= q.end

\* QuietHours.active; now is [weekend, t].
Active(q, now) ==
  \/ q.weekends /\ now.weekend
  \/ IF q.start <= q.end THEN q.start <= now.t /\ now.t < q.end
                         ELSE now.t >= q.start \/ now.t < q.end

-----------------------------------------------------------------------------
(* _resolve_config: what of the message ends up in the display. *)

\* tag_value: the first element of that name with a value.
TagValue(tags, name) ==
  LET hits == {j \in DOMAIN tags : Len(tags[j]) = 2 /\ tags[j][1] = name}
  IN IF hits = {} THEN NoText ELSE tags[Min(hits)][2]

\* A fixed image, one the message names, or a template that fails and is empty.
Picture(rule, msg) ==
  CASE rule.image = "fixed"    -> "fixed"
    [] rule.image = "template" -> TagValue(msg.tags, Figure)
    [] rule.image \in {"none", "broken"} -> NoText

Color(colors, msg) ==
  LET s == Lower[msg.severity]
  IN IF s \in DOMAIN colors THEN colors[s]
     ELSE IF s \in DOMAIN Defaults THEN Defaults[s] ELSE White

\* A board is written anew; a card without a text of its own scrolls the
\* message; its title is the message too when there is none.
Text(rule, msg) ==
  CASE rule.kind = "score" -> IF IsBoard(msg.board) THEN Format(Parse(msg.board)) ELSE msg.board
    [] rule.kind = "card" -> IF rule.text = NoText THEN msg.body ELSE rule.text
    [] OTHER -> rule.text
Title(msg) == IF msg.title # NoText THEN msg.title ELSE msg.body

Resolve(rule, n, c) ==
  [rule |-> n, kind |-> rule.kind, overlay |-> rule.overlay, image |-> Picture(rule, c.msg),
   color |-> Color(Colors(c.colors), c.msg), text |-> Text(rule, c.msg),
   title |-> IF rule.kind = "card" THEN Title(c.msg) ELSE NoText, then |-> Nothing]

FallbackCard(c) ==
  Resolve([kind |-> "card", text |-> c.msg.body, image |-> "none", overlay |-> FALSE],
          Len(c.rules) + 1, c)

-----------------------------------------------------------------------------
(* match_rule. *)

Matches(rule, msg) ==
  /\ Any \in rule.systems \/ Lower[msg.system] \in {Lower[s] : s \in rule.systems}
  /\ rule.severity = {} \/ Lower[msg.severity] \in rule.severity
  /\ \A tag \in rule.tags : \E j \in DOMAIN msg.tags : msg.tags[j] = tag

\* Mutant: a rule without a picture is shown without it.
NamesNoPicture_Never(rule, msg) == FALSE

NamesNoPicture(rule, msg) == rule.image # "none" /\ Picture(rule, msg) = NoText

Quiet(c) == /\ ~c.replay /\ c.quiet # Nothing
            /\ Lower[c.msg.severity] \notin {Lower[s] : s \in c.quiet.allow}
            /\ Active(c.quiet, c.now)

Init == /\ case \in Cases
        /\ i = 1 /\ first = Nothing /\ out = Pending /\ pc = "hours"
        /\ panel = Dark

Rule == LoadRule(case.rules[i])

Hours == /\ pc = "hours"
         /\ IF Quiet(case) THEN out' = Nothing /\ pc' = "asked"
                           ELSE pc' = "loop" /\ UNCHANGED out
         /\ UNCHANGED <<case, i, first, panel>>

Skip == /\ pc = "loop" /\ i <= Len(case.rules)
        /\ ~Matches(Rule, case.msg) \/ NamesNoPicture(Rule, case.msg)
        /\ i' = i + 1
        /\ UNCHANGED <<case, first, out, panel, pc>>

\* The first match, or the one an overlay gives way to; an overlay goes on looking.
Hit == /\ pc = "loop" /\ i <= Len(case.rules)
       /\ Matches(Rule, case.msg) /\ ~NamesNoPicture(Rule, case.msg)
       /\ LET resolved == Resolve(Rule, i, case) IN
          \/ /\ first # Nothing
             /\ out' = [first EXCEPT !.then = resolved] /\ pc' = "asked"
             /\ UNCHANGED <<i, first>>
          \/ /\ first = Nothing /\ ~Rule.overlay
             /\ out' = resolved /\ pc' = "asked" /\ UNCHANGED <<i, first>>
          \/ /\ first = Nothing /\ Rule.overlay
             /\ first' = resolved /\ i' = i + 1 /\ UNCHANGED <<out, pc>>
       /\ UNCHANGED <<case, panel>>

\* Mutant: the loop goes on past the last rule.
NoMore_GoesOn == /\ pc = "loop" /\ i > Len(case.rules) /\ i < Len(case.rules) + 3
                 /\ i' = i + 1
                 /\ UNCHANGED <<case, first, out, panel, pc>>

\* Every rule looked at: an overlay with nothing after it is still shown.
NoMore == /\ pc = "loop" /\ i > Len(case.rules)
          /\ out' = first /\ pc' = "asked"
          /\ UNCHANGED <<case, i, first, panel>>

\* Mutant: a replay is dropped like a message.
Use_Drops == /\ pc = "asked" /\ pc' = "done"
             /\ UNCHANGED <<case, i, first, out, panel>>

\* led_handler drops a message without a display; a replay makes it a card.
Use == /\ pc = "asked" /\ pc' = "done"
       /\ out' = IF case.replay /\ out = Nothing THEN FallbackCard(case) ELSE out
       /\ UNCHANGED <<case, i, first, panel>>

\* The display mode: a board is parsed again; what the others draw is not told apart.
Draw == /\ pc = "done" /\ out # Nothing /\ panel = Dark
        /\ panel' = IF out.kind = "score" THEN DisplayScore(out.text) ELSE StaticText
        /\ UNCHANGED <<case, i, first, out, pc>>

Next == Hours \/ Skip \/ Hit \/ NoMore \/ Use \/ Draw

Spec == Init /\ [][Next]_vars
-----------------------------------------------------------------------------
(* Properties. *)

TypeOK ==
  /\ i \in 1 .. Len(case.rules) + 1
  /\ pc \in {"hours", "loop", "asked", "done"} /\ panel.lit \in {"dark", "text", "board"}
  /\ first.rule \in 0 .. Len(case.rules) /\ out.rule \in -1 .. Len(case.rules) + 1
  /\ panel.lit = "board" => Parse(out.text) \in Board

\* How long ago the clock last stood at s.
Elapsed(s, t) == IF t >= s THEN t - s ELSE t - s + Day

(* Quiet hours are the stretch of the day that begins at `from` and is as long
   as from `from` to `to`, over midnight or not, none of it when the two are
   the same (engine.py:89-96), and weekends all day when the profile says so. *)
QuietIsTheArc ==
  case.quiet # Nothing =>
    LET q == case.quiet
    IN Active(q, case.now) <=>
         \/ q.weekends /\ case.now.weekend
         \/ Elapsed(q.start, case.now.t) < Elapsed(q.start, q.end)

\* The rules for a message, whatever the case of their words.
Candidates(c) ==
  {j \in DOMAIN c.rules :
     LET rule == c.rules[j] IN
     /\ \E s \in rule.systems : s = Any \/ Lower[s] = Lower[c.msg.system]
     /\ rule.severity # {} => \E s \in rule.severity : Lower[s] = Lower[c.msg.severity]
     /\ \A tag \in rule.tags : tag \in Range(c.msg.tags)
     /\ rule.image # "none" => Picture(rule, c.msg) # NoText}

Expected(c) ==
  LET all == Candidates(c)
      a == Min(all)
      b == Min(all \ {a})
  IN IF all = {} THEN Nothing
     ELSE IF c.rules[a].overlay /\ all # {a}
          THEN [Resolve(c.rules[a], a, c) EXCEPT !.then = Resolve(c.rules[b], b, c)]
          ELSE Resolve(c.rules[a], a, c)

(* What match_rule returns is what the profile reads like from outside
   (engine.py:197-259): the first rule the message fits that has a picture to
   show when it is to have one; over an overlay the next such rule, which plays
   once the overlay is over and brings nothing after it; and in quiet hours
   nothing, but for the severities let through. *)
MatchIsFirst ==
  pc = "asked" =>
    LET q == case.quiet
        silenced == /\ ~case.replay /\ q # Nothing
                    /\ \A s \in q.allow : Lower[s] # Lower[case.msg.severity]
                    /\ \/ q.weekends /\ case.now.weekend
                       \/ Elapsed(q.start, case.now.t) < Elapsed(q.start, q.end)
    IN out = IF silenced THEN Nothing ELSE Expected(case)

(* What the engine answers, and the hours it counts by. *)
MatchIsRight == MatchIsFirst /\ QuietIsTheArc

(* An event shown again on request is shown at any hour and under any profile
   (web/handler.py:114-121), in the colour of its severity. *)
ReplayShows ==
  pc = "done" /\ case.replay =>
    /\ out # Nothing /\ out.color = Color(Colors(case.colors), case.msg)
    /\ out.rule \in Candidates(case) \cup {Len(case.rules) + 1}

OnBoard == panel.lit = "board"

(* The engine and the panel read the same board out of a payload: what
   format_score writes parses to what was parsed before, whichever of the shapes
   arrived and whatever was left out (score.py:341-343, engine.py:318-324). *)
SameBoard ==
  pc = "done" /\ out # Nothing /\ out.kind = "score" => Same(out.text, case.msg.board)

(* The panel is read as left against right (score.py:411-434, 519): points,
   name, colour, serve, who won, who took the last point and every set played
   in one half are those of the player at that end of the table, and the colour
   a player has does not depend on the end. *)
EachHalfIsOnePlayer == OnBoard => HalvesArePlayers(panel, Parse(out.text))

(* Two players' names are never in one colour: each has the panel's nearest to
   their own, and where that is the same the second's is a quarter of the wheel
   away (score.py:396-404). *)
ToldApart ==
  OnBoard /\ Parse(out.text).colors # <<>> => Distinguished(Parse(out.text).colors)

HasRoom(number) ==
  0 <= number.from /\ number.to < 64 /\ (number.to < 30 \/ number.from > 32)

(* The room a number is given is on the panel's 64 columns and off the colon's
   three for points of two characters, from -9 to 99, and for no others: "Two
   digits are 26 wide: the left number starts at x 2, the right ends at 61"
   (score.py:66-70). *)
BoardFits ==
  OnBoard =>
    \A half \in {1, 2} : HasRoom(panel.number[half]) <=> panel.number[half].value \in -9 .. 99

(* What reaches the panel is the board that was sent, and reads as one. *)
BoardReads == TypeOK /\ SameBoard /\ EachHalfIsOnePlayer /\ ToldApart /\ BoardFits
=============================================================================
