---------------------------- MODULE RulesProofs ----------------------------
(* The loop of match_rule against what it is to find, for every profile, *)
(* message and hour; and a board from the payload to the panel, for every *)
(* payload and palette.                                                   *)
EXTENDS Rules, WellFoundedInduction, TLAPS

(* The least of a set of integers, when one is known to be. *)
LEMMA MinIs ==
  ASSUME NEW S, NEW a \in S, S \subseteq Int, \A j \in S : a <= j
  PROVE  Min(S) = a
<1>1. \E x \in S : \A y \in S : x <= y
  OBVIOUS
<1>2. Min(S) \in S /\ \A y \in S : Min(S) <= y
  BY <1>1 DEF Min
<1>3. Min(S) \in Int /\ a \in Int /\ a <= Min(S) /\ Min(S) <= a
  BY <1>2
<1> HIDE DEF Min
<1> QED BY <1>3

(* What the loop tests of a rule is what makes it a candidate, and a rule
   resolves to the same display before and after loading. *)
LEMMA RuleTest ==
  ASSUME NEW c \in Cases, NEW j \in DOMAIN c.rules
  PROVE  /\ j \in Candidates(c) <=>
              /\ Matches(LoadRule(c.rules[j]), c.msg)
              /\ ~NamesNoPicture(LoadRule(c.rules[j]), c.msg)
         /\ Resolve(LoadRule(c.rules[j]), j, c) = Resolve(c.rules[j], j, c)
         /\ LoadRule(c.rules[j]).overlay = c.rules[j].overlay
         /\ c.rules[j].overlay \in BOOLEAN
<1> DEFINE raw == c.rules[j]
           loaded == LoadRule(raw)
<1>1. raw \in RawRules
  BY RulesAssumption
<1>2. /\ loaded.systems = raw.systems /\ loaded.tags = raw.tags /\ loaded.image = raw.image
      /\ loaded.overlay = raw.overlay /\ loaded.kind = raw.kind /\ loaded.text = raw.text
      /\ loaded.severity = {Lower[s] : s \in raw.severity}
      /\ raw.overlay \in BOOLEAN
  BY <1>1 DEF LoadRule, RawRules
<1> HIDE DEF loaded
<1>3. Picture(loaded, c.msg) = Picture(raw, c.msg)
  BY <1>2 DEF Picture
<1>4. Resolve(loaded, j, c) = Resolve(raw, j, c)
  BY <1>2, <1>3 DEF Resolve, Text
<1>5. Matches(loaded, c.msg) /\ ~NamesNoPicture(loaded, c.msg) <=> j \in Candidates(c)
  <2>1. (Any \in loaded.systems \/ Lower[c.msg.system] \in {Lower[s] : s \in loaded.systems})
          <=> \E s \in raw.systems : s = Any \/ Lower[s] = Lower[c.msg.system]
    BY <1>2
  <2>2. (loaded.severity = {} \/ Lower[c.msg.severity] \in loaded.severity)
          <=> (raw.severity # {} => \E s \in raw.severity : Lower[s] = Lower[c.msg.severity])
    BY <1>2
  <2>3. (\A tag \in loaded.tags : \E k \in DOMAIN c.msg.tags : c.msg.tags[k] = tag)
          <=> \A tag \in raw.tags : tag \in Range(c.msg.tags)
    BY <1>2 DEF Range
  <2>4. ~NamesNoPicture(loaded, c.msg) <=> (raw.image # "none" => Picture(raw, c.msg) # NoText)
    BY <1>2, <1>3 DEF NamesNoPicture
  <2> QED BY <2>1, <2>2, <2>3, <2>4 DEF Matches, Candidates
<1> QED BY <1>2, <1>4, <1>5 DEF loaded

(* Quiet hours counted from their beginning. *)
LEMMA ActiveIsTheArc ==
  ASSUME NEW c \in Cases, c.quiet # Nothing
  PROVE  Active(c.quiet, c.now) <=>
           \/ c.quiet.weekends /\ c.now.weekend
           \/ Elapsed(c.quiet.start, c.now.t) < Elapsed(c.quiet.start, c.quiet.end)
<1> DEFINE s == c.quiet.start
           e == c.quiet.end
           t == c.now.t
<1>1. s \in 0 .. Day - 1 /\ e \in 0 .. Day - 1 /\ t \in 0 .. Day - 1 /\ Day \in Nat
  BY RulesAssumption
<1> HIDE DEF s, e, t
<1>2. (IF s <= e THEN s <= t /\ t < e ELSE t >= s \/ t < e) <=> Elapsed(s, t) < Elapsed(s, e)
  BY <1>1 DEF Elapsed
<1> QED BY <1>2 DEF Active, s, e, t

Silenced(c) ==
  LET q == c.quiet
  IN /\ ~c.replay /\ q # Nothing
     /\ \A s \in q.allow : Lower[s] # Lower[c.msg.severity]
     /\ \/ q.weekends /\ c.now.weekend
        \/ Elapsed(q.start, c.now.t) < Elapsed(q.start, q.end)

(* What holds a message up are the hours of its profile. *)
LEMMA QuietIsSilenced ==
  ASSUME NEW c \in Cases
  PROVE  Quiet(c) <=> Silenced(c)
BY ActiveIsTheArc DEF Quiet, Silenced

-----------------------------------------------------------------------------
(* The loop: the rules before i hold no candidate, or all of them are the one
   overlay that waits. *)
LInv ==
  /\ case \in Cases
  /\ i \in Nat /\ 1 <= i
  /\ pc \in {"hours", "loop", "asked", "done"}
  /\ pc = "hours" => i = 1 /\ first = Nothing
  /\ pc = "loop" =>
       /\ ~Silenced(case)
       /\ \/ first = Nothing /\ \A j \in Candidates(case) : i <= j
          \/ \E a \in Candidates(case) :
               /\ a < i /\ case.rules[a].overlay
               /\ first = Resolve(case.rules[a], a, case) /\ first # Nothing
               /\ \A j \in Candidates(case) : j = a \/ i <= j
  /\ pc = "asked" => out = IF Silenced(case) THEN Nothing ELSE Expected(case)

(* Candidates are rules of the profile. *)
LEMMA CandidateFacts ==
  ASSUME NEW c \in Cases
  PROVE  /\ Candidates(c) \subseteq DOMAIN c.rules
         /\ Len(c.rules) \in Nat /\ DOMAIN c.rules = 1 .. Len(c.rules)
         /\ Candidates(c) \subseteq Int
BY RulesAssumption DEF Candidates

(* A display that a rule resolves to is one. *)
LEMMA ResolvedIsSomething ==
  ASSUME NEW rule, NEW n \in Nat, n # 0, NEW c
  PROVE  Resolve(rule, n, c) # Nothing
<1>1. Resolve(rule, n, c).rule = n
  BY DEF Resolve
<1>2. Nothing.rule = 0
  BY DEF Nothing
<1> QED BY <1>1, <1>2

(* Expected, for the ways the loop can end. *)
LEMMA ExpectedAlone ==
  ASSUME NEW c \in Cases, NEW a \in Candidates(c), \A j \in Candidates(c) : a <= j,
         ~c.rules[a].overlay \/ Candidates(c) = {a}
  PROVE  Expected(c) = Resolve(c.rules[a], a, c)
<1>1. Min(Candidates(c)) = a
  BY MinIs, CandidateFacts
<1> QED BY <1>1 DEF Expected

(* And over the overlay it is the next candidate that follows. *)
LEMMA ExpectedOver ==
  ASSUME NEW c \in Cases, NEW a \in Candidates(c), \A j \in Candidates(c) : a <= j,
         c.rules[a].overlay, NEW b \in Candidates(c) \ {a},
         \A j \in Candidates(c) \ {a} : b <= j
  PROVE  Expected(c) = [Resolve(c.rules[a], a, c) EXCEPT !.then = Resolve(c.rules[b], b, c)]
<1>1. Min(Candidates(c)) = a
  BY MinIs, CandidateFacts
<1>2. Min(Candidates(c) \ {a}) = b
  BY MinIs, CandidateFacts
<1>3. Candidates(c) # {} /\ Candidates(c) # {a}
  OBVIOUS
<1> QED BY <1>1, <1>2, <1>3 DEF Expected

-----------------------------------------------------------------------------
(* The loop begins so. *)
LEMMA LInit == Init => LInv
BY DEF Init, LInv

(* No step leaves that. *)
LEMMA LNext == LInv /\ [Next]_vars => LInv'
<1> SUFFICES ASSUME LInv, [Next]_vars PROVE LInv'
  OBVIOUS
<1> DEFINE all == Candidates(case)
<1>0. /\ all \subseteq 1 .. Len(case.rules) /\ Len(case.rules) \in Nat
      /\ DOMAIN case.rules = 1 .. Len(case.rules) /\ all \subseteq Int
      /\ case \in Cases /\ i \in Nat /\ 1 <= i
  BY CandidateFacts DEF LInv
<1>1. CASE Hours
  <2>1. Quiet(case) <=> Silenced(case)
    BY <1>0, QuietIsSilenced
  <2>2. i = 1 /\ first = Nothing
    BY <1>1 DEF Hours, LInv
  <2>3. \A j \in all : i <= j
    BY <2>2, <1>0
  <2>4. CASE Quiet(case)
    BY <1>0, <1>1, <2>1, <2>4 DEF Hours, LInv
  <2>5. CASE ~Quiet(case)
    BY <1>0, <1>1, <2>1, <2>2, <2>3, <2>5 DEF Hours, LInv
  <2> QED BY <2>4, <2>5
<1>2. CASE Skip
  <2>1. i \in DOMAIN case.rules
    BY <1>0, <1>2 DEF Skip
  <2>2. i \notin all
    BY <1>0, <1>2, <2>1, RuleTest DEF Skip, Rule
  <2>3. \A j \in all : i <= j => i + 1 <= j
    BY <1>0, <2>2
  <2>4. \A a \in all : a < i => a < i + 1
    BY <1>0
  <2> HIDE DEF all
  <2>5. pc = "loop" /\ pc' = "loop" /\ UNCHANGED <<case, first, out>> /\ i' = i + 1
    BY <1>2 DEF Skip
  <2> QED BY <1>0, <2>3, <2>4, <2>5 DEF LInv, all
<1>3. CASE Hit
  <2>1. i \in DOMAIN case.rules /\ pc = "loop" /\ case' = case
    BY <1>0, <1>3 DEF Hit
  <2>2. i \in all /\ ~Silenced(case)
    BY <1>0, <1>3, <2>1, RuleTest DEF Hit, Rule, LInv
  <2>3. /\ Resolve(Rule, i, case) = Resolve(case.rules[i], i, case)
        /\ Rule.overlay = case.rules[i].overlay
    BY <1>0, <2>1, RuleTest DEF Rule
  <2>4. CASE first # Nothing
    <3>1. PICK a \in all : /\ a < i /\ case.rules[a].overlay
                           /\ first = Resolve(case.rules[a], a, case)
                           /\ \A j \in all : j = a \/ i <= j
      BY <2>1, <2>4 DEF LInv
    <3>2. /\ \A j \in all : a <= j
          /\ i \in all \ {a} /\ \A j \in all \ {a} : i <= j
      BY <1>0, <2>2, <3>1
    <3>3. Expected(case) = [Resolve(case.rules[a], a, case) EXCEPT !.then = Resolve(case.rules[i], i, case)]
      BY <1>0, <3>1, <3>2, ExpectedOver
    <3>4. out' = Expected(case) /\ pc' = "asked" /\ i' = i
      BY <1>3, <2>3, <2>4, <3>1, <3>3 DEF Hit
    <3> QED BY <1>0, <2>1, <2>2, <3>4 DEF LInv
  <2>5. CASE first = Nothing
    <3>1. \A j \in all : i <= j
      BY <2>1, <2>5, <1>0, ResolvedIsSomething DEF LInv
    <3>2. CASE ~Rule.overlay
      <4>1. Expected(case) = Resolve(case.rules[i], i, case)
        BY <1>0, <2>2, <2>3, <3>1, <3>2, ExpectedAlone
      <4>2. out' = Expected(case) /\ pc' = "asked" /\ i' = i
        BY <1>3, <2>3, <2>5, <3>2, <4>1 DEF Hit
      <4> QED BY <1>0, <2>1, <2>2, <4>2 DEF LInv
    <3>3. CASE Rule.overlay
      <4>1. first' = Resolve(case.rules[i], i, case) /\ i' = i + 1 /\ pc' = "loop"
        BY <1>3, <2>1, <2>3, <2>5, <3>3 DEF Hit
      <4>2. first' # Nothing
        BY <1>0, <4>1, ResolvedIsSomething
      <4>3. i < i + 1 /\ \A j \in all : j = i \/ i + 1 <= j
        BY <1>0, <3>1
      <4>4. case.rules[i].overlay
        BY <2>3, <3>3
      <4>5. \E a \in Candidates(case) :
              /\ a < i' /\ case.rules[a].overlay
              /\ first' = Resolve(case.rules[a], a, case) /\ first' # Nothing
              /\ \A j \in Candidates(case) : j = a \/ i' <= j
        BY <2>2, <4>1, <4>2, <4>3, <4>4
      <4>6. i' \in Nat /\ 1 <= i'
        BY <1>0, <4>1
      <4> HIDE DEF all
      <4> QED BY <1>0, <2>1, <2>2, <4>1, <4>5, <4>6 DEF LInv
    <3> QED BY <3>2, <3>3, <2>2, <1>0, RuleTest, <2>3, <2>1
  <2> QED BY <2>4, <2>5
<1>4. CASE NoMore
  <2>1. pc = "loop" /\ i > Len(case.rules) /\ out' = first /\ pc' = "asked"
        /\ UNCHANGED <<case, i, first>>
    BY <1>4 DEF NoMore
  <2>2. \A j \in all : ~(i <= j)
    BY <1>0, <2>1
  <2>3. first = Expected(case)
    <3>1. CASE first = Nothing
      <4>1. all = {}
        BY <1>0, <2>1, <2>2, <3>1, ResolvedIsSomething DEF LInv
      <4> QED BY <3>1, <4>1 DEF Expected
    <3>2. CASE first # Nothing
      <4>1. PICK a \in all : /\ case.rules[a].overlay
                             /\ first = Resolve(case.rules[a], a, case)
                             /\ \A j \in all : j = a
        BY <2>1, <2>2, <3>2 DEF LInv
      <4>2. all = {a} /\ \A j \in all : a <= j
        BY <1>0, <4>1
      <4> QED BY <1>0, <4>1, <4>2, ExpectedAlone
    <3> QED BY <3>1, <3>2
  <2>4. ~Silenced(case)
    BY <2>1 DEF LInv
  <2> QED BY <1>0, <2>1, <2>3, <2>4 DEF LInv
<1>5. CASE Use
  BY <1>0, <1>5 DEF Use, LInv
<1>7. CASE Draw
  BY <1>0, <1>7 DEF Draw, LInv
<1>6. CASE UNCHANGED vars
  BY <1>6 DEF vars, LInv
<1> QED BY <1>1, <1>2, <1>3, <1>4, <1>5, <1>6, <1>7 DEF Next

(* For every profile, message and hour the loop ends with the display the
   rules read like from outside (engine.py:197-259). *)
THEOREM FirstMatch == Spec => []MatchIsFirst
<1>1. LInv => MatchIsFirst
  BY DEF LInv, MatchIsFirst, Silenced
<1> QED BY LInit, LNext, <1>1, PTL DEF Spec

(* And quiet hours are the stretch of the day they name (engine.py:89-96). *)
THEOREM QuietHours == Spec => []QuietIsTheArc
<1>1. LInv => QuietIsTheArc
  BY ActiveIsTheArc DEF LInv, QuietIsTheArc
<1> QED BY LInit, LNext, <1>1, PTL DEF Spec

(* Both, for every profile, message and hour. *)
THEOREM MatchCorrect == Spec => []MatchIsRight
BY FirstMatch, QuietHours, PTL DEF MatchIsRight
-----------------------------------------------------------------------------
(* A replay.  No quiet hours hold it up, so its answer is a candidate's display
   or none, and of none Use makes a card. *)
Fits(display) ==
  /\ display.rule \in Candidates(case)
  /\ display.color = Color(Colors(case.colors), case.msg)

Answered ==
  /\ pc \in {"loop", "asked"} /\ first # Nothing =>
       /\ Fits(first) /\ DOMAIN first = {"rule", "kind", "overlay", "image", "color", "text", "title", "then"}
  /\ pc = "asked" /\ out # Nothing => Fits(out)
  /\ ReplayShows

(* A candidate resolves to a display of its own, in the colour of the message. *)
LEMMA ResolvedFits ==
  ASSUME NEW j \in Candidates(case)
  PROVE  LET display == Resolve(case.rules[j], j, case)
         IN /\ Fits(display)
            /\ DOMAIN display = {"rule", "kind", "overlay", "image", "color", "text", "title", "then"}
BY DEF Resolve, Fits

(* Every step keeps to that. *)
LEMMA AnsweredStays == LInv /\ Answered /\ [Next]_vars => Answered'
<1> SUFFICES ASSUME LInv, Answered, [Next]_vars PROVE Answered'
  OBVIOUS
<1>1. CASE Hours
  BY <1>1 DEF Hours, LInv, Answered, ReplayShows
<1>2. CASE Skip
  BY <1>2 DEF Skip, LInv, Answered, ReplayShows, Fits
<1>3. CASE Hit
  <2>1. /\ i \in DOMAIN case.rules /\ case \in Cases /\ case' = case
        /\ pc = "loop" /\ pc' \in {"loop", "asked"}
    BY <1>3, RulesAssumption DEF Hit, LInv
  <2>2. i \in Candidates(case) /\ Resolve(Rule, i, case) = Resolve(case.rules[i], i, case)
    BY <1>3, <2>1, RuleTest DEF Hit, Rule
  <2> DEFINE resolved == Resolve(Rule, i, case)
  <2>3. /\ Fits(resolved)
        /\ DOMAIN resolved = {"rule", "kind", "overlay", "image", "color", "text", "title", "then"}
    BY <2>2, ResolvedFits
  <2> HIDE DEF resolved
  <2>4. \/ first # Nothing /\ out' = [first EXCEPT !.then = resolved] /\ pc' = "asked" /\ first' = first
        \/ first = Nothing /\ out' = resolved /\ pc' = "asked" /\ first' = first
        \/ first = Nothing /\ first' = resolved /\ pc' = "loop"
    BY <1>3, <2>1 DEF Hit, resolved
  <2>5. \A display : Fits(display)' <=> Fits(display)
    BY <2>1 DEF Fits
  <2> QED BY <2>1, <2>3, <2>4 DEF Answered, ReplayShows, Fits
<1>4. CASE NoMore
  BY <1>4 DEF NoMore, LInv, Answered, ReplayShows, Fits
<1>5. CASE Use
  <2>1. /\ pc = "asked" /\ pc' = "done" /\ case' = case
        /\ out' = IF case.replay /\ out = Nothing THEN FallbackCard(case) ELSE out
    BY <1>5 DEF Use
  <2>2. /\ FallbackCard(case).rule = Len(case.rules) + 1
        /\ FallbackCard(case).color = Color(Colors(case.colors), case.msg)
    BY DEF FallbackCard, Resolve
  <2>3. FallbackCard(case) # Nothing
    <3>1. Len(case.rules) + 1 \in Nat /\ Len(case.rules) + 1 # 0
      BY CandidateFacts DEF LInv
    <3> QED BY <3>1, ResolvedIsSomething DEF FallbackCard
  <2> QED BY <2>1, <2>2, <2>3 DEF Answered, ReplayShows, Fits
<1>6. CASE Draw
  BY <1>6 DEF Draw, Answered, ReplayShows, Fits
<1>7. CASE UNCHANGED vars
  BY <1>7 DEF vars, Answered, ReplayShows, Fits
<1> QED BY <1>1, <1>2, <1>3, <1>4, <1>5, <1>6, <1>7 DEF Next

(* Under every profile and at every hour an event shown again on request is
   shown: by a rule it fits, or as a card, in the colour of its severity. *)
THEOREM ReplayIsShown == Spec => []ReplayShows
<1>1. Init => Answered
  BY DEF Init, Answered, ReplayShows
<1>2. Answered => ReplayShows
  BY DEF Answered
<1> QED BY <1>1, <1>2, LInit, LNext, AnsweredStays, PTL DEF Spec

-----------------------------------------------------------------------------
(* The players' colours. *)

(* A set of numbers that is not empty has a least one. *)
LEMMA LeastOf == ASSUME NEW N \in SUBSET Nat, N # {} PROVE \E x \in N : \A y \in N : x <= y
<1>1. PICK x \in N : \A y \in N : ~ (<<y, x>> \in OpToRel(<, Nat))
  BY NatLessThanWellFounded, WFMin
<1>2. \A y \in N : ~ (y < x)
  BY <1>1 DEF OpToRel
<1> QED BY <1>2

Hue == 0 .. Wheel - 1
Dist(c, n) == HueDistance(c, PanelHues[n])

(* Two hues are a number of steps apart. *)
LEMMA Distances ==
  /\ \A n \in DOMAIN PanelHues : PanelHues[n] \in Hue
  /\ \A c \in Hue, n \in DOMAIN PanelHues : Dist(c, n) \in Nat
  /\ \A c \in Hue, n \in DOMAIN PanelHues : PanelHues[n] = c => Dist(c, n) = 0
<1>1. Wheel \in Nat \ {0} /\ PanelHues \in Seq(Hue)
  BY ScoreAssumption DEF Hue
<1>2. \A n \in DOMAIN PanelHues : PanelHues[n] \in Hue
  BY <1>1
<1>3. \A c, d \in Hue : HueDistance(c, d) \in Nat /\ (c = d => HueDistance(c, d) = 0)
  BY <1>1 DEF HueDistance, Hue
<1> QED BY <1>2, <1>3 DEF Dist

(* The panel's nearest to a colour is one of them, and none is nearer; grey
   counts as near to any. *)
LEMMA NearestIs ==
  ASSUME NEW S \in SUBSET DOMAIN PanelHues, S # {}, NEW c \in 0 .. Wheel
  PROVE  /\ Nearest(S, c) \in S
         /\ c # Grey => \A m \in S : Dist(c, Nearest(S, c)) <= Dist(c, m)
<1>1. DOMAIN PanelHues \subseteq Nat /\ Wheel \in Nat
  BY ScoreAssumption
<1>2. CASE c = Grey
  <2>1. \E n \in S : \A m \in S : n <= m
    BY <1>1, LeastOf
  <2>2. (CHOOSE n \in S : \A m \in S : n <= m) \in S
    BY <2>1
  <2> QED BY <1>2, <2>2 DEF Nearest
<1>3. CASE c # Grey
  <2>1. c \in Hue
    BY <1>1, <1>3 DEF Grey, Hue
  <2> DEFINE Best(n) == \A m \in S : Dist(c, n) < Dist(c, m) \/ (Dist(c, n) = Dist(c, m) /\ n <= m)
             D == {Dist(c, n) : n \in S}
  <2>2. D \in SUBSET Nat /\ D # {}
    BY <2>1, Distances
  <2>3. PICK x \in D : \A y \in D : x <= y
    <3> HIDE DEF D
    <3> QED BY <2>2, LeastOf
  <2> DEFINE E == {n \in S : Dist(c, n) = x}
  <2>4. E \in SUBSET Nat /\ E # {}
    BY <1>1
  <2>5. PICK n \in E : \A m \in E : n <= m
    <3> HIDE DEF E
    <3> QED BY <2>4, LeastOf
  <2>6. ASSUME NEW m \in S PROVE Dist(c, n) < Dist(c, m) \/ (Dist(c, n) = Dist(c, m) /\ n <= m)
    <3>1. Dist(c, n) = x /\ x <= Dist(c, m) /\ Dist(c, m) \in Nat /\ x \in Nat
      BY <2>2, <2>3, <2>5
    <3>2. Dist(c, m) = x => n <= m
      BY <2>5
    <3> QED BY <3>1, <3>2
  <2>7. \E k \in S : Best(k)
    BY <2>5, <2>6
  <2>8. Nearest(S, c) = CHOOSE k \in S : Best(k)
    BY <1>3 DEF Nearest, Dist
  <2>9. Nearest(S, c) \in S /\ Best(Nearest(S, c))
    <3> HIDE DEF Best
    <3> QED BY <2>7, <2>8
  <2>10. \A m \in S : Dist(c, Nearest(S, c)) \in Nat /\ Dist(c, m) \in Nat
    BY <2>1, <2>9, Distances
  <2> QED BY <2>9, <2>10
<1> QED BY <1>2, <1>3

(* Two players' panel colours are never the same, and each is the nearest to their
   own or, for the second, far from the first. *)
LEMMA ColorsTellApart ==
  ASSUME NEW colors \in (0 .. Wheel) \X (0 .. Wheel) PROVE Distinguished(colors)
<1>1. DOMAIN PanelHues # {} /\ colors[1] \in 0 .. Wheel /\ colors[2] \in 0 .. Wheel
  BY ScoreAssumption
<1>2. PICK one \in DOMAIN PanelHues :
        /\ one = Nearest(DOMAIN PanelHues, colors[1])
        /\ colors[1] # Grey => \A m \in DOMAIN PanelHues : Dist(colors[1], one) <= Dist(colors[1], m)
  BY <1>1, NearestIs
<1>3. PICK two \in DOMAIN PanelHues :
        /\ two = Nearest(DOMAIN PanelHues, colors[2])
        /\ colors[2] # Grey => \A m \in DOMAIN PanelHues : Dist(colors[2], two) <= Dist(colors[2], m)
  BY <1>1, NearestIs
<1>4. \A n, m \in DOMAIN PanelHues : Apart(n, m) => Apart(m, n) /\ n # m
  <2>1. Wheel \in Nat \ {0} /\ \A n \in DOMAIN PanelHues : PanelHues[n] \in 0 .. Wheel - 1
    BY ScoreAssumption, Distances DEF Hue
  <2>2. ASSUME NEW a \in 0 .. Wheel - 1, NEW b \in 0 .. Wheel - 1
        PROVE  HueDistance(a, b) = HueDistance(b, a) /\ HueDistance(a, a) = 0
    BY <2>1 DEF HueDistance
  <2>3. ASSUME NEW n \in DOMAIN PanelHues, NEW m \in DOMAIN PanelHues, Apart(n, m)
        PROVE  Apart(m, n) /\ n # m
    <3>1. HueDistance(PanelHues[n], PanelHues[m]) = HueDistance(PanelHues[m], PanelHues[n])
          /\ HueDistance(PanelHues[n], PanelHues[n]) = 0
      BY <2>1, <2>2
    <3>2. ~ (4 * 0 >= Wheel)
      BY <2>1
    <3> QED BY <2>3, <3>1, <3>2 DEF Apart
  <2> QED BY <2>3
<1>5. PICK got : /\ PanelColors(colors) = <<one, got>> /\ got \in DOMAIN PanelHues /\ one # got
                 /\ got = two \/ Apart(one, got)
  <2>1. CASE two # one
    BY <1>2, <1>3, <2>1 DEF PanelColors
  <2>2. CASE two = one
    <3>1. {n \in DOMAIN PanelHues : Apart(n, one)} \in SUBSET DOMAIN PanelHues
          /\ {n \in DOMAIN PanelHues : Apart(n, one)} # {}
      BY PaletteAssumption
    <3>2. PICK far \in {n \in DOMAIN PanelHues : Apart(n, one)} :
            far = Nearest({n \in DOMAIN PanelHues : Apart(n, one)}, colors[2])
      BY <1>1, <3>1, NearestIs
    <3>3. far \in DOMAIN PanelHues /\ Apart(one, far) /\ one # far
      BY <1>4, <3>2
    <3>4. PanelColors(colors) = <<one, far>>
      BY <1>2, <1>3, <2>2, <3>2 DEF PanelColors
    <3> QED BY <3>3, <3>4
  <2> QED BY <2>1, <2>2
<1> QED BY <1>2, <1>3, <1>5 DEF Distinguished, Dist

-----------------------------------------------------------------------------
(* The ends of the table, and the halves of the panel. *)

\* The player at each end, and the colours the panel gives them.
Ends(b) == IF b.ends = <<>> THEN <<1, 2>> ELSE b.ends
Shades(b) == IF b.colors = <<>> THEN <<>> ELSE PanelColors(b.colors)
Turned(b) == FromTheLeft([b EXCEPT !.colors = IF @ = <<>> THEN <<>> ELSE PanelColors(@)])

(* Two colours are a pair on the panel too. *)
LEMMA ShadesArePairs ==
  ASSUME NEW b \in Board PROVE Shades(b) = <<>> \/ \E x, y \in DOMAIN PanelHues : Shades(b) = <<x, y>>
<1>1. CASE b.colors = <<>>
  BY <1>1 DEF Shades
<1>2. CASE b.colors # <<>>
  <2>1. b.colors \in (0 .. Wheel) \X (0 .. Wheel)
    BY <1>2 DEF Board
  <2>2. Distinguished(b.colors)
    BY <2>1, ColorsTellApart
  <2> QED BY <1>2, <2>2 DEF Shades, Distinguished, PanelColors
<1> QED BY <1>1, <1>2

\* A board turned so that `at` stands from left to right.
StandsAs(turned, b, at, shades) ==
  /\ \A half \in {1, 2} :
       /\ turned.points[half] = b.points[at[half]] /\ turned.sets[half] = b.sets[at[half]]
       /\ turned.names[half] = b.names[at[half]]
       /\ shades # <<>> => turned.colors[half] = shades[at[half]]
       /\ turned.serving = half <=> b.serving = at[half]
       /\ turned.winner = half <=> b.winner = at[half]
       /\ turned.last = half <=> b.last = at[half]
       /\ \A n \in DOMAIN b.played : turned.played[n][half] = b.played[n][at[half]]
  /\ turned.winner = 0 <=> b.winner = 0
  /\ turned.last \in 0 .. 2 /\ turned.winner \in 0 .. 2 /\ turned.serving \in 0 .. 2
  /\ turned.colors = <<>> <=> shades = <<>>
  /\ turned.played \in Seq(Int \X Int) /\ Len(turned.played) = Len(b.played)
  /\ \A half \in {1, 2} : turned.points[half] \in Int

(* The board that is drawn is the one read, with the players where they stand. *)
LEMMA TurnedStands == ASSUME NEW b \in Board PROVE StandsAs(Turned(b), b, Ends(b), Shades(b))
<1> DEFINE c == [b EXCEPT !.colors = Shades(b)]
<1>1. /\ b.points \in Int \X Int /\ b.sets \in Int \X Int /\ b.names \in Texts \X Texts
      /\ b.serving \in 0 .. 2 /\ b.winner \in 0 .. 2 /\ b.last \in 0 .. 2
      /\ b.played \in Seq(Int \X Int) /\ b.ends \in {<<>>, <<1, 2>>, <<2, 1>>}
  BY DEF Board
<1>2. /\ c.points = b.points /\ c.sets = b.sets /\ c.names = b.names /\ c.serving = b.serving
      /\ c.winner = b.winner /\ c.last = b.last /\ c.played = b.played /\ c.ends = b.ends
      /\ c.colors = Shades(b)
      /\ DOMAIN c = {"points", "sets", "set_number", "serving", "winner", "last", "names", "banner",
                     "source", "played", "colors", "best_of", "to", "ends"}
  BY DEF Board
<1>3. Turned(b) = FromTheLeft(c)
  BY DEF Turned, Shades
<1> HIDE DEF c
<1>4. CASE b.ends # <<2, 1>>
  <2>1. FromTheLeft(c) = c
    BY <1>2, <1>4 DEF FromTheLeft
  <2>2. Ends(b) = <<1, 2>>
    BY <1>1, <1>4 DEF Ends
  <2>3. /\ c.points[1] \in Int /\ c.points[2] \in Int
    BY <1>1, <1>2
  <2> QED BY <1>1, <1>2, <1>3, <2>1, <2>2, <2>3 DEF StandsAs
<1>5. CASE b.ends = <<2, 1>>
  <2> DEFINE d == FromTheLeft(c)
  <2>1. /\ d.points = <<b.points[2], b.points[1]>> /\ d.sets = <<b.sets[2], b.sets[1]>>
        /\ d.names = <<b.names[2], b.names[1]>>
        /\ d.serving = Other(b.serving) /\ d.winner = Other(b.winner) /\ d.last = Other(b.last)
        /\ d.colors = IF Shades(b) = <<>> THEN Shades(b) ELSE <<Shades(b)[2], Shades(b)[1]>>
        /\ d.played = [n \in DOMAIN b.played |-> <<b.played[n][2], b.played[n][1]>>]
    BY <1>2, <1>5 DEF FromTheLeft, Swapped
  <2> HIDE DEF d
  <2>2. Ends(b)[1] = 2 /\ Ends(b)[2] = 1
    BY <1>5 DEF Ends
  <2>3. \A half \in {1, 2} :
          /\ d.points[half] = b.points[Ends(b)[half]] /\ d.sets[half] = b.sets[Ends(b)[half]]
          /\ d.names[half] = b.names[Ends(b)[half]]
          /\ \A n \in DOMAIN b.played : d.played[n][half] = b.played[n][Ends(b)[half]]
    BY <2>1, <2>2
  <2>4. \A half \in {1, 2} : Shades(b) # <<>> => d.colors[half] = Shades(b)[Ends(b)[half]]
    BY <2>1, <2>2
  <2>5. \A half \in {1, 2}, s \in 0 .. 2 : Other(s) = half <=> s = Ends(b)[half]
    BY <2>2 DEF Other
  <2>6. \A s \in 0 .. 2 : Other(s) \in 0 .. 2 /\ (Other(s) = 0 <=> s = 0)
    BY DEF Other
  <2>7. d.colors = <<>> <=> Shades(b) = <<>>
    BY <2>1
  <2>8. d.played \in Seq(Int \X Int) /\ Len(d.played) = Len(b.played)
    <3>1. \A n \in DOMAIN b.played : b.played[n] \in Int \X Int
      BY <1>1
    <3>2. \A n \in DOMAIN b.played : <<b.played[n][2], b.played[n][1]>> \in Int \X Int
      BY <3>1
    <3>3. Len(b.played) \in Nat /\ DOMAIN b.played = 1 .. Len(b.played)
      BY <1>1
    <3> QED BY <2>1, <3>2, <3>3
  <2>9. \A half \in {1, 2} : d.points[half] \in Int
    BY <1>1, <2>1
  <2>10. \A half \in {1, 2} :
           /\ d.serving = half <=> b.serving = Ends(b)[half]
           /\ d.winner = half <=> b.winner = Ends(b)[half]
           /\ d.last = half <=> b.last = Ends(b)[half]
    BY <1>1, <2>1, <2>5
  <2>11. (d.winner = 0 <=> b.winner = 0) /\ d.last \in 0 .. 2 /\ d.winner \in 0 .. 2 /\ d.serving \in 0 .. 2
    BY <1>1, <2>1, <2>6
  <2>12. StandsAs(d, b, Ends(b), Shades(b))
    BY <2>3, <2>4, <2>7, <2>8, <2>9, <2>10, <2>11 DEF StandsAs
  <2> QED BY <1>3, <2>12 DEF d
<1> QED BY <1>4, <1>5

(* The latest sets of two lists of the same length are the same of both. *)
LEMMA RecentOfBoth ==
  ASSUME NEW S, NEW t \in Seq(S), NEW b \in Seq(S), Len(t) = Len(b)
  PROVE  \A n \in DOMAIN Recent(b) : \E m \in DOMAIN b : Recent(b)[n] = b[m] /\ Recent(t)[n] = t[m]
<1>1. PICK len \in Nat : len = Len(b)
  OBVIOUS
<1>2. DOMAIN b = 1 .. len /\ DOMAIN t = 1 .. len
  BY <1>1
<1>3. CASE len <= 3
  BY <1>1, <1>2, <1>3 DEF Recent, MaxPlayed
<1>4. CASE ~ (len <= 3)
  <2> DEFINE k == len - 2
  <2>1. Recent(b) = SubSeq(b, k, len) /\ Recent(t) = SubSeq(t, k, len)
    BY <1>1, <1>4, len - 3 + 1 = k DEF Recent, MaxPlayed
  <2>2. k \in Nat /\ k >= 1 /\ len - k + 1 = 3
    BY <1>1, <1>4
  <2>3. /\ SubSeq(b, k, len) = [n \in 1 .. (len - k + 1) |-> b[k + n - 1]]
        /\ SubSeq(t, k, len) = [n \in 1 .. (len - k + 1) |-> t[k + n - 1]]
    BY <1>1, <2>2
  <2>4. \A n \in 1 .. 3 : k + n - 1 \in 1 .. len
    BY <1>1, <2>2
  <2> HIDE DEF k
  <2> QED BY <1>2, <2>1, <2>2, <2>3, <2>4
<1> QED BY <1>3, <1>4

(* Each half of a board that is drawn is the player's at that end. *)
LEMMA DrawnHalves == ASSUME NEW b \in Board PROVE HalvesArePlayers(Render(b), b)
<1> DEFINE t == Turned(b)
           at == Ends(b)
           shades == Shades(b)
           drawn == Render(b)
<1>1. StandsAs(t, b, at, shades)
  BY TurnedStands
<1>2. /\ \A half \in {1, 2} :
           /\ drawn.number[half].value = t.points[half]
           /\ drawn.number[half].color = IF t.winner = 0 THEN ColorScore
                                         ELSE IF t.winner = half THEN ColorWon ELSE ColorFaint
           /\ drawn.name[half].text = t.names[half]
           /\ t.colors # <<>> => drawn.name[half].color = t.colors[half]
      /\ drawn.sets = t.sets
      /\ drawn.marker = (IF t.winner = 0 THEN t.serving ELSE 0)
      /\ drawn.played = Recent(t.played)
      /\ drawn.row.said = "+1" => /\ t.last # 0 /\ drawn.row.text = t.names[t.last]
                                  /\ t.colors # <<>> => drawn.row.color = t.colors[t.last]
  BY DEF Render, Turned
<1>3. /\ b.winner \in 0 .. 2 /\ b.serving \in 0 .. 2 /\ b.last \in 0 .. 2 /\ b.played \in Seq(Int \X Int)
      /\ \A half \in {1, 2} : at[half] \in {1, 2}
  BY DEF Board, Ends
<1>4. shades = (IF b.colors = <<>> THEN <<>> ELSE PanelColors(b.colors))
      /\ at = (IF b.ends = <<>> THEN <<1, 2>> ELSE b.ends)
      /\ (b.colors # <<>> => PanelColors(b.colors) # <<>>)
  BY DEF Shades, Ends, PanelColors
<1> HIDE DEF t, at, shades, drawn
<1>5. ASSUME NEW half \in {1, 2}
      PROVE  /\ drawn.number[half].value = b.points[at[half]]
             /\ drawn.sets[half] = b.sets[at[half]]
             /\ drawn.name[half].text = b.names[at[half]]
             /\ shades # <<>> => drawn.name[half].color = shades[at[half]]
             /\ drawn.number[half].color = ColorWon <=> b.winner = at[half]
             /\ drawn.marker = half <=> b.serving = at[half] /\ b.winner = 0
             /\ \A n \in DOMAIN Recent(b.played) : drawn.played[n][half] = Recent(b.played)[n][at[half]]
  <2>1. /\ drawn.number[half].value = b.points[at[half]] /\ drawn.sets[half] = b.sets[at[half]]
        /\ drawn.name[half].text = b.names[at[half]]
        /\ shades # <<>> => drawn.name[half].color = shades[at[half]]
    BY <1>1, <1>2 DEF StandsAs
  <2>2. (t.winner = half <=> b.winner = at[half]) /\ (t.winner = 0 <=> b.winner = 0)
        /\ (t.serving = half <=> b.serving = at[half])
    BY <1>1 DEF StandsAs
  <2>3. drawn.number[half].color = ColorWon <=> b.winner = at[half]
    BY <1>2, <1>3, <2>2 DEF ColorScore, ColorWon, ColorFaint
  <2>4. drawn.marker = half <=> b.serving = at[half] /\ b.winner = 0
    BY <1>2, <2>2
  <2>5. \A n \in DOMAIN b.played : t.played[n][half] = b.played[n][at[half]]
    BY <1>1 DEF StandsAs
  <2>6. t.played \in Seq(Int \X Int) /\ Len(t.played) = Len(b.played)
    BY <1>1 DEF StandsAs
  <2>7. \A n \in DOMAIN Recent(b.played) : drawn.played[n][half] = Recent(b.played)[n][at[half]]
    <3>1. at[half] \in {1, 2}
      BY <1>3
    <3>2. \A n \in DOMAIN Recent(b.played) : Recent(t.played)[n][half] = Recent(b.played)[n][at[half]]
      <4> DEFINE S == Int \X Int
      <4>1. b.played \in Seq(S) /\ t.played \in Seq(S) /\ Len(t.played) = Len(b.played)
        BY <1>3, <2>6
      <4> HIDE DEF S
      <4>2. \A n \in DOMAIN Recent(b.played) : \E m \in DOMAIN b.played :
              Recent(b.played)[n] = b.played[m] /\ Recent(t.played)[n] = t.played[m]
        BY <4>1, RecentOfBoth
      <4> QED BY <2>5, <4>2
    <3> QED BY <1>2, <3>2
  <2> QED BY <2>1, <2>3, <2>4, <2>7
<1>6. drawn.row.said = "+1" =>
        \E half \in {1, 2} : /\ at[half] = b.last
                             /\ drawn.row.text = drawn.name[half].text
                             /\ shades # <<>> => drawn.row.color = drawn.name[half].color
  <2>1. SUFFICES ASSUME drawn.row.said = "+1"
                 PROVE  \E half \in {1, 2} : /\ at[half] = b.last
                                             /\ drawn.row.text = drawn.name[half].text
                                             /\ shades # <<>> => drawn.row.color = drawn.name[half].color
    OBVIOUS
  <2>2. t.last \in 0 .. 2 /\ t.last # 0
    BY <1>1, <1>2, <2>1 DEF StandsAs
  <2>3. t.last \in {1, 2}
    BY <2>2
  <2>4. at[t.last] = b.last
    BY <1>1, <2>3 DEF StandsAs
  <2>5. shades # <<>> => t.colors # <<>>
    BY <1>1 DEF StandsAs
  <2> QED BY <1>2, <2>1, <2>3, <2>4, <2>5
<1> QED BY <1>4, <1>5, <1>6 DEF HalvesArePlayers, at, shades, drawn

(* Points of two characters are on the panel, clear of its middle, and no others. *)
LEMMA DrawnFits ==
  ASSUME NEW b \in Board, NEW half \in {1, 2}
  PROVE  HasRoom(Render(b).number[half]) <=> Render(b).number[half].value \in -9 .. 99
<1> DEFINE value == Turned(b).points[half]
           drawn == Render(b).number[half]
<1>1. value \in Int
  BY TurnedStands DEF StandsAs
<1>2. /\ drawn.value = value
      /\ drawn.from = (IF half = 1 THEN LeftEdge - NumberWidth(Turned(b).points[1]) + 1 ELSE RightStart)
      /\ drawn.to = (IF half = 1 THEN LeftEdge ELSE RightStart + NumberWidth(Turned(b).points[2]) - 1)
  BY DEF Render, Turned
<1> HIDE DEF drawn
<1>3. NumberWidth(value) \in {12, 26, 40, 54}
  BY <1>1 DEF NumberWidth, Characters, Digits
<1>4. NumberWidth(value) \in {12, 26} <=> value \in -9 .. 99
  BY <1>1 DEF NumberWidth, Characters, Digits
<1>5. /\ drawn.from = (IF half = 1 THEN LeftEdge - NumberWidth(value) + 1 ELSE RightStart)
      /\ drawn.to = (IF half = 1 THEN LeftEdge ELSE RightStart + NumberWidth(value) - 1)
  BY <1>2
<1> DEFINE width == NumberWidth(value)
<1> HIDE DEF value
<1>6. HasRoom(drawn) <=> width \in {12, 26}
  <2>1. width \in {12, 26, 40, 54}
    BY <1>3
  <2>2. /\ drawn.from = (IF half = 1 THEN LeftEdge - width + 1 ELSE RightStart)
        /\ drawn.to = (IF half = 1 THEN LeftEdge ELSE RightStart + width - 1)
    BY <1>5
  <2> HIDE DEF width
  <2>3. CASE half = 1
    <3>1. drawn.from = 28 - width /\ drawn.to = 27
      BY <2>1, <2>2, <2>3 DEF LeftEdge
    <3> QED BY <2>1, <3>1 DEF HasRoom
  <2>4. CASE half = 2
    <3>1. drawn.from = 36 /\ drawn.to = 35 + width
      BY <2>1, <2>2, <2>4 DEF RightStart
    <3> QED BY <2>1, <3>1 DEF HasRoom
  <2> QED BY <2>3, <2>4
<1> QED BY <1>2, <1>4, <1>6 DEF drawn

-----------------------------------------------------------------------------
(* What Pairs keeps of a list, counted from its beginning. *)
Sets == Int \X Int
Counts(upTo, raw, k) ==
  upTo = [n \in 0 .. k |-> IF n = 0 THEN <<>>
                           ELSE IF Pair(raw[n]) = <<>> THEN upTo[n - 1] ELSE Append(upTo[n - 1], raw[n])]

(* A claim about every number up to k that holds of each as soon as it holds of
   those below. *)
LEMMA UpTo ==
  ASSUME NEW k \in Nat, NEW holds \in SUBSET (0 .. k),
         0 \in holds, \A n \in 1 .. k : n - 1 \in holds => n \in holds
  PROVE  \A n \in 0 .. k : n \in holds
<1>1. SUFFICES ASSUME (0 .. k) \ holds # {} PROVE FALSE
  OBVIOUS
<1>2. PICK n \in (0 .. k) \ holds : \A m \in (0 .. k) \ holds : n <= m
  <2> DEFINE rest == (0 .. k) \ holds
  <2>1. rest \in SUBSET Nat /\ rest # {}
    BY <1>1
  <2> HIDE DEF rest
  <2>2. \E n \in rest : \A m \in rest : n <= m
    BY <2>1, LeastOf
  <2> QED BY <2>2 DEF rest
<1>3. n \in 1 .. k /\ n - 1 \in 0 .. k /\ ~ (n <= n - 1)
  BY <1>2
<1> QED BY <1>2, <1>3

(* A list of numbers is a set when there are two of them. *)
LEMMA PairOfSet ==
  /\ \A p \in Seq(Int) : Pair(p) = <<>> \/ (p \in Sets /\ Pair(p) = p)
  /\ \A p \in Sets : p # <<>> /\ Pair(p) = p
<1>1. ASSUME NEW p \in Seq(Int), Len(p) = 2 PROVE p \in Sets
  <2>1. DOMAIN p = 1 .. 2 /\ p[1] \in Int /\ p[2] \in Int
    BY <1>1
  <2>2. p = <<p[1], p[2]>>
    BY <1>1, <2>1
  <2> QED BY <2>1, <2>2 DEF Sets
<1>2. \A p \in Sets : Len(p) = 2
  BY DEF Sets
<1> QED BY <1>1, <1>2 DEF Pair

(* A count is what the one before it is, with the next set or without. *)
LEMMA CountStep ==
  ASSUME NEW raw, NEW k \in Nat, NEW upTo, Counts(upTo, raw, k)
  PROVE  /\ upTo[0] = <<>>
         /\ \A n \in 1 .. k :
              upTo[n] = IF Pair(raw[n]) = <<>> THEN upTo[n - 1] ELSE Append(upTo[n - 1], raw[n])
<1> DEFINE Step(n) == IF n = 0 THEN <<>>
                      ELSE IF Pair(raw[n]) = <<>> THEN upTo[n - 1] ELSE Append(upTo[n - 1], raw[n])
           f == [n \in 0 .. k |-> Step(n)]
<1>1. upTo = f
  BY DEF Counts
<1> HIDE DEF Step
<1>2. \A n \in 0 .. k : f[n] = Step(n)
  OBVIOUS
<1> HIDE DEF f
<1>3. \A n \in 0 .. k : upTo[n] = Step(n)
  BY <1>1, <1>2
<1>4. \A n \in 1 .. k : upTo[n] = Step(n) /\ n # 0
  BY <1>3
<1> QED BY <1>3, <1>4 DEF Step

(* The count exists, whatever the list. *)
LEMMA CountExists ==
  ASSUME NEW raw, NEW k \in Nat PROVE \E upTo : Counts(upTo, raw, k)
<1> DEFINE holds == {n \in 0 .. k : \E upTo : Counts(upTo, raw, n)}
<1>1. 0 \in holds
  <2>1. Counts([n \in 0 .. 0 |-> <<>>], raw, 0)
    BY DEF Counts
  <2> QED BY <2>1
<1>2. ASSUME NEW m \in 1 .. k, m - 1 \in holds PROVE m \in holds
  <2>1. PICK below : Counts(below, raw, m - 1)
    BY <1>2
  <2> DEFINE Step(n, f) == IF n = 0 THEN <<>>
                           ELSE IF Pair(raw[n]) = <<>> THEN f[n - 1] ELSE Append(f[n - 1], raw[n])
             upTo == [n \in 0 .. m |-> Step(n, below)]
  <2>2. below = [n \in 0 .. (m - 1) |-> Step(n, below)]
    BY <2>1 DEF Counts
  <2> HIDE DEF Step
  <2>3. \A n \in 0 .. (m - 1) : upTo[n] = below[n]
    BY <2>2
  <2>4. \A n \in 0 .. m : Step(n, below) = Step(n, upTo)
    <3>1. Step(0, below) = Step(0, upTo)
      BY DEF Step
    <3>2. ASSUME NEW n \in 1 .. m PROVE Step(n, below) = Step(n, upTo)
      <4>1. upTo[n - 1] = below[n - 1]
        BY <2>3
      <4> HIDE DEF upTo
      <4> QED BY <4>1 DEF Step
    <3> QED BY <3>1, <3>2
  <2>5. upTo = [n \in 0 .. m |-> Step(n, upTo)]
    BY <2>4
  <2>6. Counts(upTo, raw, m)
    <3> HIDE DEF upTo
    <3> QED BY <2>5 DEF Counts, Step
  <2> QED BY <2>6
<1> HIDE DEF holds
<1>3. holds \in SUBSET (0 .. k)
  BY DEF holds
<1>4. k \in holds
  BY <1>1, <1>2, <1>3, UpTo
<1> QED BY <1>4 DEF holds

(* Pairs is the last of a count. *)
LEMMA PairsIs ==
  ASSUME NEW raw, Len(raw) \in Nat
  PROVE  \E upTo : Counts(upTo, raw, Len(raw)) /\ Pairs(raw) = upTo[Len(raw)]
<1>1. PICK any : Counts(any, raw, Len(raw))
  BY CountExists
<1>2. Pairs(raw) = (CHOOSE upTo : Counts(upTo, raw, Len(raw)))[Len(raw)]
  BY DEF Pairs, Counts
<1> QED BY <1>1, <1>2

(* What Pairs keeps are sets. *)
LEMMA PairsAreSets == ASSUME NEW raw \in Seq(Seq(Int)) PROVE Pairs(raw) \in Seq(Sets)
<1>1. PICK k \in Nat : k = Len(raw) /\ DOMAIN raw = 1 .. k
  OBVIOUS
<1>2. PICK upTo : Counts(upTo, raw, k) /\ Pairs(raw) = upTo[k]
  BY <1>1, PairsIs
<1> DEFINE holds == {n \in 0 .. k : upTo[n] \in Seq(Sets)}
<1>3. 0 \in holds
  <2>1. upTo[0] = <<>> /\ <<>> \in Seq(Sets) /\ 0 \in 0 .. k
    BY <1>1, <1>2, CountStep
  <2> QED BY <2>1
<1>4. ASSUME NEW n \in 1 .. k, n - 1 \in holds PROVE n \in holds
  <2>1. upTo[n] = (IF Pair(raw[n]) = <<>> THEN upTo[n - 1] ELSE Append(upTo[n - 1], raw[n]))
    BY <1>2, CountStep
  <2>2. raw[n] \in Seq(Int)
    BY <1>1
  <2>3. upTo[n - 1] \in Seq(Sets)
    BY <1>4
  <2>4. upTo[n] \in Seq(Sets)
    BY <2>1, <2>2, <2>3, PairOfSet
  <2> QED BY <2>4
<1>5. k \in holds
  <2>1. holds \in SUBSET (0 .. k)
    OBVIOUS
  <2> HIDE DEF holds
  <2>2. \A n \in 0 .. k : n \in holds
    BY <1>1, <1>3, <1>4, <2>1, UpTo
  <2> QED BY <1>1, <2>2
<1> QED BY <1>2, <1>5

(* Of sets Pairs keeps each. *)
LEMMA PairsOfSets == ASSUME NEW raw \in Seq(Sets) PROVE Pairs(raw) = raw
<1>1. PICK k \in Nat : k = Len(raw) /\ DOMAIN raw = 1 .. k
  OBVIOUS
<1>2. PICK upTo : Counts(upTo, raw, k) /\ Pairs(raw) = upTo[k]
  BY <1>1, PairsIs
<1> DEFINE holds == {n \in 0 .. k : upTo[n] = SubSeq(raw, 1, n)}
<1>3. 0 \in holds
  <2>1. upTo[0] = <<>> /\ 0 \in 0 .. k
    BY <1>1, <1>2, CountStep
  <2>2. SubSeq(raw, 1, 0) = <<>>
    BY <1>1
  <2> QED BY <2>1, <2>2
<1>4. ASSUME NEW n \in 1 .. k, n - 1 \in holds PROVE n \in holds
  <2>1. upTo[n] = (IF Pair(raw[n]) = <<>> THEN upTo[n - 1] ELSE Append(upTo[n - 1], raw[n]))
    BY <1>2, CountStep
  <2>2. raw[n] \in Sets
    BY <1>1
  <2>3. upTo[n] = Append(SubSeq(raw, 1, n - 1), raw[n])
    BY <1>4, <2>1, <2>2, PairOfSet
  <2>4. Append(SubSeq(raw, 1, n - 1), raw[n]) = SubSeq(raw, 1, n)
    BY <1>1
  <2>5. n \in 0 .. k
    OBVIOUS
  <2> QED BY <2>3, <2>4, <2>5
<1>5. k \in holds
  <2>1. holds \in SUBSET (0 .. k)
    OBVIOUS
  <2> HIDE DEF holds
  <2>2. \A n \in 0 .. k : n \in holds
    BY <1>1, <1>3, <1>4, <2>1, UpTo
  <2> QED BY <1>1, <2>2
<1>6. SubSeq(raw, 1, k) = raw
  BY <1>1
<1> QED BY <1>2, <1>5, <1>6

-----------------------------------------------------------------------------
(* The fields of a payload: parse_score and format_score. *)

(* A field is the last of its name, and there is one wherever there is any. *)
At(wire, key) == {n \in DOMAIN wire : Alias(wire[n][1]) = key}

(* The greatest of a set of numbers, when one is known to be. *)
LEMMA MaxIs ==
  ASSUME NEW S \in SUBSET Nat, NEW a \in S, \A x \in S : x <= a PROVE Max(S) = a
<1>1. \E x \in S : \A y \in S : x >= y
  OBVIOUS
<1>2. Max(S) \in S /\ \A y \in S : Max(S) >= y
  BY <1>1 DEF Max
<1>3. Max(S) \in Nat /\ a \in Nat /\ a <= Max(S) /\ Max(S) <= a
  BY <1>2
<1> HIDE DEF Max
<1> QED BY <1>3

(* Numbers up to k have a greatest. *)
LEMMA MaxExists ==
  ASSUME NEW k \in Nat, NEW S \in SUBSET (1 .. k), S # {} PROVE \E a \in S : \A x \in S : x <= a
<1> DEFINE Behind == {k - n : n \in S}
<1>1. Behind \in SUBSET Nat /\ Behind # {}
  <2>1. \A n \in S : k - n \in Nat
    OBVIOUS
  <2> QED BY <2>1
<1>2. PICK least \in Behind : \A y \in Behind : least <= y
  <2> HIDE DEF Behind
  <2> QED BY <1>1, LeastOf
<1>3. PICK a \in S : least = k - a
  BY <1>2
<1>4. \A x \in S : k - a <= k - x
  BY <1>2, <1>3
<1>5. \A x \in S : x <= a
  BY <1>4
<1> QED BY <1>5

(* A key that is named is named for the last time somewhere. *)
LEMMA LastOf ==
  ASSUME NEW wire \in Payload, NEW key, Has(wire, key)
  PROVE  \E n \in At(wire, key) : \A m \in At(wire, key) : m <= n
<1>1. PICK k \in Nat : k = Len(wire) /\ DOMAIN wire = 1 .. k
  BY DEF Payload
<1>2. At(wire, key) \in SUBSET (1 .. k) /\ At(wire, key) # {}
  BY <1>1 DEF At, Has
<1> QED BY <1>2, MaxExists

(* That is where the field is read. *)
LEMMA FieldIs ==
  ASSUME NEW wire \in Payload, NEW key, NEW default, NEW n \in At(wire, key),
         \A m \in At(wire, key) : m <= n
  PROVE  Has(wire, key) /\ Field(wire, key, default) = wire[n][2]
<1>1. Has(wire, key)
  BY DEF At, Has
<1>2. At(wire, key) \in SUBSET Nat
  BY DEF At, Payload
<1>3. Max(At(wire, key)) = n
  BY <1>2, MaxIs
<1> QED BY <1>1, <1>3 DEF Field, At

(* Of two payloads one after the other the second counts. *)
LEMMA FieldOfBoth ==
  ASSUME NEW s \in Payload, NEW t \in Payload, NEW key
  PROVE  /\ s \o t \in Payload
         /\ Has(s \o t, key) <=> Has(s, key) \/ Has(t, key)
         /\ \A default : Field(s \o t, key, default) =
              IF Has(t, key) THEN Field(t, key, default) ELSE Field(s, key, default)
<1>1. PICK k \in Nat : k = Len(s) /\ DOMAIN s = 1 .. k
  BY DEF Payload
<1>2. PICK l \in Nat : l = Len(t) /\ DOMAIN t = 1 .. l
  BY DEF Payload
<1>3. PICK both \in Payload :
        /\ both = s \o t /\ DOMAIN both = 1 .. k + l
        /\ \A n \in 1 .. k : both[n] = s[n]
        /\ \A n \in 1 .. l : both[k + n] = t[n]
  <2>1. s \in Seq(Fields) /\ t \in Seq(Fields)
    BY DEF Payload
  <2>2. s \o t \in Seq(Fields) /\ Len(s \o t) = k + l
    BY <1>1, <1>2, <2>1
  <2>3. DOMAIN (s \o t) = 1 .. k + l
    BY <2>2
  <2>4. \A n \in 1 .. k : (s \o t)[n] = s[n]
    BY <1>1, <1>2, <2>1
  <2>5. \A n \in 1 .. l : (s \o t)[k + n] = t[n]
    BY <1>1, <1>2, <2>1
  <2> QED BY <2>2, <2>3, <2>4, <2>5 DEF Payload
<1>4. \A n \in 1 .. k + l : n \in 1 .. k \/ (n - k \in 1 .. l /\ k + (n - k) = n)
  BY <1>1, <1>2
<1>5. /\ At(s, key) \in SUBSET (1 .. k) /\ At(t, key) \in SUBSET (1 .. l)
      /\ At(both, key) = At(s, key) \cup {k + n : n \in At(t, key)}
  <2>1. At(s, key) \in SUBSET (1 .. k) /\ At(t, key) \in SUBSET (1 .. l)
    BY <1>1, <1>2 DEF At
  <2>2. ASSUME NEW n \in At(both, key) PROVE n \in At(s, key) \cup {k + m : m \in At(t, key)}
    <3>1. n \in 1 .. k + l /\ Alias(both[n][1]) = key
      BY <1>3 DEF At
    <3>2. CASE n \in 1 .. k
      BY <1>1, <1>3, <3>1, <3>2 DEF At
    <3>3. CASE n \notin 1 .. k
      <4>1. PICK m \in 1 .. l : n = k + m
        BY <1>1, <1>2, <1>4, <3>1, <3>3
      <4>2. m \in At(t, key)
        BY <1>2, <1>3, <3>1, <4>1 DEF At
      <4> QED BY <4>1, <4>2
    <3> QED BY <3>2, <3>3
  <2>3. ASSUME NEW n \in At(s, key) PROVE n \in At(both, key)
    <3>1. n \in 1 .. k /\ n \in 1 .. k + l /\ Alias(s[n][1]) = key
      BY <1>1, <1>2, <2>1 DEF At
    <3> QED BY <1>3, <3>1 DEF At
  <2>4. ASSUME NEW n \in At(t, key) PROVE k + n \in At(both, key)
    <3>1. n \in 1 .. l /\ k + n \in 1 .. k + l /\ Alias(t[n][1]) = key
      BY <1>1, <1>2, <2>1 DEF At
    <3> QED BY <1>3, <3>1 DEF At
  <2> QED BY <2>1, <2>2, <2>3, <2>4
<1>6. Has(both, key) <=> Has(s, key) \/ Has(t, key)
  <2>1. \A w : Has(w, key) <=> At(w, key) # {}
    BY DEF Has, At
  <2> QED BY <1>5, <2>1
<1>7. ASSUME NEW default
      PROVE  Field(both, key, default) = IF Has(t, key) THEN Field(t, key, default) ELSE Field(s, key, default)
  <2>1. CASE Has(t, key)
    <3>1. PICK n \in At(t, key) : \A m \in At(t, key) : m <= n
      BY <2>1, LastOf
    <3>2. n \in 1 .. l
      BY <1>5
    <3>3. k + n \in At(both, key)
      BY <1>5
    <3>4. \A m \in At(s, key) : m <= k + n
      BY <1>1, <1>5, <3>2
    <3>5. \A m \in At(t, key) : k + m <= k + n
      BY <1>1, <1>2, <1>5, <3>1, <3>2
    <3>6. \A m \in At(both, key) : m <= k + n
      BY <1>5, <3>4, <3>5
    <3>7. Field(both, key, default) = both[k + n][2] /\ Field(t, key, default) = t[n][2]
      BY <3>1, <3>3, <3>6, FieldIs
    <3> QED BY <1>3, <2>1, <3>2, <3>7
  <2>2. CASE ~ Has(t, key)
    <3>1. At(both, key) = At(s, key)
      BY <1>5, <2>2 DEF Has, At
    <3>2. CASE Has(s, key)
      <4>1. PICK n \in At(s, key) : \A m \in At(s, key) : m <= n
        BY <3>2, LastOf
      <4>2. Field(both, key, default) = both[n][2] /\ Field(s, key, default) = s[n][2] /\ n \in 1 .. k
        BY <1>5, <3>1, <4>1, FieldIs
      <4> QED BY <1>3, <2>2, <4>2
    <3>3. CASE ~ Has(s, key)
      BY <1>6, <2>2, <3>3 DEF Field
    <3> QED BY <3>2, <3>3
  <2> QED BY <2>1, <2>2
<1> QED BY <1>3, <1>6, <1>7

\* The values a field of a name can have.
Values(key) == CASE key \in {"points", "sets", "set", "best_of", "to"} -> Seq(Int)
                 [] key = "played" -> Seq(Seq(Int))
                 [] key \in {"a", "b", "banner", "source"} -> Texts
                 [] key \in {"color_a", "color_b"} -> -1 .. Wheel
                 [] key = "ends" -> Seq(Texts)
                 [] key \in {"serve", "winner", "last", "transition", "side"} -> Texts

(* A field has a value of its kind, or is not there. *)
LEMMA FieldValues ==
  ASSUME NEW wire \in Payload, NEW key, NEW default
  PROVE  IF Has(wire, key) THEN Field(wire, key, default) \in Values(key)
                           ELSE Field(wire, key, default) = default
<1>1. ASSUME NEW entry \in Fields PROVE entry[2] \in Values(Alias(entry[1]))
  <2>1. CASE entry \in {"points", "sets", "set", "best_of", "to"} \X Seq(Int)
    BY <2>1 DEF Values, Alias
  <2>2. CASE entry \in {"played"} \X Seq(Seq(Int))
    BY <2>2 DEF Values, Alias
  <2>3. CASE entry \in {"a", "b", "player_a", "player_b", "banner", "source"} \X Texts
    BY <2>3 DEF Values, Alias
  <2>4. CASE entry \in {"color_a", "color_b"} \X (-1 .. Wheel)
    BY <2>4 DEF Values, Alias
  <2>5. CASE entry \in {"ends"} \X Seq(Texts)
    BY <2>5 DEF Values, Alias
  <2>6. CASE entry \in {"serve", "winner", "last", "transition", "side"} \X Texts
    BY <2>6 DEF Values, Alias
  <2> QED BY <2>1, <2>2, <2>3, <2>4, <2>5, <2>6 DEF Fields
<1>2. CASE Has(wire, key)
  <2>1. PICK n \in At(wire, key) : \A m \in At(wire, key) : m <= n
    BY <1>2, LastOf
  <2>2. Field(wire, key, default) = wire[n][2]
    BY <2>1, FieldIs
  <2>3. wire[n] \in Fields /\ Alias(wire[n][1]) = key
    BY DEF At, Payload
  <2> QED BY <1>1, <1>2, <2>2, <2>3
<1>3. CASE ~ Has(wire, key)
  BY <1>3 DEF Field
<1> QED BY <1>2, <1>3

\* What a name and a line of text are once read: they are read again as they are.
IsName(t) == t \in Texts /\ Strip[t] \in Texts /\ Strip[t] # NoText /\ Cut[Upper[Strip[t]]] = Strip[t]
IsLine(t) == t \in Texts /\ Strip[t] = t /\ Upper[t] = t

(* Names and lines are in capitals, cut, and not empty where they must not be. *)
LEMMA TextsRead ==
  ASSUME NEW wire \in Payload
  PROVE  /\ \A key \in {"a", "b"}, default \in {"A", "B"} : IsName(Name(wire, key, default))
         /\ \A key \in {"banner", "source"} : IsLine(Upper[Said(wire, key)])
<1>1. \A t \in Texts : Strip[t] \in Texts /\ Upper[t] \in Texts /\ Cut[t] \in Texts
  BY ScoreAssumption
<1>2. \A key \in {"a", "b", "banner", "source"} : Said(wire, key) \in Texts /\ Strip[Said(wire, key)] = Said(wire, key)
  <2>1. ASSUME NEW key \in {"a", "b", "banner", "source"} PROVE Field(wire, key, NoText) \in Texts
    <3>1. Values(key) = Texts
      BY DEF Values
    <3> QED BY <3>1, FieldValues, ScoreAssumption
  <2> QED BY <1>1, <2>1, TextAssumption DEF Said
<1>3. ASSUME NEW key \in {"a", "b"}, NEW default \in {"A", "B"} PROVE IsName(Name(wire, key, default))
  <2> DEFINE t == IF Said(wire, key) = NoText THEN default ELSE Said(wire, key)
  <2>1. t \in Texts /\ Strip[t] = t /\ t # NoText
    BY <1>2, TextAssumption
  <2>2. Name(wire, key, default) = Cut[Upper[t]]
    BY DEF Name
  <2> HIDE DEF t
  <2>3. Strip[Cut[Upper[t]]] # NoText /\ Cut[Upper[Strip[Cut[Upper[t]]]]] = Strip[Cut[Upper[t]]]
    BY <2>1, TextAssumption
  <2> QED BY <1>1, <2>1, <2>2, <2>3 DEF IsName
<1>4. ASSUME NEW key \in {"banner", "source"} PROVE IsLine(Upper[Said(wire, key)])
  <2> DEFINE t == Said(wire, key)
  <2>1. t \in Texts /\ Strip[t] = t
    BY <1>2
  <2> HIDE DEF t
  <2>2. Upper[Upper[t]] = Upper[t] /\ Strip[Upper[Strip[t]]] = Upper[Strip[t]] /\ Upper[t] \in Texts
    BY <1>1, <2>1, TextAssumption
  <2>3. IsLine(Upper[t])
    BY <2>1, <2>2 DEF IsLine
  <2> QED BY <2>3 DEF t
<1> QED BY <1>3, <1>4

\* A board that was read from a payload.
ReadBoard(b) ==
  /\ b \in Board
  /\ IsName(b.names[1]) /\ IsName(b.names[2]) /\ IsLine(b.banner) /\ IsLine(b.source)

(* What is read from a payload with points is a board (score.py:262). *)
LEMMA ParsedIsBoard == ASSUME NEW wire \in Payload, IsBoard(wire) PROVE ReadBoard(Parse(wire))
<1> DEFINE b == Parse(wire)
<1>1. \A p \in Seq(Int) : Pair(p) = <<>> \/ Pair(p) \in Int \X Int
  BY PairOfSet DEF Sets
<1>2. ASSUME NEW key \in {"points", "sets", "set", "best_of", "to"}, NEW default \in Seq(Int)
      PROVE  Field(wire, key, default) \in Seq(Int)
  <2>1. Values(key) = Seq(Int)
    BY DEF Values
  <2> QED BY <2>1, FieldValues
<1> <<>> \in Seq(Int) /\ <<1>> \in Seq(Int) /\ <<>> \in Seq(Seq(Int)) /\ <<>> \in Seq(Texts)
  OBVIOUS
<1>3. b.points \in Int \X Int
  <2>1. b.points = Pair(Field(wire, "points", <<>>)) /\ b.points # <<>>
    BY DEF Parse, IsBoard
  <2>2. Field(wire, "points", <<>>) \in Seq(Int)
    BY <1>2
  <2> QED BY <1>1, <2>1, <2>2
<1>4. b.sets \in Int \X Int
  <2>1. b.sets = LET sets == Pair(Field(wire, "sets", <<>>)) IN IF sets = <<>> THEN <<0, 0>> ELSE sets
    BY DEF Parse
  <2>2. Field(wire, "sets", <<>>) \in Seq(Int)
    BY <1>2
  <2> QED BY <1>1, <2>1, <2>2
<1>5. b.set_number \in Int
  <2>1. b.set_number = LET set == Field(wire, "set", <<1>>) IN IF Len(set) = 1 THEN set[1] ELSE 1
    BY DEF Parse
  <2>2. Field(wire, "set", <<1>>) \in Seq(Int)
    BY <1>2
  <2> QED BY <2>1, <2>2
<1>6. b.serving \in 0 .. 2 /\ b.winner \in 0 .. 2 /\ b.last \in 0 .. 2
  <2>1. \A raw : Side(raw) \in 0 .. 2
    BY DEF Side
  <2> QED BY <2>1 DEF Parse
<1>7. IsName(b.names[1]) /\ IsName(b.names[2]) /\ b.names \in Texts \X Texts
  <2>1. b.names = <<Name(wire, "a", "A"), Name(wire, "b", "B")>>
    BY DEF Parse
  <2>2. IsName(Name(wire, "a", "A")) /\ IsName(Name(wire, "b", "B"))
    BY TextsRead
  <2> QED BY <2>1, <2>2 DEF IsName
<1>8. IsLine(b.banner) /\ IsLine(b.source) /\ b.banner \in Texts /\ b.source \in Texts
  <2>1. b.banner = Upper[Said(wire, "banner")] /\ b.source = Upper[Said(wire, "source")]
    BY DEF Parse
  <2> QED BY <2>1, TextsRead DEF IsLine
<1>9. b.played \in Seq(Int \X Int)
  <2>1. b.played = Pairs(Field(wire, "played", <<>>))
    BY DEF Parse
  <2>2. Values("played") = Seq(Seq(Int))
    BY DEF Values
  <2>3. Field(wire, "played", <<>>) \in Seq(Seq(Int))
    BY <2>2, FieldValues
  <2> QED BY <2>1, <2>3, PairsAreSets DEF Sets
<1>10. b.colors \in {<<>>} \cup ((0 .. Wheel) \X (0 .. Wheel))
  <2> DEFINE one == Field(wire, "color_a", -1)
             two == Field(wire, "color_b", -1)
  <2>1. b.colors = IF -1 \in {one, two} THEN <<>> ELSE <<one, two>>
    BY DEF Parse
  <2>2. Values("color_a") = -1 .. Wheel /\ Values("color_b") = -1 .. Wheel /\ Wheel \in Nat
    BY ScoreAssumption DEF Values
  <2>3. one \in -1 .. Wheel /\ two \in -1 .. Wheel
    BY <2>2, FieldValues
  <2> HIDE DEF one, two
  <2>4. CASE one = -1 \/ two = -1
    BY <2>1, <2>4
  <2>5. CASE one # -1 /\ two # -1
    <3>1. one \in 0 .. Wheel /\ two \in 0 .. Wheel
      BY <2>2, <2>3, <2>5
    <3> QED BY <2>1, <2>5, <3>1
  <2> QED BY <2>4, <2>5
<1>11. b.best_of \in Nat /\ b.to \in Nat
  <2>1. ASSUME NEW key \in {"best_of", "to"} PROVE Count(wire, key) \in Nat
    <3>1. PICK raw \in Seq(Int) : raw = Field(wire, key, <<>>)
      BY <1>2
    <3>2. Len(raw) = 1 => raw[1] \in Int
      BY <3>1
    <3>3. Count(wire, key) = IF Len(raw) = 1 /\ raw[1] > 0 THEN raw[1] ELSE 0
      BY <3>1 DEF Count
    <3> QED BY <3>2, <3>3
  <2>2. b.best_of = Count(wire, "best_of") /\ b.to = Count(wire, "to")
    BY DEF Parse
  <2> QED BY <2>1, <2>2
<1>12. b.ends \in {<<>>, <<1, 2>>, <<2, 1>>}
  <2>1. PICK stated : stated = Field(wire, "ends", <<>>)
    OBVIOUS
  <2>2. Values("ends") = Seq(Texts)
    BY DEF Values
  <2>3. stated \in Seq(Texts)
    BY <2>1, <2>2, FieldValues
  <2>4. PICK ends : ends = [n \in DOMAIN stated |-> Side(stated[n])]
    OBVIOUS
  <2>5. b.ends = IF Len(ends) = 2 /\ {ends[1], ends[2]} = {1, 2} THEN ends ELSE <<>>
    BY <2>1, <2>4 DEF Parse
  <2>6. ASSUME Len(ends) = 2, {ends[1], ends[2]} = {1, 2} PROVE ends \in {<<1, 2>>, <<2, 1>>}
    <3>1. ends \in Seq(0 .. 2)
      <4>1. \A raw : Side(raw) \in 0 .. 2
        BY DEF Side
      <4> QED BY <2>3, <2>4, <4>1
    <3>2. ends = <<ends[1], ends[2]>>
      BY <2>6, <3>1
    <3>3. (ends[1] = 1 /\ ends[2] = 2) \/ (ends[1] = 2 /\ ends[2] = 1)
      BY <2>6
    <3> QED BY <3>2, <3>3
  <2> QED BY <2>5, <2>6
<1>13. DOMAIN b = {"points", "sets", "set_number", "serving", "winner", "last", "names", "banner",
                   "source", "played", "colors", "best_of", "to", "ends"}
       /\ b = [points |-> b.points, sets |-> b.sets, set_number |-> b.set_number, serving |-> b.serving,
               winner |-> b.winner, last |-> b.last, names |-> b.names, banner |-> b.banner,
               source |-> b.source, played |-> b.played, colors |-> b.colors, best_of |-> b.best_of,
               to |-> b.to, ends |-> b.ends]
  BY DEF Parse
<1> HIDE DEF b
<1>14. b \in Board
  BY <1>3, <1>4, <1>5, <1>6, <1>7, <1>8, <1>9, <1>10, <1>11, <1>12, <1>13 DEF Board
<1> QED BY <1>7, <1>8, <1>14 DEF ReadBoard, b

\* A payload with more at its end: what it says of every key.
Adds(more, wire, condition, name, value) ==
  /\ more \in Payload
  /\ \A key : Has(more, key) <=> Has(wire, key) \/ (condition /\ key = name)
  /\ \A key, default :
       Field(more, key, default) = IF condition /\ key = name THEN value ELSE Field(wire, key, default)

(* A payload of one field says that and nothing else. *)
LEMMA OneField ==
  ASSUME NEW name, NEW value, <<name, value>> \in Fields, Alias(name) = name
  PROVE  /\ <<<<name, value>>>> \in Payload
         /\ \A key : Has(<<<<name, value>>>>, key) <=> key = name
         /\ \A default : Field(<<<<name, value>>>>, name, default) = value
<1> DEFINE wire == <<<<name, value>>>>
<1>1. wire \in Payload /\ DOMAIN wire = {1} /\ wire[1][1] = name /\ wire[1][2] = value
  BY DEF Payload
<1> HIDE DEF wire
<1>2. \A key : Has(wire, key) <=> key = name
  BY <1>1 DEF Has
<1>3. At(wire, name) = {1}
  BY <1>1 DEF At
<1>4. \A default : Field(wire, name, default) = value
  BY <1>1, <1>3, FieldIs, 1 <= 1
<1> QED BY <1>1, <1>2, <1>4 DEF wire

(* A field that is stated is added, and one that is not leaves the payload. *)
LEMMA AddStated ==
  ASSUME NEW wire \in Payload, NEW condition \in BOOLEAN, NEW name, NEW value,
         condition => <<name, value>> \in Fields, Alias(name) = name
  PROVE  Adds(wire \o Stated(condition, name, value), wire, condition, name, value)
<1>1. CASE condition
  <2>1. Stated(condition, name, value) = <<<<name, value>>>>
    BY <1>1 DEF Stated
  <2>2. PICK one \in Payload :
          /\ one = Stated(condition, name, value)
          /\ \A key : Has(one, key) <=> key = name
          /\ \A default : Field(one, name, default) = value
    BY <1>1, <2>1, OneField
  <2>3. ASSUME NEW key
        PROVE  /\ wire \o one \in Payload
               /\ Has(wire \o one, key) <=> Has(wire, key) \/ key = name
               /\ \A default : Field(wire \o one, key, default) = IF key = name THEN value ELSE Field(wire, key, default)
    BY <2>2, FieldOfBoth
  <2> QED BY <1>1, <2>2, <2>3 DEF Adds
<1>2. CASE ~ condition
  <2>1. Stated(condition, name, value) = <<>>
    BY <1>2 DEF Stated
  <2>2. wire \o <<>> = wire
    BY DEF Payload
  <2> QED BY <1>2, <2>1, <2>2 DEF Adds
<1> QED BY <1>1, <1>2

(* Two fields that are stated together. *)
LEMMA AddTwo ==
  ASSUME NEW wire \in Payload, NEW condition \in BOOLEAN,
         NEW name, NEW value, NEW other, NEW more,
         condition => <<name, value>> \in Fields /\ <<other, more>> \in Fields,
         Alias(name) = name, Alias(other) = other
  PROVE  \E half : /\ Adds(half, wire, condition, name, value)
                   /\ Adds(wire \o (IF condition THEN <<<<name, value>>, <<other, more>>>> ELSE <<>>),
                           half, condition, other, more)
<1> DEFINE half == wire \o Stated(condition, name, value)
           whole == half \o Stated(condition, other, more)
<1>1. Adds(half, wire, condition, name, value)
  BY AddStated
<1>2. half \in Payload
  BY <1>1 DEF Adds
<1>3. Adds(whole, half, condition, other, more)
  <2> HIDE DEF half
  <2> QED BY <1>2, AddStated
<1>4. whole = wire \o (IF condition THEN <<<<name, value>>, <<other, more>>>> ELSE <<>>)
  <2>1. CASE condition
    <3>1. <<<<name, value>>>> \in Seq(Fields) /\ <<<<other, more>>>> \in Seq(Fields) /\ wire \in Seq(Fields)
      BY <2>1 DEF Payload
    <3>2. (wire \o <<<<name, value>>>>) \o <<<<other, more>>>> = wire \o (<<<<name, value>>>> \o <<<<other, more>>>>)
      BY <3>1
    <3>3. <<<<name, value>>>> \o <<<<other, more>>>> = <<<<name, value>>, <<other, more>>>>
      <4>1. ASSUME NEW p, NEW q PROVE <<p>> \o <<q>> = <<p, q>>
        <5>1. /\ <<p>> \in Seq({p, q}) /\ <<q>> \in Seq({p, q})
              /\ Len(<<p>>) = 1 /\ Len(<<q>>) = 1 /\ <<p>>[1] = p /\ <<q>>[1] = q
          OBVIOUS
        <5>2. PICK s, t \in Seq({p, q}) : s = <<p>> /\ t = <<q>>
          BY <5>1
        <5>3. /\ s \o t \in Seq({p, q}) /\ Len(s \o t) = 2
              /\ (s \o t)[1] = p /\ (s \o t)[2] = q
          BY <5>1, <5>2
        <5>4. PICK u \in Seq({p, q}) : u = s \o t
          BY <5>3
        <5>5. u = <<u[1], u[2]>>
          <6>1. DOMAIN u = 1 .. 2
            BY <5>3, <5>4
          <6> QED BY <6>1
        <5> QED BY <5>2, <5>3, <5>4, <5>5
      <4> QED BY <4>1
    <3> QED BY <2>1, <3>2, <3>3 DEF Stated
  <2>2. CASE ~ condition
    <3>1. wire \o <<>> = wire
      BY DEF Payload
    <3> QED BY <2>2, <3>1 DEF Stated
  <2> QED BY <2>1, <2>2
<1> HIDE DEF half, whole
<1> QED BY <1>1, <1>3, <1>4

(* A pair of numbers is a list of numbers. *)
LEMMA SetsAreLists == Int \X Int \subseteq Seq(Int)
<1>1. ASSUME NEW p \in Int \X Int PROVE p \in Seq(Int)
  <2>1. PICK x, y \in Int : p = <<x, y>>
    OBVIOUS
  <2>2. <<x, y>> \in Seq(Int)
    OBVIOUS
  <2> QED BY <2>1, <2>2
<1> QED BY <1>1

\* The three fields every board is written with.
Opening(b) == <<<<"points", b.points>>, <<"sets", b.sets>>, <<"set", <<b.set_number>>>>>>

(* What those three say. *)
LEMMA OpeningSays ==
  ASSUME NEW b \in Board
  PROVE  /\ Opening(b) \in Payload
         /\ \A key : Has(Opening(b), key) <=> key \in {"points", "sets", "set"}
         /\ \A default : /\ Field(Opening(b), "points", default) = b.points
                         /\ Field(Opening(b), "sets", default) = b.sets
                         /\ Field(Opening(b), "set", default) = <<b.set_number>>
<1>1. b.points \in Seq(Int) /\ b.sets \in Seq(Int) /\ <<b.set_number>> \in Seq(Int)
  <2>1. b.points \in Int \X Int /\ b.sets \in Int \X Int /\ b.set_number \in Int
    BY DEF Board
  <2> QED BY <2>1, SetsAreLists
<1>2. <<"points", b.points>> \in Fields /\ <<"sets", b.sets>> \in Fields /\ <<"set", <<b.set_number>>>> \in Fields
  BY <1>1 DEF Fields
<1>3. Opening(b) \in Payload
  BY <1>2 DEF Opening, Payload
<1>4. PICK wire \in Payload :
        /\ wire = Opening(b) /\ DOMAIN wire = {1, 2, 3}
        /\ wire[1] = <<"points", b.points>> /\ wire[2] = <<"sets", b.sets>>
        /\ wire[3] = <<"set", <<b.set_number>>>>
  BY <1>3 DEF Opening
<1>5. Alias("points") = "points" /\ Alias("sets") = "sets" /\ Alias("set") = "set"
  BY DEF Alias
<1>6. \A key : Has(wire, key) <=> key \in {"points", "sets", "set"}
  BY <1>4, <1>5 DEF Has
<1>7. At(wire, "points") = {1} /\ At(wire, "sets") = {2} /\ At(wire, "set") = {3}
  BY <1>4, <1>5 DEF At
<1>8. \A default : /\ Field(wire, "points", default) = b.points
                   /\ Field(wire, "sets", default) = b.sets
                   /\ Field(wire, "set", default) = <<b.set_number>>
  <2>1. 1 <= 1 /\ 2 <= 2 /\ 3 <= 3
    OBVIOUS
  <2> QED BY <1>4, <1>7, <2>1, FieldIs
<1> QED BY <1>3, <1>4, <1>6, <1>8

(* What a written board says of each key. *)
LEMMA FormatSays ==
  ASSUME NEW b \in Board
  PROVE  /\ Format(b) \in Payload
         /\ \A default :
              /\ Field(Format(b), "points", default) = b.points
              /\ Field(Format(b), "sets", default) = b.sets
              /\ Field(Format(b), "set", default) = <<b.set_number>>
              /\ Field(Format(b), "serve", default) = IF b.serving # 0 THEN Letter(b.serving) ELSE default
              /\ Field(Format(b), "winner", default) = IF b.winner # 0 THEN Letter(b.winner) ELSE default
              /\ Field(Format(b), "a", default) = b.names[1]
              /\ Field(Format(b), "b", default) = b.names[2]
              /\ Field(Format(b), "played", default) = IF b.played # <<>> THEN b.played ELSE default
              /\ Field(Format(b), "banner", default) = IF b.banner # NoText THEN b.banner ELSE default
              /\ Field(Format(b), "last", default) = IF b.last # 0 THEN Letter(b.last) ELSE default
              /\ Field(Format(b), "source", default) = IF b.source # NoText THEN b.source ELSE default
              /\ Field(Format(b), "color_a", default) = IF b.colors # <<>> THEN b.colors[1] ELSE default
              /\ Field(Format(b), "color_b", default) = IF b.colors # <<>> THEN b.colors[2] ELSE default
              /\ Field(Format(b), "best_of", default) = IF b.best_of # 0 THEN <<b.best_of>> ELSE default
              /\ Field(Format(b), "to", default) = IF b.to # 0 THEN <<b.to>> ELSE default
              /\ Field(Format(b), "ends", default) =
                   IF b.ends # <<>> THEN [n \in DOMAIN b.ends |-> Letter(b.ends[n])] ELSE default
              /\ Field(Format(b), "transition", default) = default
         /\ Has(Format(b), "last") <=> b.last # 0
<1>1. \A side : Letter(side) \in Texts
  BY TextAssumption DEF Letter
<1>2. /\ b.names[1] \in Texts /\ b.names[2] \in Texts /\ b.banner \in Texts /\ b.source \in Texts
      /\ b.best_of \in Nat /\ b.to \in Nat /\ b.played \in Seq(Int \X Int)
      /\ b.colors # <<>> => b.colors[1] \in 0 .. Wheel /\ b.colors[2] \in 0 .. Wheel
      /\ b.ends \in {<<>>, <<1, 2>>, <<2, 1>>}
  BY DEF Board
<1>3. b.played \in Seq(Seq(Int))
  BY <1>2, SetsAreLists
<1>4. b.ends # <<>> => [n \in DOMAIN b.ends |-> Letter(b.ends[n])] \in Seq(Texts)
  <2>1. <<1, 2>> \in Seq({1, 2}) /\ <<2, 1>> \in Seq({1, 2})
    OBVIOUS
  <2>2. b.ends # <<>> => b.ends \in Seq({1, 2})
    BY <1>2, <2>1
  <2> QED BY <1>1, <2>2
<1>5. \A c \in 0 .. Wheel : c \in -1 .. Wheel
  BY ScoreAssumption
<1>6. <<b.best_of>> \in Seq(Int) /\ <<b.to>> \in Seq(Int)
  BY <1>2
<1>7. \A name \in {"serve", "winner", "a", "b", "played", "banner", "last", "source", "color_a", "color_b",
                   "best_of", "to", "ends"} : Alias(name) = name
  BY DEF Alias
<1> DEFINE letters == [n \in DOMAIN b.ends |-> Letter(b.ends[n])]
<1>8. /\ <<"serve", Letter(b.serving)>> \in Fields /\ <<"winner", Letter(b.winner)>> \in Fields
      /\ <<"last", Letter(b.last)>> \in Fields
      /\ <<"a", b.names[1]>> \in Fields /\ <<"b", b.names[2]>> \in Fields
      /\ <<"banner", b.banner>> \in Fields /\ <<"source", b.source>> \in Fields
  BY <1>1, <1>2 DEF Fields
<1>9. /\ <<"played", b.played>> \in Fields
      /\ <<"best_of", <<b.best_of>>>> \in Fields /\ <<"to", <<b.to>>>> \in Fields
      /\ b.colors # <<>> => <<"color_a", b.colors[1]>> \in Fields /\ <<"color_b", b.colors[2]>> \in Fields
      /\ b.ends # <<>> => <<"ends", letters>> \in Fields
  BY <1>2, <1>3, <1>4, <1>5, <1>6 DEF Fields
<1> HIDE DEF letters
<1>10. PICK p1 \in Payload : p1 = Opening(b)
  BY OpeningSays
<1>11. PICK p2 : p2 = p1 \o Stated(b.serving # 0, "serve", Letter(b.serving))
                 /\ Adds(p2, p1, b.serving # 0, "serve", Letter(b.serving))
  BY <1>7, <1>8, AddStated
<1>12. PICK p3 : p3 = p2 \o Stated(b.winner # 0, "winner", Letter(b.winner))
                 /\ Adds(p3, p2, b.winner # 0, "winner", Letter(b.winner))
  <2>1. p2 \in Payload
    BY <1>11 DEF Adds
  <2> QED BY <1>7, <1>8, <2>1, AddStated
<1>13. PICK h4, p4 : /\ p4 = p3 \o <<<<"a", b.names[1]>>, <<"b", b.names[2]>>>>
                     /\ Adds(h4, p3, TRUE, "a", b.names[1]) /\ Adds(p4, h4, TRUE, "b", b.names[2])
  <2>1. p3 \in Payload
    BY <1>12 DEF Adds
  <2> QED BY <1>7, <1>8, <2>1, AddTwo
<1>14. PICK p5 : p5 = p4 \o Stated(b.played # <<>>, "played", b.played)
                 /\ Adds(p5, p4, b.played # <<>>, "played", b.played)
  <2>1. p4 \in Payload
    BY <1>13 DEF Adds
  <2> QED BY <1>7, <1>9, <2>1, AddStated
<1>15. PICK p6 : p6 = p5 \o Stated(b.banner # NoText, "banner", b.banner)
                 /\ Adds(p6, p5, b.banner # NoText, "banner", b.banner)
  <2>1. p5 \in Payload
    BY <1>14 DEF Adds
  <2> QED BY <1>7, <1>8, <2>1, AddStated
<1>16. PICK p7 : p7 = p6 \o Stated(b.last # 0, "last", Letter(b.last))
                 /\ Adds(p7, p6, b.last # 0, "last", Letter(b.last))
  <2>1. p6 \in Payload
    BY <1>15 DEF Adds
  <2> QED BY <1>7, <1>8, <2>1, AddStated
<1>17. PICK p8 : p8 = p7 \o Stated(b.source # NoText, "source", b.source)
                 /\ Adds(p8, p7, b.source # NoText, "source", b.source)
  <2>1. p7 \in Payload
    BY <1>16 DEF Adds
  <2> QED BY <1>7, <1>8, <2>1, AddStated
<1>18. PICK h9, p9 : /\ p9 = p8 \o (IF b.colors = <<>> THEN <<>>
                                    ELSE <<<<"color_a", b.colors[1]>>, <<"color_b", b.colors[2]>>>>)
                     /\ Adds(h9, p8, b.colors # <<>>, "color_a", b.colors[1])
                     /\ Adds(p9, h9, b.colors # <<>>, "color_b", b.colors[2])
  <2>1. p8 \in Payload
    BY <1>17 DEF Adds
  <2>2. PICK h9 : /\ Adds(h9, p8, b.colors # <<>>, "color_a", b.colors[1])
                  /\ Adds(p8 \o (IF b.colors # <<>> THEN <<<<"color_a", b.colors[1]>>, <<"color_b", b.colors[2]>>>>
                                 ELSE <<>>),
                          h9, b.colors # <<>>, "color_b", b.colors[2])
    BY <1>7, <1>9, <2>1, AddTwo
  <2> QED BY <2>2
<1>19. PICK p10 : p10 = p9 \o Stated(b.best_of # 0, "best_of", <<b.best_of>>)
                  /\ Adds(p10, p9, b.best_of # 0, "best_of", <<b.best_of>>)
  <2>1. p9 \in Payload
    BY <1>18 DEF Adds
  <2> QED BY <1>7, <1>9, <2>1, AddStated
<1>20. PICK p11 : p11 = p10 \o Stated(b.to # 0, "to", <<b.to>>)
                  /\ Adds(p11, p10, b.to # 0, "to", <<b.to>>)
  <2>1. p10 \in Payload
    BY <1>19 DEF Adds
  <2> QED BY <1>7, <1>9, <2>1, AddStated
<1>21. PICK p12 : p12 = p11 \o Stated(b.ends # <<>>, "ends", letters)
                  /\ Adds(p12, p11, b.ends # <<>>, "ends", letters)
  <2>1. p11 \in Payload
    BY <1>20 DEF Adds
  <2> QED BY <1>7, <1>9, <2>1, AddStated
<1>22. Format(b) = p12
  BY <1>10, <1>11, <1>12, <1>13, <1>14, <1>15, <1>16, <1>17, <1>18, <1>19, <1>20, <1>21 DEF Format, Opening, letters
<1>23. p12 \in Payload
  BY <1>21 DEF Adds
<1> DEFINE Chain == /\ Adds(p2, p1, b.serving # 0, "serve", Letter(b.serving))
                    /\ Adds(p3, p2, b.winner # 0, "winner", Letter(b.winner))
                    /\ Adds(h4, p3, TRUE, "a", b.names[1]) /\ Adds(p4, h4, TRUE, "b", b.names[2])
                    /\ Adds(p5, p4, b.played # <<>>, "played", b.played)
                    /\ Adds(p6, p5, b.banner # NoText, "banner", b.banner)
                    /\ Adds(p7, p6, b.last # 0, "last", Letter(b.last))
                    /\ Adds(p8, p7, b.source # NoText, "source", b.source)
                    /\ Adds(h9, p8, b.colors # <<>>, "color_a", b.colors[1])
                    /\ Adds(p9, h9, b.colors # <<>>, "color_b", b.colors[2])
                    /\ Adds(p10, p9, b.best_of # 0, "best_of", <<b.best_of>>)
                    /\ Adds(p11, p10, b.to # 0, "to", <<b.to>>)
                    /\ Adds(p12, p11, b.ends # <<>>, "ends", letters)
<1>24. Chain
  BY <1>11, <1>12, <1>13, <1>14, <1>15, <1>16, <1>17, <1>18, <1>19, <1>20, <1>21
<1>25. /\ \A key : ~ (key \in {"points", "sets", "set"}) => \A default : Field(p1, key, default) = default
       /\ \A key : Has(p1, key) <=> key \in {"points", "sets", "set"}
       /\ \A default : /\ Field(p1, "points", default) = b.points
                       /\ Field(p1, "sets", default) = b.sets
                       /\ Field(p1, "set", default) = <<b.set_number>>
  <2>1. \A key : Has(p1, key) <=> key \in {"points", "sets", "set"}
    BY <1>10, OpeningSays
  <2>2. \A key, default : ~ Has(p1, key) => Field(p1, key, default) = default
    BY DEF Field
  <2> QED BY <1>10, <2>1, <2>2, OpeningSays
<1>26. ASSUME NEW default
       PROVE  /\ Field(p12, "points", default) = b.points
              /\ Field(p12, "sets", default) = b.sets
              /\ Field(p12, "set", default) = <<b.set_number>>
              /\ Field(p12, "serve", default) = IF b.serving # 0 THEN Letter(b.serving) ELSE default
              /\ Field(p12, "winner", default) = IF b.winner # 0 THEN Letter(b.winner) ELSE default
  BY <1>24, <1>25 DEF Adds
<1>27. ASSUME NEW default
       PROVE  /\ Field(p12, "a", default) = b.names[1]
              /\ Field(p12, "b", default) = b.names[2]
              /\ Field(p12, "played", default) = IF b.played # <<>> THEN b.played ELSE default
              /\ Field(p12, "banner", default) = IF b.banner # NoText THEN b.banner ELSE default
              /\ Field(p12, "last", default) = IF b.last # 0 THEN Letter(b.last) ELSE default
              /\ Field(p12, "source", default) = IF b.source # NoText THEN b.source ELSE default
  BY <1>24, <1>25 DEF Adds
<1>28. ASSUME NEW default
       PROVE  /\ Field(p12, "color_a", default) = IF b.colors # <<>> THEN b.colors[1] ELSE default
              /\ Field(p12, "color_b", default) = IF b.colors # <<>> THEN b.colors[2] ELSE default
              /\ Field(p12, "best_of", default) = IF b.best_of # 0 THEN <<b.best_of>> ELSE default
              /\ Field(p12, "to", default) = IF b.to # 0 THEN <<b.to>> ELSE default
              /\ Field(p12, "ends", default) = IF b.ends # <<>> THEN letters ELSE default
              /\ Field(p12, "transition", default) = default
  BY <1>24, <1>25 DEF Adds
<1>29. Has(p12, "last") <=> b.last # 0
  BY <1>24, <1>25 DEF Adds
<1> QED BY <1>22, <1>23, <1>26, <1>27, <1>28, <1>29 DEF letters

\* The board without the space a cut left at the end of a name.
Again(b) == [b EXCEPT !.names = <<Strip[@[1]], Strip[@[2]]>>]

(* A board that was read, written and read again is the same. *)
LEMMA ReadAgain ==
  ASSUME NEW b, ReadBoard(b)
  PROVE  /\ Format(b) \in Payload /\ IsBoard(Format(b))
         /\ Parse(Format(b)) = Again(b) /\ Again(b) \in Board
<1> DEFINE wire == Format(b)
           read == Parse(wire)
<1>1. b \in Board /\ IsName(b.names[1]) /\ IsName(b.names[2]) /\ IsLine(b.banner) /\ IsLine(b.source)
  BY DEF ReadBoard
<1>2. wire \in Payload
  BY <1>1, FormatSays
<1>3. /\ b.points \in Sets /\ b.sets \in Sets /\ b.set_number \in Int
      /\ b.serving \in 0 .. 2 /\ b.winner \in 0 .. 2 /\ b.last \in 0 .. 2
      /\ b.played \in Seq(Sets) /\ b.best_of \in Nat /\ b.to \in Nat
      /\ b.colors \in {<<>>} \cup ((0 .. Wheel) \X (0 .. Wheel))
      /\ b.ends \in {<<>>, <<1, 2>>, <<2, 1>>} /\ b.names \in Texts \X Texts
  BY <1>1 DEF Board, Sets
<1>4. read.points = b.points /\ read.sets = b.sets
  <2>1. Field(wire, "points", <<>>) = b.points /\ Field(wire, "sets", <<>>) = b.sets
    BY <1>1, FormatSays
  <2>2. Pair(b.points) = b.points /\ Pair(b.sets) = b.sets /\ b.sets # <<>>
    BY <1>3, PairOfSet
  <2> QED BY <2>1, <2>2 DEF Parse
<1>5. read.set_number = b.set_number
  <2>1. Field(wire, "set", <<1>>) = <<b.set_number>>
    BY <1>1, FormatSays
  <2>2. read.set_number = LET set == Field(wire, "set", <<1>>) IN IF Len(set) = 1 THEN set[1] ELSE 1
    BY DEF Parse
  <2> QED BY <2>1, <2>2
<1>6. read.serving = b.serving /\ read.winner = b.winner /\ read.last = b.last
  <2>1. \A side \in 1 .. 2 : Side(Letter(side)) = side
    BY DEF Side, Letter
  <2>2. Side(NoText) = 0 /\ NoText # "point"
    BY TextAssumption DEF Side
  <2>3. /\ Field(wire, "serve", NoText) = IF b.serving # 0 THEN Letter(b.serving) ELSE NoText
        /\ Field(wire, "winner", NoText) = IF b.winner # 0 THEN Letter(b.winner) ELSE NoText
        /\ Field(wire, "last", NoText) = IF b.last # 0 THEN Letter(b.last) ELSE NoText
        /\ Field(wire, "transition", NoText) = NoText
        /\ Has(wire, "last") <=> b.last # 0
    BY <1>1, FormatSays
  <2>4. /\ read.serving = Side(Field(wire, "serve", NoText))
        /\ read.winner = Side(Field(wire, "winner", NoText))
        /\ read.last = IF Has(wire, "last") THEN Side(Field(wire, "last", NoText))
                       ELSE IF Field(wire, "transition", NoText) = "point"
                            THEN Side(Field(wire, "side", NoText)) ELSE 0
    BY DEF Parse
  <2>5. \A side \in 0 .. 2 : side # 0 => side \in 1 .. 2
    OBVIOUS
  <2>6. read.serving = b.serving
    BY <1>3, <2>1, <2>2, <2>3, <2>4, <2>5
  <2>7. read.winner = b.winner
    BY <1>3, <2>1, <2>2, <2>3, <2>4, <2>5
  <2>8. read.last = b.last
    BY <1>3, <2>1, <2>2, <2>3, <2>4, <2>5
  <2> QED BY <2>6, <2>7, <2>8
<1>7. read.names = <<Strip[b.names[1]], Strip[b.names[2]]>>
  <2>1. Field(wire, "a", NoText) = b.names[1] /\ Field(wire, "b", NoText) = b.names[2]
    BY <1>1, FormatSays
  <2>2. Said(wire, "a") = Strip[b.names[1]] /\ Said(wire, "b") = Strip[b.names[2]]
    BY <2>1 DEF Said
  <2>3. read.names = <<Name(wire, "a", "A"), Name(wire, "b", "B")>>
    BY DEF Parse
  <2> QED BY <1>1, <2>2, <2>3 DEF Name, IsName
<1>8. read.banner = b.banner /\ read.source = b.source
  <2>1. /\ Field(wire, "banner", NoText) = IF b.banner # NoText THEN b.banner ELSE NoText
        /\ Field(wire, "source", NoText) = IF b.source # NoText THEN b.source ELSE NoText
    BY <1>1, FormatSays
  <2>2. Field(wire, "banner", NoText) = b.banner /\ Field(wire, "source", NoText) = b.source
    BY <2>1
  <2>3. read.banner = Upper[Strip[b.banner]] /\ read.source = Upper[Strip[b.source]]
    BY <2>2 DEF Parse, Said
  <2> QED BY <1>1, <2>3 DEF IsLine
<1>9. read.played = b.played
  <2>1. Field(wire, "played", <<>>) = IF b.played # <<>> THEN b.played ELSE <<>>
    BY <1>1, FormatSays
  <2>2. read.played = Pairs(b.played)
    BY <2>1 DEF Parse
  <2> QED BY <1>3, <2>2, PairsOfSets
<1>10. read.colors = b.colors
  <2>1. /\ Field(wire, "color_a", -1) = IF b.colors # <<>> THEN b.colors[1] ELSE -1
        /\ Field(wire, "color_b", -1) = IF b.colors # <<>> THEN b.colors[2] ELSE -1
    BY <1>1, FormatSays
  <2>2. read.colors = LET colors == <<Field(wire, "color_a", -1), Field(wire, "color_b", -1)>>
                      IN IF -1 \in {colors[1], colors[2]} THEN <<>> ELSE colors
    BY DEF Parse
  <2>3. CASE b.colors = <<>>
    BY <2>1, <2>2, <2>3
  <2>4. CASE b.colors # <<>>
    <3>1. PICK one, two \in 0 .. Wheel : b.colors = <<one, two>>
      BY <1>3, <2>4
    <3>2. one # -1 /\ two # -1
      OBVIOUS
    <3> QED BY <2>1, <2>2, <2>4, <3>1, <3>2
  <2> QED BY <2>3, <2>4
<1>11. read.best_of = b.best_of /\ read.to = b.to
  <2>1. /\ Field(wire, "best_of", <<>>) = IF b.best_of # 0 THEN <<b.best_of>> ELSE <<>>
        /\ Field(wire, "to", <<>>) = IF b.to # 0 THEN <<b.to>> ELSE <<>>
    BY <1>1, FormatSays
  <2>2. \A n \in Nat : n # 0 => n > 0
    OBVIOUS
  <2>3. Count(wire, "best_of") = b.best_of
    BY <1>3, <2>1, <2>2 DEF Count
  <2>4. Count(wire, "to") = b.to
    BY <1>3, <2>1, <2>2 DEF Count
  <2> QED BY <2>3, <2>4 DEF Parse
<1>12. read.ends = b.ends
  <2> DEFINE stated == Field(wire, "ends", <<>>)
             ends == [n \in DOMAIN stated |-> Side(stated[n])]
  <2>1. stated = IF b.ends # <<>> THEN [n \in DOMAIN b.ends |-> Letter(b.ends[n])] ELSE <<>>
    BY <1>1, FormatSays
  <2>2. read.ends = IF Len(ends) = 2 /\ {ends[1], ends[2]} = {1, 2} THEN ends ELSE <<>>
    BY DEF Parse
  <2>3. CASE b.ends = <<>>
    <3>1. stated = <<>>
      BY <2>1, <2>3
    <3>2. DOMAIN ends = {}
      BY <3>1
    <3>3. Len(ends) # 2
      BY <3>1
    <3> QED BY <2>2, <2>3, <3>3
  <2>4. CASE b.ends # <<>>
    <3>1. \A side \in 1 .. 2 : Side(Letter(side)) = side
      BY DEF Side, Letter
    <3>2. PICK l, r \in 1 .. 2 : b.ends = <<l, r>> /\ {l, r} = {1, 2}
      BY <1>3, <2>4
    <3>3. DOMAIN stated = {1, 2} /\ stated[1] = Letter(l) /\ stated[2] = Letter(r)
      BY <2>1, <2>4, <3>2
    <3>4. DOMAIN ends = 1 .. 2 /\ ends[1] = l /\ ends[2] = r
      BY <3>1, <3>3
    <3>5. ends = <<l, r>>
      BY <3>4
    <3> HIDE DEF ends
    <3>6. Len(ends) = 2 /\ {ends[1], ends[2]} = {1, 2}
      BY <3>2, <3>5
    <3> QED BY <2>2, <3>2, <3>5, <3>6
  <2> QED BY <2>3, <2>4
<1>13. read = [points |-> read.points, sets |-> read.sets, set_number |-> read.set_number,
               serving |-> read.serving, winner |-> read.winner, names |-> read.names,
               played |-> read.played, banner |-> read.banner, last |-> read.last,
               source |-> read.source, colors |-> read.colors, best_of |-> read.best_of,
               to |-> read.to, ends |-> read.ends]
  BY DEF Parse
<1>14. b = [points |-> b.points, sets |-> b.sets, set_number |-> b.set_number,
            serving |-> b.serving, winner |-> b.winner, names |-> b.names,
            played |-> b.played, banner |-> b.banner, last |-> b.last,
            source |-> b.source, colors |-> b.colors, best_of |-> b.best_of,
            to |-> b.to, ends |-> b.ends]
  BY <1>1 DEF Board
<1> HIDE DEF read
<1>15. Again(b) = [points |-> b.points, sets |-> b.sets, set_number |-> b.set_number,
                   serving |-> b.serving, winner |-> b.winner,
                   names |-> <<Strip[b.names[1]], Strip[b.names[2]]>>,
                   played |-> b.played, banner |-> b.banner, last |-> b.last,
                   source |-> b.source, colors |-> b.colors, best_of |-> b.best_of,
                   to |-> b.to, ends |-> b.ends]
  BY <1>14 DEF Again
<1>16. read = Again(b)
  BY <1>4, <1>5, <1>6, <1>7, <1>8, <1>9, <1>10, <1>11, <1>12, <1>13, <1>15
<1>17. Again(b) \in Board
  <2>1. <<Strip[b.names[1]], Strip[b.names[2]]>> \in Texts \X Texts
    BY <1>1 DEF IsName
  <2> QED BY <1>1, <2>1 DEF Again, Board
<1>18. IsBoard(wire)
  <2>1. b.points # <<>>
    BY <1>3, PairOfSet
  <2> QED BY <1>4, <2>1 DEF IsBoard, read
<1> QED BY <1>2, <1>16, <1>17, <1>18 DEF read
-----------------------------------------------------------------------------
(* The board on its way.  A display that shows one has the text the engine
   writes of the message's, and the panel is what the mode draws of it. *)
Written(display) ==
  display.kind = "score" =>
    display.text = IF IsBoard(case.msg.board) THEN Format(Parse(case.msg.board)) ELSE case.msg.board

Whole(display) ==
  /\ Written(display)
  /\ DOMAIN display = {"rule", "kind", "overlay", "image", "color", "text", "title", "then"}

BoardInv ==
  /\ i \in 1 .. Len(case.rules) + 1
  /\ first = Nothing \/ (first.rule \in 1 .. Len(case.rules) /\ Whole(first))
  /\ \/ out = Nothing
     \/ out = Pending /\ pc \in {"hours", "loop"}
     \/ out.rule \in 1 .. Len(case.rules) + 1 /\ Whole(out)
  /\ panel = Dark \/ /\ pc = "done" /\ out # Nothing
                     /\ panel = IF out.kind = "score" THEN DisplayScore(out.text) ELSE StaticText

(* What a rule resolves to has the text of the message it was resolved for. *)
LEMMA ResolvedIsWhole ==
  ASSUME NEW rule, NEW n PROVE Whole(Resolve(rule, n, case)) /\ Resolve(rule, n, case).rule = n
BY DEF Whole, Written, Resolve, Text

(* No step changes what the panel shows, or shows what is no display. *)
LEMMA BoardInvStays == LInv /\ BoardInv /\ [Next]_vars => BoardInv'
<1> SUFFICES ASSUME LInv, BoardInv, [Next]_vars PROVE BoardInv'
  OBVIOUS
<1> DEFINE n == Len(case.rules)
<1>1. /\ case \in Cases /\ n \in Nat /\ DOMAIN case.rules = 1 .. n /\ case' = case
      /\ pc \in {"hours", "loop", "asked", "done"}
  <2>1. case \in Cases /\ pc \in {"hours", "loop", "asked", "done"}
    BY DEF LInv
  <2>2. case' = case
    BY DEF Next, vars, Hours, Skip, Hit, NoMore, Use, Draw
  <2> QED BY <2>1, <2>2, CandidateFacts
<1>2. \A display : Whole(display)' <=> Whole(display)
  BY <1>1 DEF Whole, Written
<1>3. CASE Hours
  BY <1>1, <1>2, <1>3 DEF Hours, BoardInv
<1>4. CASE Skip
  BY <1>1, <1>2, <1>4 DEF Skip, BoardInv
<1>5. CASE Hit
  <2> DEFINE resolved == Resolve(Rule, i, case)
  <2>1. Whole(resolved) /\ resolved.rule = i /\ i \in 1 .. n
    BY <1>1, <1>5, ResolvedIsWhole DEF Hit, BoardInv
  <2> HIDE DEF resolved
  <2>2. /\ pc = "loop" /\ panel' = panel /\ panel = Dark
        /\ \/ first # Nothing /\ out' = [first EXCEPT !.then = resolved] /\ UNCHANGED <<i, first>>
           \/ first = Nothing /\ out' = resolved /\ UNCHANGED <<i, first>>
           \/ first = Nothing /\ first' = resolved /\ i' = i + 1 /\ UNCHANGED <<out, pc>>
    BY <1>5 DEF Hit, BoardInv, resolved
  <2>3. CASE first # Nothing /\ out' = [first EXCEPT !.then = resolved] /\ UNCHANGED <<i, first>>
    <3>1. first.rule \in 1 .. n /\ Whole(first)
      BY <2>3 DEF BoardInv
    <3>2. Whole(out') /\ out'.rule = first.rule
      BY <2>3, <3>1 DEF Whole, Written
    <3>3. out'.rule \in 1 .. n + 1
      BY <1>1, <3>1, <3>2
    <3> QED BY <1>1, <1>2, <2>2, <2>3, <3>1, <3>2, <3>3 DEF BoardInv
  <2>4. CASE first = Nothing /\ out' = resolved /\ UNCHANGED <<i, first>>
    <3>1. out'.rule \in 1 .. n + 1
      BY <1>1, <2>1, <2>4
    <3> QED BY <1>1, <1>2, <2>1, <2>2, <2>4, <3>1 DEF BoardInv
  <2>5. CASE first = Nothing /\ first' = resolved /\ i' = i + 1 /\ UNCHANGED <<out, pc>>
    <3>1. i + 1 \in 1 .. n + 1
      BY <1>1, <2>1
    <3> QED BY <1>1, <1>2, <2>1, <2>2, <2>5, <3>1 DEF BoardInv
  <2> QED BY <2>2, <2>3, <2>4, <2>5
<1>6. CASE NoMore
  <2>1. first = Nothing \/ first.rule \in 1 .. n + 1
    BY <1>1 DEF BoardInv
  <2> QED BY <1>1, <1>2, <1>6, <2>1 DEF NoMore, BoardInv
<1>7. CASE Use
  <2> DEFINE fallback == FallbackCard(case)
  <2>1. Whole(fallback) /\ fallback.rule = n + 1
    BY ResolvedIsWhole DEF FallbackCard
  <2>2. n + 1 \in 1 .. n + 1
    BY <1>1
  <2> HIDE DEF fallback
  <2>3. /\ pc = "asked" /\ UNCHANGED <<i, first, panel>> /\ panel = Dark
        /\ out' = out \/ out' = fallback
    BY <1>7 DEF Use, BoardInv, fallback
  <2>4. pc = "asked" /\ pc' = "done"
    BY <1>7 DEF Use
  <2> QED BY <1>1, <1>2, <2>1, <2>2, <2>3, <2>4 DEF BoardInv
<1>8. CASE Draw
  BY <1>1, <1>2, <1>8 DEF Draw, BoardInv
<1>9. CASE UNCHANGED vars
  BY <1>1, <1>2, <1>9 DEF vars, BoardInv
<1> QED BY <1>3, <1>4, <1>5, <1>6, <1>7, <1>8, <1>9 DEF Next

(* What the panel shows is a board only when one was sent: then it is the drawing
   of the board that was read from the message. *)
LEMMA OnThePanel ==
  ASSUME LInv, BoardInv
  PROVE  /\ panel.lit \in {"dark", "text", "board"}
         /\ OnBoard => Parse(out.text) \in Board /\ panel = Render(Parse(out.text))
<1>1. CASE panel = Dark
  BY <1>1 DEF Dark, OnBoard
<1>2. CASE panel # Dark
  <2>1. /\ pc = "done" /\ out # Nothing /\ out # Pending
        /\ panel = IF out.kind = "score" THEN DisplayScore(out.text) ELSE StaticText
    BY <1>2 DEF BoardInv, Pending, Nothing
  <2>2. Written(out)
    BY <2>1 DEF BoardInv, Whole
  <2>3. case.msg.board \in Payload
    BY RulesAssumption DEF LInv
  <2>4. CASE out.kind # "score"
    BY <2>1, <2>4 DEF StaticText, OnBoard
  <2>5. CASE out.kind = "score" /\ ~ IsBoard(case.msg.board)
    BY <2>1, <2>2, <2>5 DEF Written, DisplayScore, StaticText, OnBoard
  <2>6. CASE out.kind = "score" /\ IsBoard(case.msg.board)
    <3> DEFINE b == Parse(case.msg.board)
    <3>1. ReadBoard(b) /\ out.text = Format(b)
      BY <2>2, <2>3, <2>6, ParsedIsBoard DEF Written
    <3>2. IsBoard(out.text) /\ Parse(out.text) \in Board
      BY <3>1, ReadAgain
    <3>3. panel = Render(Parse(out.text))
      BY <2>1, <2>6, <3>2 DEF DisplayScore
    <3>4. panel.lit = "board"
      BY <3>3 DEF Render
    <3> QED BY <3>2, <3>3, <3>4
  <2> QED BY <2>4, <2>5, <2>6
<1> QED BY <1>1, <1>2

(* The board that was sent is the one on the panel, whole and read as left against
   right: for every payload, every palette with a colour apart from each, and
   whatever the texts are that capitals and cuts make. *)
THEOREM BoardIsRead == Spec => []BoardReads
<1>1. Init => BoardInv
  <2>1. Init => case \in Cases
    BY DEF Init
  <2>2. ASSUME Init PROVE 1 \in 1 .. Len(case.rules) + 1
    BY <2>1, <2>2, CandidateFacts
  <2> QED BY <2>2 DEF Init, BoardInv
<1>2. ASSUME LInv, BoardInv PROVE BoardReads
  <2>1. case \in Cases /\ Len(case.rules) \in Nat /\ case.msg.board \in Payload
    BY <1>2, CandidateFacts, RulesAssumption DEF LInv
  <2>2. TypeOK
    <3>1. first.rule \in 0 .. Len(case.rules)
      BY <1>2, <2>1 DEF BoardInv, Nothing
    <3>2. out.rule \in -1 .. Len(case.rules) + 1
      BY <1>2, <2>1 DEF BoardInv, Nothing, Pending
    <3> QED BY <1>2, <3>1, <3>2, OnThePanel DEF TypeOK, LInv, BoardInv, OnBoard
  <2>3. SameBoard
    <3>1. SUFFICES ASSUME pc = "done", out # Nothing, out.kind = "score"
                   PROVE  Same(out.text, case.msg.board)
      BY DEF SameBoard
    <3>2. Written(out)
      BY <1>2, <3>1 DEF BoardInv, Whole
    <3>3. CASE ~ IsBoard(case.msg.board)
      BY <3>1, <3>2, <3>3 DEF Written, Same
    <3>4. CASE IsBoard(case.msg.board)
      <4>1. PICK b : b = Parse(case.msg.board) /\ ReadBoard(b)
        BY <2>1, <3>4, ParsedIsBoard
      <4>2. out.text = Format(b)
        BY <3>1, <3>2, <3>4, <4>1 DEF Written
      <4>3. IsBoard(out.text) /\ Parse(out.text) = Again(b)
        BY <4>1, <4>2, ReadAgain
      <4> QED BY <3>4, <4>1, <4>3 DEF Same, Again
    <3> QED BY <3>3, <3>4
  <2>4. OnBoard => Parse(out.text) \in Board /\ panel = Render(Parse(out.text))
    BY <1>2, OnThePanel
  <2>5. EachHalfIsOnePlayer
    BY <2>4, DrawnHalves DEF EachHalfIsOnePlayer
  <2>6. ToldApart
    <3>1. ASSUME NEW b \in Board, b.colors # <<>> PROVE Distinguished(b.colors)
      <4>1. b.colors \in (0 .. Wheel) \X (0 .. Wheel)
        BY <3>1 DEF Board
      <4> QED BY <4>1, ColorsTellApart
    <3> QED BY <2>4, <3>1 DEF ToldApart
  <2>7. BoardFits
    <3>1. SUFFICES ASSUME OnBoard, NEW half \in {1, 2}
                   PROVE  HasRoom(panel.number[half]) <=> panel.number[half].value \in -9 .. 99
      BY DEF BoardFits
    <3>2. Parse(out.text) \in Board /\ panel = Render(Parse(out.text))
      BY <2>4, <3>1
    <3> QED BY <3>2, DrawnFits
  <2> QED BY <2>2, <2>3, <2>5, <2>6, <2>7 DEF BoardReads
<1> QED BY <1>1, <1>2, LInit, LNext, BoardInvStays, PTL DEF Spec
=============================================================================
