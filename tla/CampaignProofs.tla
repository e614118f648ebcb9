--------------------------- MODULE CampaignProofs ---------------------------
(***************************************************************************)
(* The story never gets stuck, in any campaign and across any number of    *)
(* saves and loads, unless a file was cut before the end of its targets.   *)
(* The invariant is the table of the story: what is on the map at each     *)
(* stage, and what the player may have done by then.  A torn game has lost *)
(* its targets for good, or differs from a game of the table only in those *)
(* that are missing; the first one it reaches puts it back into the table. *)
(***************************************************************************)
EXTENDS Campaign, TLAPS

Center == {"TORRES", "DYLKA", "JOTHAN"}
Border == {"BORDER", "LIZDOR"}

\* The game s is at stage k of the story, the planets S of the quest are on
\* the map, and lo or one more of the name RISAR.
Row(s, k, S, lo) ==
    /\ s.chapter = Story[k][1] /\ s.targets = Story[k][2]
    /\ \A p \in Special \ {"RISAR"} : s.map[p] = IF p \in S THEN 1 ELSE 0
    /\ s.map["RISAR"] \in lo..(lo + 1)

\* Both branches of the story meet at the border; base is what each has left
\* on the map.
Late(s, base) ==
    \/ Row(s, 8, base \cup {"BORDER"}, 0)
    \/ Row(s, 9, base \cup Border, 0)
    \/ Row(s, 10, base \cup Border, 1)
    \/ Row(s, 11, base \cup Border, 1)
    \/ Row(s, 12, base \cup Border \cup {"CLOAKED"}, 1)
    \/ Row(s, 13, base \cup Border, 1)

Loyal(s) == \A n \in Navy : s.status[n] # Terrorist

Before(s)   == Loyal(s) /\ \/ Row(s, 1, {"TORRES"}, 0)
                           \/ \E k \in {2, 3, 4} : Row(s, k, Center, 0)
Accepted(s) == s.status["rebel"] # Terrorist
                 /\ \/ Row(s, 5, Center \cup {"ARMADA"}, 0)
                    \/ Row(s, 7, Center, 0)
                    \/ Late(s, Center)
Refused(s)  == s.status["empire"] # Terrorist
                 /\ \/ Row(s, 6, Center \cup {"CYROS"}, 0)
                    \/ Late(s, Center \cup {"CYROS"})

Good(s) == /\ s \in Quest /\ ~s.torn /\ s.money # Debt
           /\ Before(s) \/ Accepted(s) \/ Refused(s)

\* A torn game with the targets it would have from a whole file.
Mended(s, ts) == [s EXCEPT !.targets = ts, !.torn = FALSE]

Torn(s) == /\ s \in Quest /\ s.torn
           /\ \A p \in Special \ {"RISAR"} : s.map[p] <= 1
           /\ \/ s.targets \subseteq {Junk}
              \/ \E ts \in SUBSET Special :
                    s.targets \subseteq ts \cup {Junk} /\ Good(Mended(s, ts))

Fine(s) == Good(s) \/ Torn(s)

\* The one stage without a target, which only Uleg's box leads out of.
Undecided(s) == s.chapter = 3 /\ s.targets = {}

IInv ==
    /\ mode \in {"menu", "dock", "orbit", "uleg"}
    /\ disk \in {"none", "whole", "cut"} /\ told \in {"nothing", "saved", "failed"}
    /\ Fine(q) /\ Fine(file)
    /\ Torn(file) \/ ~Undecided(file)
    /\ mode = "uleg" => Good(q) /\ Undecided(q)
    /\ mode \in {"dock", "orbit"} => Torn(q) \/ ~Undecided(q)
    /\ mode \in {"orbit", "uleg"} => told = "nothing"

----------------------------------------------------------------------------
(* The table and the operations on a game.                                 *)

\* The table of the story, stage by stage.
LEMMA Stage == /\ Story[1] = <<1, {"TORRES"}>> /\ Story[2] = <<2, {"DYLKA", "JOTHAN"}>>
               /\ Story[3] = <<2, {"JOTHAN"}>> /\ Story[4] = <<3, {}>>
               /\ Story[5] = <<3, {"ARMADA"}>> /\ Story[6] = <<3, {"CYROS"}>>
               /\ Story[7] = <<3, {"JOTHAN"}>> /\ Story[8] = <<3, {"BORDER"}>>
               /\ Story[9] = <<3, {"LIZDOR"}>> /\ Story[10] = <<4, {"RISAR"}>>
               /\ Story[11] = <<4, {"LIZDOR"}>> /\ Story[12] = <<5, {"CLOAKED"}>>
               /\ Story[13] = <<5, {}>> /\ DOMAIN Story = 1..13
  BY DEF Story

\* What one stage after another comes to, field by field.
LEMMA AdvanceRecord ==
    ASSUME NEW s \in Quest, NEW c, NEW ps, NEW ts
    PROVE  goTo(addPlanets(chapterIs(s, c), ps), ts)
             = [chapter |-> c, targets |-> ts,
                map |-> [p \in Special |-> s.map[p] + (IF p \in ps THEN 1 ELSE 0)],
                status |-> s.status, money |-> s.money, torn |-> FALSE]
<1> DEFINE u == chapterIs(s, c)
           v == addPlanets(u, ps)
           t == goTo(v, ts)
<1>1. u = [chapter |-> c, targets |-> s.targets, map |-> s.map,
           status |-> s.status, money |-> s.money, torn |-> s.torn]
  BY DEF chapterIs, Quest
<1>2. v = [u EXCEPT !.map = [p \in Special |-> s.map[p] + (IF p \in ps THEN 1 ELSE 0)]]
  BY <1>1 DEF addPlanets
<1>3. v = [chapter |-> c, targets |-> s.targets,
           map |-> [p \in Special |-> s.map[p] + (IF p \in ps THEN 1 ELSE 0)],
           status |-> s.status, money |-> s.money, torn |-> s.torn]
  BY <1>1, <1>2
<1>4. t = [v EXCEPT !.targets = ts, !.torn = FALSE]
  BY DEF goTo
<1> HIDE DEF t, v
<1>5. t = [chapter |-> c, targets |-> ts,
           map |-> [p \in Special |-> s.map[p] + (IF p \in ps THEN 1 ELSE 0)],
           status |-> s.status, money |-> s.money, torn |-> FALSE]
  BY <1>3, <1>4
<1> QED BY <1>5 DEF t, v

\* Whatever the quest does, the rest of the game stays as it is.
LEMMA Advance ==
    ASSUME NEW s \in Quest, NEW c \in 1..5, NEW ps \in SUBSET Special,
           NEW ts \in SUBSET Special, \A p \in ps : s.map[p] \in 0..1
    PROVE  LET t == goTo(addPlanets(chapterIs(s, c), ps), ts) IN
             /\ t \in Quest /\ t.chapter = c /\ t.targets = ts
             /\ t.status = s.status /\ t.money = s.money /\ ~t.torn
             /\ t.map = [p \in Special |-> s.map[p] + (IF p \in ps THEN 1 ELSE 0)]
<1> DEFINE t == goTo(addPlanets(chapterIs(s, c), ps), ts)
<1>1. s.map \in [Special -> 0..2] /\ s.status \in [Navy -> Standing]
      /\ s.money \in Debt..MaxMoney
  BY DEF Quest
<1>2. t = [chapter |-> c, targets |-> ts,
           map |-> [p \in Special |-> s.map[p] + (IF p \in ps THEN 1 ELSE 0)],
           status |-> s.status, money |-> s.money, torn |-> FALSE]
  BY AdvanceRecord
<1> HIDE DEF t
<1>3. \A p \in Special : s.map[p] + (IF p \in ps THEN 1 ELSE 0) \in 0..2
  <2> TAKE p \in Special
  <2>1. s.map[p] \in 0..2
    BY <1>1
  <2> QED BY <2>1
<1>4. [p \in Special |-> s.map[p] + (IF p \in ps THEN 1 ELSE 0)] \in [Special -> 0..2]
  BY <1>3
<1>5. /\ t \in Quest /\ t.chapter = c /\ t.targets = ts
      /\ t.status = s.status /\ t.money = s.money /\ ~t.torn
      /\ t.map = [p \in Special |-> s.map[p] + (IF p \in ps THEN 1 ELSE 0)]
  BY <1>1, <1>2, <1>4 DEF Quest
<1> QED BY <1>5 DEF t

\* The same without new planets, or within a chapter.
LEMMA AdvanceCases ==
    ASSUME NEW s \in Quest, NEW ps \in SUBSET Special, NEW ts \in SUBSET Special
    PROVE  /\ goTo(s, ts) = goTo(addPlanets(chapterIs(s, s.chapter), {}), ts)
           /\ goTo(addPlanets(s, ps), ts) = goTo(addPlanets(chapterIs(s, s.chapter), ps), ts)
           /\ \A c \in 1..5 :
                goTo(chapterIs(s, c), ts) = goTo(addPlanets(chapterIs(s, c), {}), ts)
<1>1. s.map \in [Special -> 0..2]
  BY DEF Quest
<1>2. s.map = [p \in Special |-> s.map[p] + 0]
  <2>1. \A p \in Special : s.map[p] = s.map[p] + 0
    BY <1>1
  <2> QED BY <1>1, <2>1
<1>3. s = chapterIs(s, s.chapter)
  BY DEF chapterIs, Quest
<1>4. ASSUME NEW c \in 1..5
      PROVE  goTo(chapterIs(s, c), ts) = goTo(addPlanets(chapterIs(s, c), {}), ts)
  BY <1>2 DEF goTo, addPlanets, chapterIs, Quest
<1>5. s.chapter \in 1..5
  BY DEF Quest
<1> QED BY <1>3, <1>4, <1>5

\* Reaching a target leaves the money alone and the list of targets whole.
Whole(s, t) == t.money = s.money /\ ~t.torn

\* One stage of the table after another: the planets ps, which are new, come
\* on the map.
Goes(s, t, j, ps) == j \in 1..13 /\ t = goTo(addPlanets(chapterIs(s, Story[j][1]), ps), Story[j][2])
Adds(S, lo, ps, T, hi) ==
    /\ S \in SUBSET Special /\ ps \in SUBSET Special /\ lo \in 0..1
    /\ ps \cap S = {} /\ T \ {"RISAR"} = (S \cup ps) \ {"RISAR"}
    /\ IF "RISAR" \in ps THEN lo = 0 /\ hi = 1 ELSE hi = lo

\* The next stage has the planets of the last one and the new ones.
LEMMA NextRow ==
    ASSUME NEW s \in Quest, NEW t, NEW k, NEW j, NEW S, NEW ps, NEW lo, NEW T, NEW hi,
           Row(s, k, S, lo), Goes(s, t, j, ps), Adds(S, lo, ps, T, hi)
    PROVE  t \in Quest /\ t.status = s.status /\ Whole(s, t) /\ Row(t, j, T, hi)
<1>0. /\ j \in 1..13 /\ S \in SUBSET Special /\ ps \in SUBSET Special /\ lo \in 0..1
      /\ ps \cap S = {} /\ T \ {"RISAR"} = (S \cup ps) \ {"RISAR"}
      /\ IF "RISAR" \in ps THEN lo = 0 /\ hi = 1 ELSE hi = lo
  BY DEF Adds, Goes
<1>1. Story[j][1] \in 1..5 /\ Story[j][2] \in SUBSET Special
  BY <1>0, Stage DEF Special
<1>2. s.map \in [Special -> 0..2]
  BY DEF Quest
<1>3. \A p \in Special \ {"RISAR"} : s.map[p] = IF p \in S THEN 1 ELSE 0
  BY DEF Row
<1>4. s.map["RISAR"] \in lo..(lo + 1) /\ "RISAR" \in Special
  BY DEF Row, Special
<1>5. \A p \in ps : s.map[p] \in 0..1
  <2> TAKE p \in ps
  <2>1. CASE p = "RISAR"
    BY <2>1, <1>0, <1>4
  <2>2. CASE p # "RISAR"
    BY <2>2, <1>0, <1>3
  <2> QED BY <2>1, <2>2
<1>6. /\ t \in Quest /\ t.chapter = Story[j][1] /\ t.targets = Story[j][2]
      /\ t.status = s.status /\ Whole(s, t)
      /\ t.map = [p \in Special |-> s.map[p] + (IF p \in ps THEN 1 ELSE 0)]
  BY <1>0, <1>1, <1>5, Advance DEF Goes, Whole
<1>7. \A p \in Special \ {"RISAR"} : t.map[p] = IF p \in T THEN 1 ELSE 0
  <2> TAKE p \in Special \ {"RISAR"}
  <2>1. t.map[p] = s.map[p] + (IF p \in ps THEN 1 ELSE 0)
    BY <1>6
  <2>2. s.map[p] = IF p \in S THEN 1 ELSE 0
    BY <1>3
  <2>3. p \in T <=> p \in S \/ p \in ps
    BY <1>0
  <2> QED BY <2>1, <2>2, <2>3, <1>0
<1>8. t.map["RISAR"] = s.map["RISAR"] + (IF "RISAR" \in ps THEN 1 ELSE 0)
  BY <1>4, <1>6
<1>9. t.map["RISAR"] \in hi..(hi + 1)
  <2>1. CASE "RISAR" \in ps
    BY <2>1, <1>0, <1>4, <1>8
  <2>2. CASE "RISAR" \notin ps
    BY <2>2, <1>0, <1>4, <1>8
  <2> QED BY <2>1, <2>2
<1> QED BY <1>6, <1>7, <1>9 DEF Row

\* A planet of the quest gets another name, and is off the map.
Leaves(s, t, j, p, st) ==
  /\ j \in 1..13
  /\ t = [chapter |-> Story[j][1], targets |-> Story[j][2],
          map |-> [s.map EXCEPT ![p] = @ - 1], status |-> st, money |-> s.money,
          torn |-> FALSE]

Drops(S, lo, p, T) ==
    S \in SUBSET Special /\ p \in S \ {"RISAR"} /\ T = S \ {p} /\ lo \in 0..1

\* The next stage after a rename has one planet less.
LEMMA RenameRow ==
    ASSUME NEW s \in Quest, NEW t, NEW k, NEW j,
           NEW S, NEW T, NEW lo, NEW p, NEW st, Drops(S, lo, p, T),
           st \in [Navy -> Standing],
           Row(s, k, S, lo), Leaves(s, t, j, p, st)
    PROVE  t \in Quest /\ t.status = st /\ Whole(s, t) /\ Row(t, j, T, lo)
<1> USE DEF Drops
<1>0. j \in 1..13 /\ t = [chapter |-> Story[j][1], targets |-> Story[j][2],
            map |-> [s.map EXCEPT ![p] = @ - 1], status |-> st, money |-> s.money,
          torn |-> FALSE]
  BY DEF Leaves
<1>1. Story[j][1] \in 1..5 /\ Story[j][2] \in SUBSET Special
  BY <1>0, Stage DEF Special
<1>2. s.map \in [Special -> 0..2] /\ s.money \in Debt..MaxMoney
  BY DEF Quest
<1>3. s.map[p] = 1 /\ p \in Special
  BY DEF Row
<1>4. t.map \in [Special -> 0..2]
  BY <1>0, <1>2, <1>3
<1>5. t \in Quest
  BY <1>0, <1>1, <1>2, <1>4 DEF Quest
<1>6. \A r \in Special \ {"RISAR"} : t.map[r] = IF r \in S \ {p} THEN 1 ELSE 0
  BY <1>0, <1>2, <1>3 DEF Row
<1>7. t.map["RISAR"] \in lo..(lo + 1)
  BY <1>0, <1>2 DEF Row, Special
<1>8. Whole(s, t)
  BY <1>0 DEF Whole
<1> QED BY <1>0, <1>5, <1>6, <1>7, <1>8 DEF Row

\* A game in a row of the table is at that stage.
LEMMA RowStage ==
    ASSUME NEW s, NEW k \in 1..13, NEW S, NEW lo, Row(s, k, S, lo)
    PROVE  k \in Stages(s)
<1>1. Story[k] = <<Story[k][1], Story[k][2]>>
  BY Stage
<1> QED BY <1>1, Stage DEF Row, Stages

\* From one game to the next without going back.
Forward(s, t) ==
    /\ \E i \in Stages(s), j \in Stages(t) : i <= j
    /\ \A n \in Navy : s.status[n] = Terrorist => t.status[n] = Terrorist

\* From row to row without going back in the table.
LEMMA ForwardRow ==
    ASSUME NEW s, NEW t, NEW k \in 1..13, NEW j \in 1..13, k <= j,
           NEW S, NEW lo, Row(s, k, S, lo), NEW T, NEW hi, Row(t, j, T, hi),
           \A n \in Navy : s.status[n] = Terrorist => t.status[n] = Terrorist
    PROVE  Forward(s, t)
<1>1. k \in Stages(s) /\ j \in Stages(t)
  BY RowStage
<1> QED BY <1>1 DEF Forward

\* The last chapters are the same on both branches.
LEMMA LateFacts ==
    ASSUME NEW s \in Quest, NEW base \in SUBSET (Center \cup {"CYROS"}), Late(s, base),
           NEW p \in s.targets, NEW t, t = Reached(s, p)
    PROVE  t \in Quest /\ t.status = s.status /\ Whole(s, t) /\ Late(t, base) /\ Forward(s, t)
<1>0. base \in SUBSET Special /\ base \cap {"BORDER", "LIZDOR", "RISAR", "CLOAKED"} = {}
  BY DEF Center, Special
<1>c. /\ 8 \in 1..13 /\ 9 \in 1..13 /\ 10 \in 1..13
      /\ 11 \in 1..13 /\ 12 \in 1..13 /\ 13 \in 1..13
      /\ 8 <= 9 /\ 9 <= 10 /\ 10 <= 11 /\ 11 <= 12 /\ 12 <= 13
  OBVIOUS
<1>1. CASE Row(s, 8, base \cup {"BORDER"}, 0)
  <2>1. p = "BORDER" /\ s.chapter = 3
    BY <1>1, Stage DEF Row
  <2>2. Goes(s, t, 9, {"LIZDOR"})
    BY <2>1, AdvanceCases, Stage DEF Reached, Goes, Special
  <2>3. Adds(base \cup {"BORDER"}, 0, {"LIZDOR"}, base \cup Border, 0)
    BY <1>0 DEF Adds, Border, Special
  <2>4. t \in Quest /\ t.status = s.status /\ Whole(s, t) /\ Row(t, 9, base \cup Border, 0)
    BY <1>1, <2>2, <2>3, NextRow
  <2>6. Forward(s, t)
    BY <1>1, <1>c, <2>4, ForwardRow
  <2>7. Late(t, base)
    BY <2>4, Zenon DEF Late
  <2> QED BY <2>4, <2>6, <2>7
<1>2. CASE Row(s, 9, base \cup Border, 0)
  <2>1. p = "LIZDOR" /\ s.chapter = 3
    BY <1>2, Stage DEF Row
  <2>2. Goes(s, t, 10, {"RISAR"})
    BY <2>1, Stage DEF Reached, Goes
  <2>3. Adds(base \cup Border, 0, {"RISAR"}, base \cup Border, 1)
    BY <1>0 DEF Adds, Border, Special
  <2>4. t \in Quest /\ t.status = s.status /\ Whole(s, t) /\ Row(t, 10, base \cup Border, 1)
    BY <1>2, <2>2, <2>3, NextRow
  <2>6. Forward(s, t)
    BY <1>2, <1>c, <2>4, ForwardRow
  <2>7. Late(t, base)
    BY <2>4, Zenon DEF Late
  <2> QED BY <2>4, <2>6, <2>7
<1>3. CASE Row(s, 10, base \cup Border, 1)
  <2>1. p = "RISAR" /\ s.chapter = 4
    BY <1>3, Stage DEF Row
  <2>2. Goes(s, t, 11, {})
    <3>1. t = goTo(s, {"LIZDOR"})
      BY <2>1 DEF Reached
    <3> QED BY <2>1, <3>1, AdvanceCases, Stage DEF Goes, Special
  <2>3. Adds(base \cup Border, 1, {}, base \cup Border, 1)
    BY <1>0 DEF Adds, Border, Special
  <2>4. t \in Quest /\ t.status = s.status /\ Whole(s, t) /\ Row(t, 11, base \cup Border, 1)
    BY <1>3, <2>2, <2>3, NextRow
  <2>6. Forward(s, t)
    BY <1>3, <1>c, <2>4, ForwardRow
  <2>7. Late(t, base)
    BY <2>4, Zenon DEF Late
  <2> QED BY <2>4, <2>6, <2>7
<1>4. CASE Row(s, 11, base \cup Border, 1)
  <2>1. p = "LIZDOR" /\ s.chapter = 4
    BY <1>4, Stage DEF Row
  <2>2. Goes(s, t, 12, {"CLOAKED"})
    BY <2>1, Stage DEF Reached, Goes
  <2>3. Adds(base \cup Border, 1, {"CLOAKED"}, base \cup Border \cup {"CLOAKED"}, 1)
    BY <1>0 DEF Adds, Border, Special
  <2>4. t \in Quest /\ t.status = s.status /\ Whole(s, t) /\ Row(t, 12, base \cup Border \cup {"CLOAKED"}, 1)
    BY <1>4, <2>2, <2>3, NextRow
  <2>6. Forward(s, t)
    BY <1>4, <1>c, <2>4, ForwardRow
  <2>7. Late(t, base)
    BY <2>4, Zenon DEF Late
  <2> QED BY <2>4, <2>6, <2>7
<1>5. CASE Row(s, 12, base \cup Border \cup {"CLOAKED"}, 1)
  <2>1. p = "CLOAKED" /\ s.chapter = 5
    BY <1>5, Stage DEF Row
  <2>2. Leaves(s, t, 13, "CLOAKED", s.status)
    <3>1. t = goTo(rename(s, "CLOAKED"), {})
      BY <2>1 DEF Reached
    <3>2. rename(s, "CLOAKED") = [chapter |-> s.chapter, targets |-> s.targets,
             map |-> [s.map EXCEPT !["CLOAKED"] = @ - 1], status |-> s.status,
             money |-> s.money, torn |-> s.torn]
      BY DEF rename, Quest
    <3> DEFINE v == rename(s, "CLOAKED")
    <3>3. t = [v EXCEPT !.targets = {}, !.torn = FALSE]
      BY <3>1 DEF goTo
    <3>4. v = [chapter |-> s.chapter, targets |-> s.targets,
               map |-> [s.map EXCEPT !["CLOAKED"] = @ - 1], status |-> s.status,
               money |-> s.money, torn |-> s.torn]
      BY <3>2
    <3> HIDE DEF v
    <3>5. t = [chapter |-> s.chapter, targets |-> {},
               map |-> [s.map EXCEPT !["CLOAKED"] = @ - 1], status |-> s.status,
               money |-> s.money, torn |-> FALSE]
      BY <3>3, <3>4
    <3> QED BY <2>1, <3>5, Stage DEF Leaves
  <2>3. s.status \in [Navy -> Standing]
    BY DEF Quest
  <2>5. Drops(base \cup Border \cup {"CLOAKED"}, 1, "CLOAKED", base \cup Border)
    BY <1>0 DEF Drops, Border, Special
  <2>4. t \in Quest /\ t.status = s.status /\ Whole(s, t)
        /\ Row(t, 13, base \cup Border, 1)
    BY <1>5, <2>2, <2>3, <2>5, RenameRow
  <2>6. Forward(s, t)
    BY <1>5, <1>c, <2>4, ForwardRow
  <2>7. Late(t, base)
    BY <2>4, Zenon DEF Late
  <2> QED BY <2>4, <2>6, <2>7
<1>6. CASE Row(s, 13, base \cup Border, 1)
  BY <1>6, Stage DEF Row
<1> QED BY <1>1, <1>2, <1>3, <1>4, <1>5, <1>6 DEF Late

\* Only the fourth row waits for the answer to Uleg.
LEMMA RowUndecided ==
    ASSUME NEW s, NEW k \in 1..13, NEW S, NEW lo, Row(s, k, S, lo)
    PROVE  Undecided(s) <=> k = 4
<1>1. s.chapter = Story[k][1] /\ s.targets = Story[k][2]
  BY DEF Row
<1> QED BY <1>1, Stage DEF Undecided

\* After the border there is no open offer.
LEMMA LateDecided ==
    ASSUME NEW s, NEW base, Late(s, base)
    PROVE  ~Undecided(s)
  BY RowUndecided DEF Late

\* The stages before the offer, and what follows each.
LEMMA BeforeFacts ==
    ASSUME NEW s \in Quest, s.money # Debt, Before(s), NEW p \in s.targets, NEW t, t = Reached(s, p)
    PROVE  Good(t) /\ Forward(s, t) /\ (Undecided(t) <=> p = "JOTHAN" /\ s.chapter = 2)
<1>0. /\ 1 \in 1..13 /\ 2 \in 1..13 /\ 3 \in 1..13 /\ 4 \in 1..13
      /\ 1 <= 2 /\ 2 <= 3 /\ 2 <= 4 /\ 3 <= 4
  OBVIOUS
<1>1. CASE Row(s, 1, {"TORRES"}, 0)
  <2>1. p = "TORRES" /\ s.chapter = 1
    BY <1>1, Stage DEF Row
  <2>2. Goes(s, t, 2, {"DYLKA", "JOTHAN"})
    BY <2>1, Stage DEF Reached, Goes
  <2>3. Adds({"TORRES"}, 0, {"DYLKA", "JOTHAN"}, Center, 0)
    BY DEF Adds, Center, Special
  <2>4. t \in Quest /\ t.status = s.status /\ Whole(s, t) /\ Row(t, 2, Center, 0)
    BY <1>1, <2>2, <2>3, NextRow
  <2>5. Forward(s, t)
    BY <1>0, <1>1, <2>4, ForwardRow
  <2>6. ~Undecided(t)
    BY <1>0, <2>4, RowUndecided
  <2> QED BY <2>1, <2>4, <2>5, <2>6 DEF Good, Whole, Before, Loyal
<1>2. CASE Row(s, 2, Center, 0) /\ p = "DYLKA"
  <2>2. Goes(s, t, 3, {})
    <3>1. t = goTo(s, {"JOTHAN"}) /\ s.chapter = 2
      BY <1>2, Stage DEF Reached, Row
    <3> QED BY <3>1, AdvanceCases, Stage DEF Goes, Special
  <2>3. Adds(Center, 0, {}, Center, 0)
    BY DEF Adds, Center, Special
  <2>4. t \in Quest /\ t.status = s.status /\ Whole(s, t) /\ Row(t, 3, Center, 0)
    BY <1>2, <2>2, <2>3, NextRow
  <2>5. Forward(s, t)
    BY <1>0, <1>2, <2>4, ForwardRow
  <2>6. ~Undecided(t)
    BY <1>0, <2>4, RowUndecided
  <2> QED BY <1>2, <2>4, <2>5, <2>6 DEF Good, Whole, Before, Loyal
<1>3. CASE \E k \in {2, 3} : Row(s, k, Center, 0) /\ p = "JOTHAN"
  <2>1. PICK k \in {2, 3} : Row(s, k, Center, 0)
    BY <1>3
  <2>2. s.chapter = 2 /\ k \in 1..13 /\ k <= 4
    BY <2>1, Stage DEF Row
  <2>3. Goes(s, t, 4, {})
    <3>1. t = goTo(chapterIs(s, 3), {})
      BY <1>3, <2>2 DEF Reached
    <3>2. {} \in SUBSET Special /\ 3 \in 1..5
      OBVIOUS
    <3>3. goTo(chapterIs(s, 3), {}) = goTo(addPlanets(chapterIs(s, 3), {}), {})
      BY <3>2, AdvanceCases, Zenon
    <3> QED BY <3>1, <3>3, Stage DEF Goes
  <2>4. Adds(Center, 0, {}, Center, 0)
    BY DEF Adds, Center, Special
  <2>5. t \in Quest /\ t.status = s.status /\ Whole(s, t) /\ Row(t, 4, Center, 0)
    BY <2>1, <2>3, <2>4, NextRow
  <2>6. Forward(s, t)
    BY <1>0, <2>1, <2>2, <2>5, ForwardRow
  <2>7. Undecided(t)
    BY <1>0, <2>5, RowUndecided
  <2> QED BY <1>3, <2>2, <2>5, <2>6, <2>7 DEF Good, Whole, Before, Loyal
<1>4. Row(s, 2, Center, 0) => p \in {"DYLKA", "JOTHAN"}
  BY Stage DEF Row
<1>5. Row(s, 3, Center, 0) => p = "JOTHAN"
  BY Stage DEF Row
<1>6. ~Row(s, 4, Center, 0)
  BY Stage DEF Row
<1> QED BY <1>1, <1>2, <1>3, <1>4, <1>5, <1>6 DEF Before

\* The branch of the Armada: one planet less, and the empire never forgets.
LEMMA AcceptedFacts ==
    ASSUME NEW s \in Quest, s.money # Debt, Accepted(s), NEW p \in s.targets, NEW t, t = Reached(s, p)
    PROVE  Good(t) /\ Forward(s, t) /\ ~Undecided(t) /\ s.chapter # 2
<1>0. /\ 5 \in 1..13 /\ 7 \in 1..13 /\ 8 \in 1..13 /\ 5 <= 7 /\ 7 <= 8
  OBVIOUS
<1>1. CASE Row(s, 5, Center \cup {"ARMADA"}, 0)
  <2> DEFINE st == [s.status EXCEPT !["empire"] = Terrorist]
  <2>1. p = "ARMADA" /\ s.chapter = 3
    BY <1>1, Stage DEF Row
  <2>2. s.status \in [Navy -> Standing]
    BY DEF Quest
  <2>3. st \in [Navy -> Standing] /\ st["rebel"] = s.status["rebel"]
        /\ \A n \in Navy : s.status[n] = Terrorist => st[n] = Terrorist
    BY <2>2 DEF Navy, Standing
  <2>4. Leaves(s, t, 7, "ARMADA", st)
    <3>1. t = goTo([rename(s, "ARMADA") EXCEPT !.status["empire"] = Terrorist], {"JOTHAN"})
      BY <2>1 DEF Reached
    <3>2. rename(s, "ARMADA") = [chapter |-> s.chapter, targets |-> s.targets,
             map |-> [s.map EXCEPT !["ARMADA"] = @ - 1], status |-> s.status,
             money |-> s.money, torn |-> s.torn]
      BY DEF rename, Quest
    <3>3. [rename(s, "ARMADA") EXCEPT !.status["empire"] = Terrorist]
            = [chapter |-> s.chapter, targets |-> s.targets,
               map |-> [s.map EXCEPT !["ARMADA"] = @ - 1], status |-> st, money |-> s.money,
               torn |-> s.torn]
      BY <3>2
    <3> DEFINE v == [rename(s, "ARMADA") EXCEPT !.status["empire"] = Terrorist]
    <3>4. t = [v EXCEPT !.targets = {"JOTHAN"}, !.torn = FALSE]
      BY <3>1 DEF goTo
    <3>5. v = [chapter |-> s.chapter, targets |-> s.targets,
               map |-> [s.map EXCEPT !["ARMADA"] = @ - 1], status |-> st, money |-> s.money,
               torn |-> s.torn]
      BY <3>3
    <3> HIDE DEF st, v
    <3>6. t = [chapter |-> s.chapter, targets |-> {"JOTHAN"},
               map |-> [s.map EXCEPT !["ARMADA"] = @ - 1], status |-> st, money |-> s.money,
               torn |-> FALSE]
      BY <3>4, <3>5
    <3> QED BY <2>1, <3>6, Stage DEF Leaves
  <2> HIDE DEF st
  <2>5. Drops(Center \cup {"ARMADA"}, 0, "ARMADA", Center)
    BY DEF Drops, Center, Special
  <2>6. t \in Quest /\ t.status = st /\ Whole(s, t) /\ Row(t, 7, Center, 0)
    BY <1>1, <2>3, <2>4, <2>5, RenameRow
  <2>7. Forward(s, t)
    BY <1>0, <1>1, <2>3, <2>6, ForwardRow
  <2>8. ~Undecided(t)
    BY <1>0, <2>6, RowUndecided
  <2>9. Accepted(t)
    BY <2>3, <2>6 DEF Accepted
  <2> QED BY <2>1, <2>6, <2>7, <2>8, <2>9 DEF Good, Whole
<1>2. CASE Row(s, 7, Center, 0)
  <2>1. p = "JOTHAN" /\ s.chapter = 3
    BY <1>2, Stage DEF Row
  <2>2. Goes(s, t, 8, {"BORDER"})
    <3>1. t = goTo(addPlanets(s, {"BORDER"}), {"BORDER"})
      BY <2>1 DEF Reached
    <3> QED BY <2>1, <3>1, AdvanceCases, Stage DEF Goes, Special
  <2>3. Adds(Center, 0, {"BORDER"}, Center \cup {"BORDER"}, 0)
    BY DEF Adds, Center, Special
  <2>4. t \in Quest /\ t.status = s.status /\ Whole(s, t) /\ Row(t, 8, Center \cup {"BORDER"}, 0)
    BY <1>2, <2>2, <2>3, NextRow
  <2>5. Forward(s, t)
    BY <1>0, <1>2, <2>4, ForwardRow
  <2>6. Late(t, Center)
    BY <2>4, Zenon DEF Late
  <2>7. ~Undecided(t)
    BY <2>6, LateDecided
  <2> QED BY <2>1, <2>4, <2>5, <2>6, <2>7 DEF Good, Whole, Accepted
<1>3. CASE Late(s, Center)
  <2>1. Center \in SUBSET (Center \cup {"CYROS"})
    OBVIOUS
  <2>2. t \in Quest /\ t.status = s.status /\ Whole(s, t) /\ Late(t, Center) /\ Forward(s, t)
    BY <1>3, <2>1, LateFacts
  <2>3. ~Undecided(t)
    BY <2>2, LateDecided
  <2>4. s.chapter # 2
    BY <1>3, Stage DEF Late, Row
  <2> QED BY <2>2, <2>3, <2>4 DEF Good, Whole, Accepted
<1> QED BY <1>1, <1>2, <1>3 DEF Accepted

\* The branch of Cyros, for whom the rebels will not have back.
LEMMA RefusedFacts ==
    ASSUME NEW s \in Quest, s.money # Debt, Refused(s), NEW p \in s.targets, NEW t, t = Reached(s, p)
    PROVE  Good(t) /\ Forward(s, t) /\ ~Undecided(t) /\ s.chapter # 2
<1>0. 6 \in 1..13 /\ 8 \in 1..13 /\ 6 <= 8
  OBVIOUS
<1>1. CASE Row(s, 6, Center \cup {"CYROS"}, 0)
  <2>1. p = "CYROS" /\ s.chapter = 3
    BY <1>1, Stage DEF Row
  <2>2. Goes(s, t, 8, {"BORDER"})
    <3>1. t = goTo(addPlanets(s, {"BORDER"}), {"BORDER"})
      BY <2>1 DEF Reached
    <3> QED BY <2>1, <3>1, AdvanceCases, Stage DEF Goes, Special
  <2>3. Adds(Center \cup {"CYROS"}, 0, {"BORDER"}, Center \cup {"CYROS"} \cup {"BORDER"}, 0)
    BY DEF Adds, Center, Special
  <2>4. t \in Quest /\ t.status = s.status /\ Whole(s, t)
        /\ Row(t, 8, Center \cup {"CYROS"} \cup {"BORDER"}, 0)
    BY <1>1, <2>2, <2>3, NextRow
  <2>5. Forward(s, t)
    BY <1>0, <1>1, <2>4, ForwardRow
  <2>6. Late(t, Center \cup {"CYROS"})
    BY <2>4, Zenon DEF Late
  <2>7. ~Undecided(t)
    BY <2>6, LateDecided
  <2> QED BY <2>1, <2>4, <2>5, <2>6, <2>7 DEF Good, Whole, Refused
<1>2. CASE Late(s, Center \cup {"CYROS"})
  <2>1. t \in Quest /\ t.status = s.status /\ Whole(s, t) /\ Late(t, Center \cup {"CYROS"}) /\ Forward(s, t)
    BY <1>2, LateFacts
  <2>2. ~Undecided(t)
    BY <2>1, LateDecided
  <2>3. s.chapter # 2
    BY <1>2, Stage DEF Late, Row
  <2> QED BY <2>1, <2>2, <2>3 DEF Good, Whole, Refused
<1> QED BY <1>1, <1>2 DEF Refused

\* Docking at a target leads from one good game to the next; the offer opens at Jothan in chapter 2 and nowhere else.
LEMMA ReachedFacts ==
    ASSUME NEW s, Good(s), NEW p \in s.targets, NEW t, t = Reached(s, p)
    PROVE  Good(t) /\ Forward(s, t) /\ (Undecided(t) <=> p = "JOTHAN" /\ s.chapter = 2)
  BY BeforeFacts, AcceptedFacts, RefusedFacts DEF Good

----------------------------------------------------------------------------
(* What a good game is.                                                    *)

\* Every good game is in some row of the table.
LEMMA GoodRow ==
    ASSUME NEW s, Good(s)
    PROVE  \E k \in 1..13, S \in SUBSET Special, lo \in 0..1 : Row(s, k, S, lo)
<1>0. /\ \A k \in {1, 2, 3, 4, 5, 6, 7, 8, 9, 10, 11, 12, 13} : k \in 1..13
      /\ 0 \in 0..1 /\ 1 \in 0..1
  OBVIOUS
<1>1. ASSUME NEW base \in SUBSET (Center \cup {"CYROS"}), Late(s, base)
      PROVE  \E k \in 1..13, S \in SUBSET Special, lo \in 0..1 : Row(s, k, S, lo)
  <2>1. /\ base \cup {"BORDER"} \in SUBSET Special /\ base \cup Border \in SUBSET Special
        /\ base \cup Border \cup {"CLOAKED"} \in SUBSET Special
    BY DEF Center, Border, Special
  <2> QED BY <1>0, <1>1, <2>1 DEF Late
<1>2. /\ {"TORRES"} \in SUBSET Special /\ Center \in SUBSET Special
      /\ Center \cup {"ARMADA"} \in SUBSET Special /\ Center \cup {"CYROS"} \in SUBSET Special
  BY DEF Center, Special
<1>3. CASE Before(s)
  BY <1>0, <1>2, <1>3 DEF Before
<1>4. CASE Accepted(s)
  BY <1>0, <1>1, <1>2, <1>4 DEF Accepted
<1>5. CASE Refused(s)
  BY <1>0, <1>1, <1>2, <1>5 DEF Refused
<1> QED BY <1>3, <1>4, <1>5 DEF Good

\* A change of money, or of a standing short of terrorist, is none of the
\* story's business.
SameStory(s, t) ==
    /\ t \in Quest /\ t.chapter = s.chapter /\ t.targets = s.targets /\ t.map = s.map
    /\ t.torn = s.torn /\ (t.money = Debt => s.money = Debt)
    /\ \A n \in Navy : t.status[n] = Terrorist <=> s.status[n] = Terrorist

\* Such a change leaves the game good and where it was.
LEMMA GoodSame ==
    ASSUME NEW s, Good(s), NEW t, SameStory(s, t)
    PROVE  Good(t) /\ Forward(s, t) /\ (Undecided(t) <=> Undecided(s))
<1>1. \A k, S, lo : Row(s, k, S, lo) => Row(t, k, S, lo)
  BY DEF SameStory, Row
<1>2. \A base : Late(s, base) => Late(t, base)
  BY <1>1 DEF Late
<1>3. /\ Before(s) => Before(t)
      /\ Accepted(s) => Accepted(t)
      /\ Refused(s) => Refused(t)
  BY <1>1, <1>2 DEF Before, Accepted, Refused, Loyal, SameStory, Navy
<1>4. PICK k \in 1..13, S \in SUBSET Special, lo \in 0..1 : Row(s, k, S, lo)
  BY GoodRow
<1>5. k <= k /\ Row(t, k, S, lo)
  BY <1>1, <1>4
<1>6. Forward(s, t)
  BY <1>4, <1>5, ForwardRow DEF SameStory
<1> QED BY <1>3, <1>6 DEF Good, Undecided, SameStory

\* While the offer is open nobody is a terrorist yet.
LEMMA UndecidedRow ==
    ASSUME NEW s, Good(s), Undecided(s)
    PROVE  s \in Quest /\ Loyal(s) /\ Row(s, 4, Center, 0)
<1>0. \A k \in {1, 2, 3, 4, 5, 6, 7} : k \in 1..13
  OBVIOUS
<1>1. ~Late(s, Center) /\ ~Late(s, Center \cup {"CYROS"})
  BY LateDecided
<1>2. \A k \in {1, 2, 3, 5, 6, 7} : \A S, lo : ~Row(s, k, S, lo)
  BY <1>0, RowUndecided
<1> QED BY <1>1, <1>2 DEF Good, Before, Accepted, Refused

\* Nobody gets off the list of terrorists.
Remembers(s, t) == \A n \in Navy : s.status[n] = Terrorist => t.status[n] = Terrorist

\* What a mended game is made of.
LEMMA MendedRecord ==
    ASSUME NEW s \in Quest, NEW ts
    PROVE  Mended(s, ts) = [chapter |-> s.chapter, targets |-> ts, map |-> s.map,
                            status |-> s.status, money |-> s.money, torn |-> FALSE]
<1> DEFINE m == Mended(s, ts)
<1>1. s = [chapter |-> s.chapter, targets |-> s.targets, map |-> s.map,
           status |-> s.status, money |-> s.money, torn |-> s.torn]
  BY DEF Quest
<1>2. m = [s EXCEPT !.targets = ts, !.torn = FALSE]
  BY DEF Mended
<1> HIDE DEF m
<1>3. m = [chapter |-> s.chapter, targets |-> ts, map |-> s.map,
           status |-> s.status, money |-> s.money, torn |-> FALSE]
  BY <1>1, <1>2
<1> QED BY <1>3 DEF m

\* Other money, or another standing short of terrorist, leaves a torn game torn.
LEMMA TornSame ==
    ASSUME NEW s, Torn(s), NEW t, SameStory(s, t)
    PROVE  Torn(t)
<1>1. s \in Quest /\ t \in Quest /\ t.torn /\ t.targets = s.targets /\ t.map = s.map
  BY DEF SameStory, Torn
<1>2. CASE s.targets \subseteq {Junk}
  BY <1>1, <1>2 DEF Torn
<1>3. CASE \E ts \in SUBSET Special : s.targets \subseteq ts \cup {Junk} /\ Good(Mended(s, ts))
  <2>1. PICK ts \in SUBSET Special : s.targets \subseteq ts \cup {Junk} /\ Good(Mended(s, ts))
    BY <1>3
  <2> DEFINE m == Mended(s, ts)
             n == Mended(t, ts)
  <2>2. /\ m = [chapter |-> s.chapter, targets |-> ts, map |-> s.map,
                status |-> s.status, money |-> s.money, torn |-> FALSE]
        /\ n = [chapter |-> t.chapter, targets |-> ts, map |-> t.map,
                status |-> t.status, money |-> t.money, torn |-> FALSE]
    BY <1>1, MendedRecord
  <2> HIDE DEF m, n
  <2>3. n \in Quest
    BY <1>1, <2>2 DEF Quest
  <2>4. SameStory(m, n)
    BY <2>2, <2>3 DEF SameStory
  <2>5. Good(n)
    BY <2>1, <2>4, GoodSame DEF m
  <2> QED BY <1>1, <2>1, <2>5 DEF Torn, n
<1> QED BY <1>2, <1>3 DEF Torn

\* Whatever a game is, such a change leaves it what it is.
LEMMA FineSame ==
    ASSUME NEW s, Fine(s), NEW t, SameStory(s, t)
    PROVE  /\ Fine(t) /\ (Undecided(t) <=> Undecided(s)) /\ Remembers(s, t)
           /\ Good(s) => Good(t) /\ Forward(s, t)
           /\ Torn(s) => Torn(t)
<1>1. Undecided(t) <=> Undecided(s)
  BY DEF Undecided, SameStory
<1>2. Remembers(s, t)
  BY DEF Remembers, SameStory
<1> QED BY <1>1, <1>2, GoodSame, TornSame DEF Fine

\* The targets of a good game, and the chapters of the two planets with two.
LEMMA GoodTargets ==
    ASSUME NEW s, Good(s)
    PROVE  /\ s \in Quest /\ s.targets \in SUBSET Special
           /\ \A p \in Special \ {"RISAR"} : s.map[p] <= 1
           /\ "JOTHAN" \in s.targets => s.chapter \in {2, 3}
           /\ "LIZDOR" \in s.targets => s.chapter \in {3, 4}
<1>1. PICK k \in 1..13, S \in SUBSET Special, lo \in 0..1 : Row(s, k, S, lo)
  BY GoodRow
<1>2. s.chapter = Story[k][1] /\ s.targets = Story[k][2]
  BY <1>1 DEF Row
<1>3. \A p \in Special \ {"RISAR"} : s.map[p] <= 1
  BY <1>1 DEF Row
<1>4. s.targets \in SUBSET Special
  BY <1>2, Stage DEF Special
<1>5. /\ "JOTHAN" \in s.targets => s.chapter \in {2, 3}
      /\ "LIZDOR" \in s.targets => s.chapter \in {3, 4}
  BY <1>2, Stage
<1> QED BY <1>3, <1>4, <1>5 DEF Good

\* The first target a torn game reaches gives it the list it would have had:
\* every branch of reachedSpecialPlanet writes the whole list.
LEMMA MendedReached ==
    ASSUME NEW s \in Quest, NEW ts, Good(Mended(s, ts)), NEW p \in ts
    PROVE  Reached(s, p) = Reached(Mended(s, ts), p)
<1> DEFINE m == Mended(s, ts)
<1>1. m = [chapter |-> s.chapter, targets |-> ts, map |-> s.map,
           status |-> s.status, money |-> s.money, torn |-> FALSE]
  BY MendedRecord
<1>2. m \in Quest /\ m.targets \in SUBSET Special
      /\ ("JOTHAN" \in m.targets => m.chapter \in {2, 3})
      /\ ("LIZDOR" \in m.targets => m.chapter \in {3, 4})
  BY GoodTargets
<1> HIDE DEF m
<1>3. /\ m.chapter = s.chapter /\ m.map = s.map /\ m.status = s.status
      /\ m.money = s.money /\ p \in m.targets
  BY <1>1
<1>4. ASSUME NEW c, NEW ps, NEW ns
      PROVE  goTo(addPlanets(chapterIs(s, c), ps), ns) = goTo(addPlanets(chapterIs(m, c), ps), ns)
  <2>1. goTo(addPlanets(chapterIs(s, c), ps), ns)
          = [chapter |-> c, targets |-> ns,
             map |-> [r \in Special |-> s.map[r] + (IF r \in ps THEN 1 ELSE 0)],
             status |-> s.status, money |-> s.money, torn |-> FALSE]
    BY AdvanceRecord, Zenon
  <2>2. goTo(addPlanets(chapterIs(m, c), ps), ns)
          = [chapter |-> c, targets |-> ns,
             map |-> [r \in Special |-> m.map[r] + (IF r \in ps THEN 1 ELSE 0)],
             status |-> m.status, money |-> m.money, torn |-> FALSE]
    BY <1>2, AdvanceRecord, Zenon
  <2> QED BY <1>3, <2>1, <2>2, Zenon
<1>5. ASSUME NEW ps \in SUBSET Special, NEW ns \in SUBSET Special
      PROVE  /\ goTo(s, ns) = goTo(m, ns)
             /\ goTo(addPlanets(s, ps), ns) = goTo(addPlanets(m, ps), ns)
             /\ \A c \in 1..5 : goTo(chapterIs(s, c), ns) = goTo(chapterIs(m, c), ns)
  <2>1. /\ goTo(s, ns) = goTo(addPlanets(chapterIs(s, s.chapter), {}), ns)
        /\ goTo(addPlanets(s, ps), ns) = goTo(addPlanets(chapterIs(s, s.chapter), ps), ns)
        /\ \A c \in 1..5 :
             goTo(chapterIs(s, c), ns) = goTo(addPlanets(chapterIs(s, c), {}), ns)
    BY AdvanceCases, Zenon
  <2>2. /\ goTo(m, ns) = goTo(addPlanets(chapterIs(m, s.chapter), {}), ns)
        /\ goTo(addPlanets(m, ps), ns) = goTo(addPlanets(chapterIs(m, s.chapter), ps), ns)
        /\ \A c \in 1..5 :
             goTo(chapterIs(m, c), ns) = goTo(addPlanets(chapterIs(m, c), {}), ns)
    <3>1. /\ goTo(m, ns) = goTo(addPlanets(chapterIs(m, m.chapter), {}), ns)
          /\ goTo(addPlanets(m, ps), ns) = goTo(addPlanets(chapterIs(m, m.chapter), ps), ns)
          /\ \A c \in 1..5 :
               goTo(chapterIs(m, c), ns) = goTo(addPlanets(chapterIs(m, c), {}), ns)
      BY <1>2, AdvanceCases, Zenon
    <3> QED BY <1>3, <3>1
  <2>3. goTo(s, ns) = goTo(m, ns)
    <3>1. goTo(addPlanets(chapterIs(s, s.chapter), {}), ns)
            = goTo(addPlanets(chapterIs(m, s.chapter), {}), ns)
      BY <1>4, Zenon
    <3> QED BY <2>1, <2>2, <3>1, Zenon
  <2>4. goTo(addPlanets(s, ps), ns) = goTo(addPlanets(m, ps), ns)
    <3>1. goTo(addPlanets(chapterIs(s, s.chapter), ps), ns)
            = goTo(addPlanets(chapterIs(m, s.chapter), ps), ns)
      BY <1>4, Zenon
    <3> QED BY <2>1, <2>2, <3>1, Zenon
  <2>5. ASSUME NEW c \in 1..5
        PROVE  goTo(chapterIs(s, c), ns) = goTo(chapterIs(m, c), ns)
    <3>1. goTo(addPlanets(chapterIs(s, c), {}), ns) = goTo(addPlanets(chapterIs(m, c), {}), ns)
      BY <1>4, Zenon
    <3> QED BY <2>1, <2>2, <3>1, Zenon
  <2> QED BY <2>3, <2>4, <2>5, Zenon
<1>6. ASSUME NEW r, NEW ns
      PROVE  goTo(rename(s, r), ns)
               = goTo(rename(m, r), ns)
  <2> DEFINE mp == [s.map EXCEPT ![r] = @ - 1]
             v  == rename(s, r)
             w  == rename(m, r)
             x  == goTo(v, ns)
             y  == goTo(w, ns)
  <2>1. /\ rename(s, r) = [chapter |-> s.chapter, targets |-> s.targets, map |-> mp,
                           status |-> s.status, money |-> s.money, torn |-> s.torn]
        /\ rename(m, r) = [chapter |-> s.chapter, targets |-> m.targets, map |-> mp,
                           status |-> s.status, money |-> s.money, torn |-> m.torn]
    BY <1>2, <1>3 DEF rename, Quest
  <2>2. /\ v = [chapter |-> s.chapter, targets |-> s.targets, map |-> mp,
                status |-> s.status, money |-> s.money, torn |-> s.torn]
        /\ w = [chapter |-> s.chapter, targets |-> m.targets, map |-> mp,
                status |-> s.status, money |-> s.money, torn |-> m.torn]
    BY <2>1
  <2>3. /\ x = [v EXCEPT !.targets = ns, !.torn = FALSE]
        /\ y = [w EXCEPT !.targets = ns, !.torn = FALSE]
    BY DEF goTo
  <2> HIDE DEF mp, v, w, x, y
  <2>4. x = [chapter |-> s.chapter, targets |-> ns, map |-> mp,
             status |-> s.status, money |-> s.money, torn |-> FALSE]
    BY <2>2, <2>3
  <2>5. y = [chapter |-> s.chapter, targets |-> ns, map |-> mp,
             status |-> s.status, money |-> s.money, torn |-> FALSE]
    BY <2>2, <2>3
  <2>6. x = y
    BY <2>4, <2>5, Zenon
  <2> QED BY <2>6, Zenon DEF x, y, v, w
<1>7. ASSUME NEW r, NEW ns
      PROVE  goTo([rename(s, r) EXCEPT !.status["empire"] = Terrorist], ns)
               = goTo([rename(m, r) EXCEPT !.status["empire"] = Terrorist], ns)
  <2> DEFINE mp == [s.map EXCEPT ![r] = @ - 1]
             st == [s.status EXCEPT !["empire"] = Terrorist]
             v  == [rename(s, r) EXCEPT !.status["empire"] = Terrorist]
             w  == [rename(m, r) EXCEPT !.status["empire"] = Terrorist]
             x  == goTo(v, ns)
             y  == goTo(w, ns)
  <2>1. /\ rename(s, r) = [chapter |-> s.chapter, targets |-> s.targets, map |-> mp,
                           status |-> s.status, money |-> s.money, torn |-> s.torn]
        /\ rename(m, r) = [chapter |-> s.chapter, targets |-> m.targets, map |-> mp,
                           status |-> s.status, money |-> s.money, torn |-> m.torn]
    BY <1>2, <1>3 DEF rename, Quest
  <2>2. /\ v = [chapter |-> s.chapter, targets |-> s.targets, map |-> mp,
                status |-> st, money |-> s.money, torn |-> s.torn]
        /\ w = [chapter |-> s.chapter, targets |-> m.targets, map |-> mp,
                status |-> st, money |-> s.money, torn |-> m.torn]
    BY <2>1
  <2>3. /\ x = [v EXCEPT !.targets = ns, !.torn = FALSE]
        /\ y = [w EXCEPT !.targets = ns, !.torn = FALSE]
    BY DEF goTo
  <2> HIDE DEF mp, st, v, w, x, y
  <2>4. x = [chapter |-> s.chapter, targets |-> ns, map |-> mp,
             status |-> st, money |-> s.money, torn |-> FALSE]
    BY <2>2, <2>3
  <2>5. y = [chapter |-> s.chapter, targets |-> ns, map |-> mp,
             status |-> st, money |-> s.money, torn |-> FALSE]
    BY <2>2, <2>3
  <2>6. x = y
    BY <2>4, <2>5, Zenon
  <2> QED BY <2>6, Zenon DEF x, y, v, w
<1>8. /\ {} \in SUBSET Special /\ {"DYLKA", "JOTHAN"} \in SUBSET Special
      /\ \A x \in Special : {x} \in SUBSET Special
      /\ {"JOTHAN", "BORDER", "LIZDOR"} \subseteq Special
      /\ {"JOTHAN"} \in SUBSET Special /\ {"BORDER"} \in SUBSET Special
      /\ {"LIZDOR"} \in SUBSET Special /\ 3 \in 1..5
  BY DEF Special
<1>9. ASSUME p = "TORRES"
      PROVE  Reached(s, p) = Reached(m, p)
  <2>1. /\ Reached(s, p) = goTo(addPlanets(chapterIs(s, 2), {"DYLKA", "JOTHAN"}),
                                {"DYLKA", "JOTHAN"})
        /\ Reached(m, p) = goTo(addPlanets(chapterIs(m, 2), {"DYLKA", "JOTHAN"}),
                                {"DYLKA", "JOTHAN"})
    BY <1>9 DEF Reached
  <2> QED BY <2>1, <1>4, Zenon
<1>10. ASSUME p = "DYLKA"
      PROVE  Reached(s, p) = Reached(m, p)
  <2>1. /\ Reached(s, p) = goTo(s, {"JOTHAN"})
        /\ Reached(m, p) = goTo(m, {"JOTHAN"})
    BY <1>10 DEF Reached
  <2> QED BY <2>1, <1>5, <1>8, Zenon
<1>11. ASSUME p = "JOTHAN" /\ s.chapter = 2
      PROVE  Reached(s, p) = Reached(m, p)
  <2>1. /\ Reached(s, p) = goTo(chapterIs(s, 3), {})
        /\ Reached(m, p) = goTo(chapterIs(m, 3), {})
    BY <1>3, <1>11 DEF Reached
  <2> QED BY <2>1, <1>5, <1>8, Zenon
<1>12. ASSUME p = "JOTHAN" /\ s.chapter = 3
      PROVE  Reached(s, p) = Reached(m, p)
  <2>1. /\ Reached(s, p) = goTo(addPlanets(s, {"BORDER"}), {"BORDER"})
        /\ Reached(m, p) = goTo(addPlanets(m, {"BORDER"}), {"BORDER"})
    BY <1>3, <1>12 DEF Reached
  <2> QED BY <2>1, <1>5, <1>8, Zenon
<1>13. ASSUME p = "ARMADA"
      PROVE  Reached(s, p) = Reached(m, p)
  <2>1. /\ Reached(s, p) = goTo([rename(s, p) EXCEPT !.status["empire"] = Terrorist],
                                {"JOTHAN"})
        /\ Reached(m, p) = goTo([rename(m, p) EXCEPT !.status["empire"] = Terrorist],
                                {"JOTHAN"})
    BY <1>13 DEF Reached
  <2> QED BY <2>1, <1>7, Zenon
<1>14. ASSUME p = "CYROS"
      PROVE  Reached(s, p) = Reached(m, p)
  <2>1. /\ Reached(s, p) = goTo(addPlanets(s, {"BORDER"}), {"BORDER"})
        /\ Reached(m, p) = goTo(addPlanets(m, {"BORDER"}), {"BORDER"})
    BY <1>14 DEF Reached
  <2> QED BY <2>1, <1>5, <1>8, Zenon
<1>15. ASSUME p = "BORDER"
      PROVE  Reached(s, p) = Reached(m, p)
  <2>1. /\ Reached(s, p) = goTo(addPlanets(s, {"LIZDOR"}), {"LIZDOR"})
        /\ Reached(m, p) = goTo(addPlanets(m, {"LIZDOR"}), {"LIZDOR"})
    BY <1>15 DEF Reached
  <2> QED BY <2>1, <1>5, <1>8, Zenon
<1>16. ASSUME p = "LIZDOR" /\ s.chapter = 3
      PROVE  Reached(s, p) = Reached(m, p)
  <2>1. /\ Reached(s, p) = goTo(addPlanets(chapterIs(s, 4), {"RISAR"}), {"RISAR"})
        /\ Reached(m, p) = goTo(addPlanets(chapterIs(m, 4), {"RISAR"}), {"RISAR"})
    BY <1>3, <1>16 DEF Reached
  <2> QED BY <2>1, <1>4, Zenon
<1>17. ASSUME p = "LIZDOR" /\ s.chapter = 4
      PROVE  Reached(s, p) = Reached(m, p)
  <2>1. /\ Reached(s, p) = goTo(addPlanets(chapterIs(s, 5), {"CLOAKED"}), {"CLOAKED"})
        /\ Reached(m, p) = goTo(addPlanets(chapterIs(m, 5), {"CLOAKED"}), {"CLOAKED"})
    BY <1>3, <1>17 DEF Reached
  <2> QED BY <2>1, <1>4, Zenon
<1>18. ASSUME p = "RISAR"
      PROVE  Reached(s, p) = Reached(m, p)
  <2>1. /\ Reached(s, p) = goTo(s, {"LIZDOR"})
        /\ Reached(m, p) = goTo(m, {"LIZDOR"})
    BY <1>18 DEF Reached
  <2> QED BY <2>1, <1>5, <1>8, Zenon
<1>19. ASSUME p = "CLOAKED"
      PROVE  Reached(s, p) = Reached(m, p)
  <2>1. /\ Reached(s, p) = goTo(rename(s, p), {})
        /\ Reached(m, p) = goTo(rename(m, p), {})
    BY <1>19 DEF Reached
  <2> QED BY <2>1, <1>6, Zenon
<1>20. \/ p \in {"TORRES", "DYLKA", "ARMADA", "CYROS", "BORDER", "RISAR", "CLOAKED"}
       \/ p = "JOTHAN" /\ (s.chapter = 2 \/ s.chapter = 3)
       \/ p = "LIZDOR" /\ (s.chapter = 3 \/ s.chapter = 4)
  BY <1>2, <1>3 DEF Special
<1>21. Reached(s, p) = Reached(m, p)
  BY <1>9, <1>10, <1>11, <1>12, <1>13, <1>14, <1>15, <1>16, <1>17, <1>18, <1>19, <1>20
<1> QED BY <1>21 DEF m

\* Docking at a target makes any game a good one.
LEMMA FineReached ==
    ASSUME NEW s, Fine(s), NEW p \in s.targets \ {Junk}, NEW t, t = Reached(s, p)
    PROVE  /\ Good(t) /\ Remembers(s, t) /\ (Good(s) => Forward(s, t))
           /\ Undecided(t) <=> p = "JOTHAN" /\ s.chapter = 2
<1>1. CASE Good(s)
  BY <1>1, ReachedFacts DEF Forward, Remembers
<1>2. CASE Torn(s)
  <2>1. s \in Quest /\ s.torn /\ ~Good(s)
    BY <1>2 DEF Torn, Good
  <2>2. PICK ts \in SUBSET Special : s.targets \subseteq ts \cup {Junk} /\ Good(Mended(s, ts))
    BY <1>2 DEF Torn
  <2>3. p \in ts
    BY <2>2
  <2> DEFINE m == Mended(s, ts)
  <2>4. m.chapter = s.chapter /\ m.status = s.status /\ p \in m.targets
    BY <2>1, <2>3, MendedRecord
  <2>5. t = Reached(m, p)
    BY <2>1, <2>2, <2>3, MendedReached
  <2>6. Good(m)
    BY <2>2
  <2> HIDE DEF m
  <2>7. Good(t) /\ Forward(m, t) /\ (Undecided(t) <=> p = "JOTHAN" /\ m.chapter = 2)
    BY <2>4, <2>5, <2>6, ReachedFacts
  <2> QED BY <2>1, <2>4, <2>7 DEF Forward, Remembers
<1> QED BY <1>1, <1>2 DEF Fine

\* What loadGame makes of a cut file is a game of the table or a torn one.
LEMMA CutFine ==
    ASSUME NEW f, Fine(f), Torn(f) \/ ~Undecided(f), NEW t \in CutFile(f)
    PROVE  Fine(t) /\ (Torn(t) \/ ~Undecided(t))
<1>0. f \in Quest
  BY DEF Fine, Good, Torn
<1>1. CASE t = f
  BY <1>1
<1>2. CASE t \in LostGames(f)
  <2>1. PICK st \in {f.status} \cup {[n \in Navy |-> g] : g \in Standing},
             m \in Debt..MaxMoney :
               t = [chapter |-> 1, targets |-> {}, map |-> [p \in Special |-> 0],
                    status |-> st, money |-> m, torn |-> TRUE]
    BY <1>2 DEF LostGames
  <2>2. st \in [Navy -> Standing]
    BY <1>0, <2>1 DEF Quest
  <2>3. [p \in Special |-> 0] \in [Special -> 0..2] /\ 1 \in 1..5
    OBVIOUS
  <2>4. t \in Quest
    BY <2>1, <2>2, <2>3 DEF Quest
  <2> QED BY <2>1, <2>4 DEF Fine, Torn
<1>3. CASE t \in TornLists(f)
  <2>1. PICK ts \in {{}, (f.targets \ {Junk}) \ {"JOTHAN"}, f.targets \ {Junk}},
             js \in {{}, {Junk}} :
          t = [f EXCEPT !.targets = ts \cup js, !.torn = TRUE]
    BY <1>3 DEF TornLists
  <2>2. t = [chapter |-> f.chapter, targets |-> ts \cup js, map |-> f.map,
             status |-> f.status, money |-> f.money, torn |-> TRUE]
    BY <1>0, <2>1 DEF Quest
  <2>3. ts \subseteq f.targets \ {Junk} /\ t.targets \subseteq f.targets \cup {Junk}
    BY <2>1, <2>2
  <2>4. t \in Quest /\ t.torn
    BY <1>0, <2>2, <2>3 DEF Quest
  <2>5. \A us : Mended(t, us) = Mended(f, us)
    BY <1>0, <2>2, <2>4, MendedRecord
  <2>6. CASE Good(f)
    <3>1. f.targets \in SUBSET Special /\ \A p \in Special \ {"RISAR"} : f.map[p] <= 1
      BY <2>6, GoodTargets
    <3>2. Mended(f, f.targets) = f
      BY <1>0, <2>6, MendedRecord DEF Good, Quest
    <3>3. Good(Mended(t, f.targets))
      BY <2>5, <2>6, <3>2
    <3> QED BY <2>2, <2>3, <2>4, <3>1, <3>3 DEF Torn, Fine
  <2>7. CASE Torn(f)
    <3>1. \A p \in Special \ {"RISAR"} : t.map[p] <= 1
      BY <2>2, <2>7 DEF Torn
    <3>2. CASE f.targets \subseteq {Junk}
      BY <2>3, <2>4, <3>1, <3>2 DEF Torn, Fine
    <3>3. CASE \E us \in SUBSET Special : f.targets \subseteq us \cup {Junk} /\ Good(Mended(f, us))
      BY <2>3, <2>4, <2>5, <3>1, <3>3 DEF Torn, Fine
    <3> QED BY <2>7, <3>2, <3>3 DEF Torn
  <2> QED BY <2>6, <2>7 DEF Fine
<1> QED BY <1>1, <1>2, <1>3 DEF CutFile

\* Either answer to Uleg puts one planet on the map and makes it the target.
Answers(s, t, j, p, st, m) ==
    /\ (j = 5 /\ p = "ARMADA") \/ (j = 6 /\ p = "CYROS")
    /\ st \in [Navy -> Standing] /\ m \in (Debt..MaxMoney) \ {Debt}
    /\ t = [chapter |-> s.chapter, targets |-> s.targets \cup {p},
            map |-> addPlanets(s, {p}).map, status |-> st, money |-> m, torn |-> FALSE]

\* After the answer the game is in the row of its branch.
LEMMA Answered ==
    ASSUME NEW s, Good(s), Undecided(s),
           NEW t, NEW j, NEW p, NEW st, NEW m, Answers(s, t, j, p, st, m)
    PROVE  t \in Quest /\ t.status = st /\ ~t.torn /\ t.money # Debt
           /\ Row(t, j, Center \cup {p}, 0)
           /\ Forward(s, t) /\ ~Undecided(t)
<1>0. /\ j \in {5, 6} /\ p = IF j = 5 THEN "ARMADA" ELSE "CYROS"
      /\ st \in [Navy -> Standing] /\ m \in Debt..MaxMoney /\ m # Debt
      /\ t = [chapter |-> s.chapter, targets |-> s.targets \cup {p},
              map |-> addPlanets(s, {p}).map, status |-> st, money |-> m, torn |-> FALSE]
  BY DEF Answers
<1>1. s \in Quest /\ Loyal(s) /\ Row(s, 4, Center, 0)
  BY UndecidedRow
<1>2. /\ s.chapter = 3 /\ s.targets = {} /\ p \in Special /\ p # "RISAR"
      /\ Center \in SUBSET Special /\ p \notin Center
  BY <1>0 DEF Undecided, Special, Center
<1>3. s.map \in [Special -> 0..2]
  BY <1>1 DEF Quest
<1>4. t.map = [r \in Special |-> s.map[r] + (IF r \in {p} THEN 1 ELSE 0)]
  BY <1>0, <1>1 DEF addPlanets, Quest
<1>5. \A r \in Special \ {"RISAR"} : t.map[r] = IF r \in Center \cup {p} THEN 1 ELSE 0
  BY <1>1, <1>2, <1>4 DEF Row
<1>6. t.map["RISAR"] \in 0..1
  BY <1>1, <1>2, <1>3, <1>4 DEF Row, Special
<1>7. t \in Quest
  <2>1. \A r \in Special : t.map[r] \in 0..2
    BY <1>5, <1>6
  <2>2. t.map \in [Special -> 0..2]
    BY <1>4, <2>1
  <2> QED BY <1>0, <1>2, <2>2 DEF Quest
<1>8. Story[j] = <<3, {p}>> /\ t.chapter = 3 /\ t.targets = {p}
  BY <1>0, <1>2, Stage
<1>9. Row(t, j, Center \cup {p}, 0)
  BY <1>5, <1>6, <1>8 DEF Row
<1>10. Forward(s, t)
  <2>1. 4 \in 1..13 /\ j \in 1..13 /\ 4 <= j
    BY <1>0
  <2> QED BY <1>1, <1>9, <2>1, ForwardRow DEF Loyal
<1>11. ~Undecided(t)
  BY <1>8 DEF Undecided
<1> QED BY <1>0, <1>7, <1>9, <1>10, <1>11

\* A new campaign is in the first row.
LEMMA Started ==
    ASSUME NEW n \in 0..1
    PROVE  Good(Start(n)) /\ ~Undecided(Start(n))
<1> DEFINE s == Start(n)
<1>1. s \in Quest /\ ~s.torn /\ s.money # Debt
  <2>1. 2 \in Debt..MaxMoney /\ 2 # Debt
    BY MoneyAssumption DEF MoneyAssumption, Debt
  <2>2. [m \in Navy |-> Clean] \in [Navy -> Standing]
    BY DEF Standing
  <2>3. [p \in Special |-> IF p = "TORRES" THEN 1 ELSE IF p = "RISAR" THEN n ELSE 0]
          \in [Special -> 0..2]
    OBVIOUS
  <2>4. {"TORRES"} \in SUBSET (Special \cup {Junk}) /\ 1 \in 1..5
    BY DEF Special
  <2> QED BY <2>1, <2>2, <2>3, <2>4 DEF Start, Quest
<1>2. Row(s, 1, {"TORRES"}, 0)
  BY Stage DEF Start, Row, Special
<1>3. Loyal(s)
  BY DEF Start, Loyal, Navy, Clean, Terrorist
<1>4. ~Undecided(s)
  BY DEF Start, Undecided
<1> QED BY <1>1, <1>2, <1>3, <1>4 DEF Good, Before

----------------------------------------------------------------------------
(* The steps of the game.                                                  *)

\* The first state has the invariant.
LEMMA InitIInv == Init => IInv
<1> SUFFICES ASSUME Init PROVE IInv
  OBVIOUS
<1>1. 0 \in 0..1
  OBVIOUS
<1>2. Good(Start(0)) /\ ~Undecided(Start(0))
  BY <1>1, Started
<1> QED BY <1>2 DEF Init, IInv, Fine

\* What a step of the game does to the story when it restores no game.
Onward == Remembers(q, q') /\ (Good(q) => Forward(q, q'))

\* Every step keeps the invariant, and moves the story onward unless it
\* restores a game.
LEMMA NextIInv ==
    ASSUME IInv, [Next]_vars
    PROVE  IInv' /\ (~Restored => Onward)
<1>0. /\ Fine(q) /\ Fine(file) /\ q \in Quest
      /\ Torn(file) \/ ~Undecided(file)
      /\ mode \in {"menu", "dock", "orbit", "uleg"}
      /\ disk \in {"none", "whole", "cut"} /\ told \in {"nothing", "saved", "failed"}
      /\ mode = "uleg" => Good(q) /\ Undecided(q)
      /\ mode \in {"dock", "orbit"} => Torn(q) \/ ~Undecided(q)
      /\ mode \in {"orbit", "uleg"} => told = "nothing"
  BY DEF IInv, Fine, Good, Torn
<1>a. /\ q.status \in [Navy -> Standing] /\ q.money \in Debt..MaxMoney
      /\ q = [chapter |-> q.chapter, targets |-> q.targets, map |-> q.map,
              status |-> q.status, money |-> q.money, torn |-> q.torn]
  BY <1>0 DEF Quest
<1>b. SameStory(q, q)
  BY <1>0 DEF SameStory
<1>c. q' = q => /\ Fine(q') /\ Onward /\ (Undecided(q') <=> Undecided(q))
                /\ (Torn(q) => Torn(q')) /\ (Good(q) => Good(q'))
  BY <1>0, <1>b, FineSame DEF Onward
<1>1. CASE NewCampaign
  <2>1. PICK n \in 0..1 : q' = Start(n)
    BY <1>1 DEF NewCampaign
  <2>2. Good(q') /\ ~Undecided(q')
    BY <2>1, Started
  <2>3. mode' = "dock" /\ told' = "nothing" /\ file' = file /\ disk' = disk
    BY <1>1 DEF NewCampaign
  <2> QED BY <1>0, <1>1, <2>2, <2>3 DEF IInv, Fine, Restored
<1>2. CASE Launch
  BY <1>0, <1>2, <1>c DEF Launch, IInv
<1>3. CASE RefuseSurrender
  <2>1. PICK n \in Navy : q.status[n] = Clean /\ q' = [q EXCEPT !.status[n] = Fugitive]
    BY <1>3 DEF RefuseSurrender
  <2>2. q' = [chapter |-> q.chapter, targets |-> q.targets, map |-> q.map,
              status |-> [q.status EXCEPT ![n] = Fugitive], money |-> q.money,
              torn |-> q.torn]
    BY <1>a, <2>1
  <2>3. [q.status EXCEPT ![n] = Fugitive] \in [Navy -> Standing]
    BY <1>a DEF Standing
  <2>4. \A m \in Navy : [q.status EXCEPT ![n] = Fugitive][m] = Terrorist
                           <=> q.status[m] = Terrorist
    BY <1>a, <2>1 DEF Clean, Fugitive, Terrorist
  <2>5. q' \in Quest
    BY <1>0, <2>2, <2>3 DEF Quest
  <2>6. SameStory(q, q')
    BY <2>2, <2>4, <2>5 DEF SameStory
  <2>7. /\ Fine(q') /\ Onward /\ (Undecided(q') <=> Undecided(q)) /\ (Torn(q) => Torn(q'))
    BY <1>0, <2>6, FineSame DEF Onward
  <2>8. mode = "dock" /\ mode' = "orbit" /\ told' = "nothing" /\ file' = file /\ disk' = disk
    BY <1>3 DEF RefuseSurrender
  <2> QED BY <1>0, <2>7, <2>8 DEF IInv
<1>4. CASE Dock
  <2>1. mode = "orbit" /\ told = "nothing" /\ file' = file /\ disk' = disk /\ told' = told
    BY <1>0, <1>4 DEF Dock
  <2>2. CASE q' = q /\ mode' = "dock"
    BY <1>0, <1>c, <2>1, <2>2 DEF IInv
  <2>3. CASE \E p \in q.targets \ {Junk} :
               /\ q' = Reached(q, p)
               /\ mode' = IF p = "JOTHAN" /\ q.chapter = 2 THEN "uleg" ELSE "dock"
    <3>1. PICK p \in q.targets \ {Junk} :
             /\ q' = Reached(q, p)
             /\ mode' = IF p = "JOTHAN" /\ q.chapter = 2 THEN "uleg" ELSE "dock"
      BY <2>3
    <3>2. Good(q') /\ Onward /\ (Undecided(q') <=> p = "JOTHAN" /\ q.chapter = 2)
      BY <1>0, <3>1, FineReached DEF Onward
    <3> QED BY <1>0, <2>1, <3>1, <3>2 DEF IInv, Fine
  <2> QED BY <1>4, <2>2, <2>3 DEF Dock
<1>5. CASE ulegAccept
  <2> DEFINE st == [q.status EXCEPT !["rebel"] = Clean]
  <2>1. /\ mode = "uleg" /\ mode' = "dock" /\ file' = file /\ disk' = disk /\ told' = told
        /\ q' = [addPlanets(q, {"ARMADA"}) EXCEPT !.targets = @ \cup {"ARMADA"},
                                                  !.status["rebel"] = Clean]
    BY <1>5 DEF ulegAccept
  <2>a. Good(q) /\ Undecided(q) /\ ~q.torn /\ q.money # Debt
    BY <1>0, <2>1 DEF Good
  <2> DEFINE v == addPlanets(q, {"ARMADA"})
             newMap == v.map
  <2>2. v = [chapter |-> q.chapter, targets |-> q.targets, map |-> newMap,
             status |-> q.status, money |-> q.money, torn |-> q.torn]
    BY <1>a DEF addPlanets
  <2>3. q' = [chapter |-> q.chapter, targets |-> q.targets \cup {"ARMADA"},
              map |-> newMap, status |-> st, money |-> q.money, torn |-> q.torn]
    <3>1. q' = [v EXCEPT !.targets = @ \cup {"ARMADA"}, !.status["rebel"] = Clean]
      BY <2>1
    <3> HIDE DEF v, newMap
    <3> QED BY <2>2, <3>1
  <2>4. st \in [Navy -> Standing] /\ st["rebel"] # Terrorist
    BY <1>a DEF Navy, Standing, Clean, Terrorist
  <2>b. q.torn = FALSE
    BY <1>0, <2>a DEF Quest
  <2> HIDE DEF st
  <2>5. Answers(q, q', 5, "ARMADA", st, q.money)
    BY <1>a, <2>a, <2>b, <2>3, <2>4 DEF Answers
  <2>6. /\ q' \in Quest /\ q'.status = st /\ ~q'.torn /\ q'.money # Debt
        /\ Row(q', 5, Center \cup {"ARMADA"}, 0)
        /\ Forward(q, q') /\ ~Undecided(q')
    BY <2>a, <2>5, Answered
  <2>7. Good(q') /\ Onward
    BY <2>4, <2>6 DEF Good, Accepted, Onward, Remembers, Forward
  <2> QED BY <1>0, <2>1, <2>6, <2>7 DEF IInv, Fine
<1>6. CASE ulegRefuse
  <2> DEFINE st == [q.status EXCEPT !["rebel"] = Terrorist]
  <2>1. /\ mode = "uleg" /\ mode' = "dock" /\ file' = file /\ disk' = disk /\ told' = told
        /\ q' = [addPlanets(q, {"CYROS"}) EXCEPT !.targets = @ \cup {"CYROS"},
                                                 !.status["rebel"] = Terrorist, !.money = 2]
    BY <1>6 DEF ulegRefuse
  <2>a. Good(q) /\ Undecided(q) /\ ~q.torn
    BY <1>0, <2>1 DEF Good
  <2> DEFINE v == addPlanets(q, {"CYROS"})
             newMap == v.map
  <2>2. v = [chapter |-> q.chapter, targets |-> q.targets, map |-> newMap,
             status |-> q.status, money |-> q.money, torn |-> q.torn]
    BY <1>a DEF addPlanets
  <2>3. q' = [chapter |-> q.chapter, targets |-> q.targets \cup {"CYROS"},
              map |-> newMap, status |-> st, money |-> 2, torn |-> q.torn]
    <3>1. q' = [v EXCEPT !.targets = @ \cup {"CYROS"}, !.status["rebel"] = Terrorist, !.money = 2]
      BY <2>1
    <3> HIDE DEF v, newMap
    <3> QED BY <2>2, <3>1
  <2>4. Loyal(q)
    BY <2>a, UndecidedRow
  <2>5. st \in [Navy -> Standing] /\ st["empire"] # Terrorist
    BY <1>a, <2>4 DEF Navy, Loyal, Standing
  <2>b. q.torn = FALSE /\ 2 \in (Debt..MaxMoney) \ {Debt}
    BY <1>0, <2>a, MoneyAssumption DEF Quest, Debt
  <2> HIDE DEF st
  <2>6. Answers(q, q', 6, "CYROS", st, 2)
    BY <2>3, <2>5, <2>b DEF Answers
  <2>7. /\ q' \in Quest /\ q'.status = st /\ ~q'.torn /\ q'.money # Debt
        /\ Row(q', 6, Center \cup {"CYROS"}, 0)
        /\ Forward(q, q') /\ ~Undecided(q')
    BY <2>a, <2>6, Answered
  <2>8. Good(q') /\ Onward
    BY <2>5, <2>7 DEF Good, Refused, Onward, Remembers, Forward
  <2> QED BY <1>0, <2>1, <2>7, <2>8 DEF IInv, Fine
<1>7. CASE Trade
  <2>1. PICK m \in 0..MaxMoney \cup {q.money} : q' = [q EXCEPT !.money = m]
    BY <1>7 DEF Trade
  <2>2. q' = [chapter |-> q.chapter, targets |-> q.targets, map |-> q.map,
              status |-> q.status, money |-> m, torn |-> q.torn]
    BY <1>a, <2>1
  <2>3. m \in Debt..MaxMoney /\ (m = Debt => q.money = Debt)
    BY <1>a, <2>1, MoneyAssumption DEF Debt
  <2>4. q' \in Quest
    BY <1>0, <2>2, <2>3 DEF Quest
  <2>5. SameStory(q, q')
    BY <2>2, <2>3, <2>4 DEF SameStory
  <2>6. Fine(q') /\ Onward /\ (Undecided(q') <=> Undecided(q)) /\ (Torn(q) => Torn(q'))
    BY <1>0, <2>5, FineSame DEF Onward
  <2>7. mode = "dock" /\ mode' = mode /\ told' = "nothing" /\ file' = file /\ disk' = disk
    BY <1>7 DEF Trade
  <2> QED BY <1>0, <2>6, <2>7 DEF IInv
<1>8. CASE SaveGame
  <2>1. q.money >= 1 /\ mode = "dock"
    BY <1>8 DEF SaveGame
  <2>2. q.money - 1 \in Debt..MaxMoney /\ q.money - 1 # Debt
    BY <1>a, <2>1, MoneyAssumption DEF Debt
  <2>3. Paid = [chapter |-> q.chapter, targets |-> q.targets, map |-> q.map,
                status |-> q.status, money |-> q.money - 1, torn |-> q.torn]
    BY <1>a DEF Paid
  <2>4. Paid \in Quest
    BY <1>0, <2>2, <2>3 DEF Quest
  <2>5. SameStory(q, Paid)
    BY <2>2, <2>3, <2>4 DEF SameStory
  <2>6. /\ Fine(Paid) /\ (Torn(Paid) \/ ~Undecided(Paid))
        /\ Remembers(q, Paid) /\ (Good(q) => Forward(q, Paid))
    BY <1>0, <2>1, <2>5, FineSame
  <2>7. CASE /\ q' = Paid /\ file' = Paid /\ disk' \in {"whole", "cut"}
             /\ told' = "saved" /\ mode' = mode
    BY <1>0, <2>1, <2>6, <2>7 DEF IInv, Onward
  <2>8. CASE /\ q' = q /\ file' = Paid /\ disk' = "cut"
             /\ told' = "failed" /\ mode' = mode
    BY <1>0, <1>c, <2>1, <2>6, <2>8 DEF IInv
  <2>9. CASE told' = "failed" /\ UNCHANGED <<mode, q, file, disk>>
    BY <1>0, <1>c, <2>1, <2>9 DEF IInv
  <2>10. CASE /\ q' = q /\ file' = Paid /\ disk' = "cut"
              /\ told' = "nothing" /\ mode' = "menu"
    BY <1>0, <1>c, <2>6, <2>10 DEF IInv
  <2> QED BY <1>8, <2>7, <2>8, <2>9, <2>10 DEF SaveGame
<1>9. CASE LoadGame
  <2>1. mode = "menu" /\ file' = file /\ disk' = disk
    BY <1>9 DEF LoadGame
  <2>2. CASE /\ q' = file \/ q' \in CutFile(file)
             /\ mode' = "dock" /\ told' = "nothing"
    <3>1. Fine(q') /\ (Torn(q') \/ ~Undecided(q'))
      BY <1>0, <2>2, CutFine
    <3> QED BY <1>0, <1>9, <2>1, <2>2, <3>1 DEF IInv, Restored
  <2>3. CASE told' = "failed" /\ mode' = mode /\ q' = q
    BY <1>0, <1>9, <1>c, <2>1, <2>3 DEF IInv, Restored
  <2> QED BY <1>9, <2>2, <2>3 DEF LoadGame
<1>10. CASE Leave
  BY <1>0, <1>10, <1>c DEF Leave, IInv
<1>11. CASE UNCHANGED vars
  BY <1>0, <1>11, <1>c DEF vars, IInv
<1> QED
  BY <1>1, <1>2, <1>3, <1>4, <1>5, <1>6, <1>7, <1>8, <1>9, <1>10, <1>11 DEF Next

\* Every reachable game, and the one in the save file, is in the table of the
\* story, or it comes from a cut file: then it has no target any more, or is a
\* game of the table but for the targets that the cut took.
THEOREM CampaignInvariance == Spec => []IInv
  BY InitIInv, NextIInv, PTL DEF Spec

\* Saving never leaves the player in debt, unless a cut file did, and no planet
\* of the quest but RISAR is put on the map twice.
THEOREM CampaignTyped == Spec => []TypeOK
<1>1. ASSUME IInv PROVE TypeOK
  <2>1. Fine(q) /\ Fine(file)
    BY <1>1 DEF IInv
  <2>2. {q, file} \subseteq Quest
    BY <2>1 DEF Fine, Good, Torn
  <2>3. q.money = Debt => q.torn
    BY <2>1 DEF Fine, Good, Torn
  <2>4. \A p \in Special \ {"RISAR"} : q.map[p] <= 1
    BY <2>1, GoodTargets DEF Fine, Torn
  <2> QED BY <1>1, <2>2, <2>3, <2>4 DEF TypeOK, IInv
<1> QED BY <1>1, CampaignInvariance, PTL

\* A row whose targets are on the map lets the story go on.
LEMMA RowGoesOn ==
    ASSUME NEW s, NEW k \in 1..13, NEW S, NEW lo \in 0..1, Row(s, k, S, lo), k # 4, k # 13,
           Story[k][2] \ {"RISAR"} \subseteq S, k = 10 => lo = 1
    PROVE  s.targets # {} /\ \A p \in s.targets : s.map[p] > 0
<1>1. s.targets = Story[k][2] /\ Story[k][2] # {} /\ Story[k][2] \subseteq Special
      /\ ("RISAR" \in Story[k][2] => k = 10)
  BY Stage DEF Row, Special
<1> SUFFICES ASSUME NEW p \in s.targets PROVE s.map[p] > 0
  BY <1>1
<1>2. CASE p = "RISAR"
  BY <1>1, <1>2 DEF Row
<1>3. CASE p # "RISAR"
  <2>1. p \in Special \ {"RISAR"} /\ p \in S
    BY <1>1, <1>3
  <2> QED BY <2>1 DEF Row
<1> QED BY <1>2, <1>3

Ended(s)  == s.chapter = 5 /\ s.targets = {} /\ s.map["CLOAKED"] = 0
GoesOn(s) == s.targets # {} /\ \A p \in s.targets : s.map[p] > 0

\* From the border on the story is over or goes on.
LEMMA LateGoesOn ==
    ASSUME NEW s, NEW base \in SUBSET (Center \cup {"CYROS"}), Late(s, base)
    PROVE  Ended(s) \/ GoesOn(s)
<1>1. CASE Row(s, 8, base \cup {"BORDER"}, 0)
  BY <1>1, RowGoesOn, Stage DEF GoesOn
<1>2. CASE Row(s, 9, base \cup Border, 0)
  BY <1>2, RowGoesOn, Stage DEF GoesOn, Border
<1>3. CASE Row(s, 10, base \cup Border, 1)
  BY <1>3, RowGoesOn, Stage DEF GoesOn, Border
<1>4. CASE Row(s, 11, base \cup Border, 1)
  BY <1>4, RowGoesOn, Stage DEF GoesOn, Border
<1>5. CASE Row(s, 12, base \cup Border \cup {"CLOAKED"}, 1)
  BY <1>5, RowGoesOn, Stage DEF GoesOn
<1>6. CASE Row(s, 13, base \cup Border, 1)
  BY <1>6, Stage DEF Ended, Row, Border, Center, Special
<1> QED BY <1>1, <1>2, <1>3, <1>4, <1>5, <1>6 DEF Late

\* A game of the table whose offer is not open is over or goes on.
LEMMA GoodGoesOn ==
    ASSUME NEW s, Good(s), ~Undecided(s)
    PROVE  Ended(s) \/ GoesOn(s)
<1>1. CASE Before(s)
  <2>1. ~Row(s, 4, Center, 0)
    <3>1. 4 \in 1..13
      OBVIOUS
    <3> QED BY <3>1, RowUndecided
  <2>2. Row(s, 1, {"TORRES"}, 0) => GoesOn(s)
    BY RowGoesOn, Stage DEF GoesOn
  <2>3. Row(s, 2, Center, 0) => GoesOn(s)
    BY RowGoesOn, Stage DEF GoesOn, Center
  <2>4. Row(s, 3, Center, 0) => GoesOn(s)
    BY RowGoesOn, Stage DEF GoesOn, Center
  <2> QED BY <1>1, <2>1, <2>2, <2>3, <2>4 DEF Before
<1>2. CASE Accepted(s)
  <2>1. Row(s, 5, Center \cup {"ARMADA"}, 0) => GoesOn(s)
    BY RowGoesOn, Stage DEF GoesOn
  <2>2. Row(s, 7, Center, 0) => GoesOn(s)
    BY RowGoesOn, Stage DEF GoesOn, Center
  <2> QED BY <1>2, <2>1, <2>2, LateGoesOn DEF Accepted
<1>3. CASE Refused(s)
  <2>1. Row(s, 6, Center \cup {"CYROS"}, 0) => GoesOn(s)
    BY RowGoesOn, Stage DEF GoesOn
  <2> QED BY <1>3, <2>1, LateGoesOn DEF Refused
<1> QED BY <1>1, <1>2, <1>3 DEF Good

\* The targets that a cut has left are on the map.
LEMMA TornTargets ==
    ASSUME NEW s, Torn(s)
    PROVE  \A p \in s.targets \ {Junk} : s.map[p] > 0
<1> SUFFICES ASSUME NEW p \in s.targets \ {Junk} PROVE s.map[p] > 0
  OBVIOUS
<1>1. s \in Quest
  BY DEF Torn
<1>2. PICK ts \in SUBSET Special : s.targets \subseteq ts \cup {Junk} /\ Good(Mended(s, ts))
  BY DEF Torn
<1> DEFINE m == Mended(s, ts)
<1>3. p \in m.targets /\ m.map = s.map
  BY <1>1, <1>2, MendedRecord
<1>4. Good(m)
  BY <1>2
<1> HIDE DEF m
<1>5. ~Undecided(m) /\ ~Ended(m)
  BY <1>3 DEF Undecided, Ended
<1>6. GoesOn(m)
  BY <1>4, <1>5, GoodGoesOn
<1> QED BY <1>3, <1>6 DEF GoesOn

\* The story is never stuck, after any number of saves and loads, unless a cut
\* file has taken targets away; and whatever target a file leaves can be
\* reached, but for the name the cut went through.
THEOREM QuestNeverStuck == Spec => []QuestGoesOn
<1>1. ASSUME IInv PROVE QuestGoesOn
  <2> SUFFICES ASSUME mode \in {"dock", "orbit"}
               PROVE  /\ Finished \/ q.targets # {} \/ q.torn
                      /\ \A p \in q.targets \ {Junk} : q.map[p] > 0
                      /\ Junk \in q.targets => q.torn
    BY DEF QuestGoesOn
  <2>1. Torn(q) \/ (Good(q) /\ ~Undecided(q))
    BY <1>1 DEF IInv, Fine
  <2>2. CASE Torn(q)
    BY <2>2, TornTargets DEF Torn
  <2>3. CASE Good(q) /\ ~Undecided(q)
    <3>1. Ended(q) \/ GoesOn(q)
      BY <2>3, GoodGoesOn
    <3>2. Junk \notin q.targets
      BY <2>3, GoodTargets DEF Junk, Special
    <3> QED BY <3>1, <3>2 DEF Finished, Ended, GoesOn
  <2> QED BY <2>1, <2>2, <2>3
<1> QED BY <1>1, CampaignInvariance, PTL

\* Nobody betrays both navies, across any number of saves and loads, in a game
\* whose standings were read from the file.
THEOREM NoDoubleBetrayal == Spec => []OneBetrayal
<1>1. ASSUME IInv PROVE OneBetrayal
  BY <1>1 DEF IInv, Fine, Torn, Good, Before, Loyal, Accepted, Refused, OneBetrayal, Navy
<1> QED BY <1>1, CampaignInvariance, PTL

\* A save costs its price if it says that it was made and nothing if it says
\* that it failed, and a whole file holds the game as it goes on.
THEOREM SavesFaithful == Spec => SaveIsFaithful
<1>1. ASSUME IInv, [Next]_vars
      PROVE  [ /\ told' = "failed" => q' = q
               /\ told' = "saved" => /\ q' = [q EXCEPT !.money = @ - 1]
                                     /\ disk' = "whole" => file' = q' ]_vars
  <2>1. mode \in {"orbit", "uleg"} => told = "nothing"
    BY <1>1 DEF IInv
  <2>2. CASE SaveGame
    BY <2>2 DEF SaveGame, Paid
  <2>3. CASE LoadGame
    BY <2>3 DEF LoadGame
  <2>4. CASE Dock \/ ulegAccept \/ ulegRefuse
    BY <2>1, <2>4 DEF Dock, ulegAccept, ulegRefuse
  <2>5. CASE NewCampaign \/ Launch \/ RefuseSurrender \/ Trade \/ Leave
    BY <2>5 DEF NewCampaign, Launch, RefuseSurrender, Trade, Leave
  <2>6. CASE UNCHANGED vars
    BY <2>6
  <2> QED BY <1>1, <2>2, <2>3, <2>4, <2>5, <2>6 DEF Next
<1> QED BY <1>1, CampaignInvariance, PTL DEF Spec, SaveIsFaithful

\* The story only moves forward, but for a new game, a load, and a game whose
\* targets were cut.
THEOREM StoryForward == Spec => StoryAdvances
<1>1. ASSUME IInv, [Next]_vars
      PROVE  [~Restored /\ ~q.torn => \E i \in Stages(q), j \in Stages(q') : i <= j]_vars
  <2>1. ~q.torn => Good(q)
    BY <1>1 DEF IInv, Fine, Torn
  <2> QED BY <1>1, <2>1, NextIInv DEF Forward, Onward
<1> QED BY <1>1, CampaignInvariance, PTL DEF Spec, StoryAdvances

\* Neither navy forgets a terrorist, whatever file the game came from.
THEOREM NoForgiveness == Spec => TerroristForEver
<1>1. ASSUME IInv, [Next]_vars
      PROVE  [~Restored => \A n \in Navy :
                q.status[n] = Terrorist => q'.status[n] = Terrorist]_vars
  BY <1>1, NextIInv DEF Onward, Remembers
<1> QED BY <1>1, CampaignInvariance, PTL DEF Spec, TerroristForEver
=============================================================================
