------------------------------ MODULE Campaign ------------------------------
(***************************************************************************)
(* The story of SOTU: chapters, quest targets, the planets the quest adds  *)
(* to the galaxy, the player's standing with the two navies, and the save  *)
(* file that carries all of it from one session to the next.  How the ship *)
(* gets from one dock to another is Session's business.                    *)
(***************************************************************************)
EXTENDS Integers, Sequences

CONSTANTS MaxMoney    \* bound: the most money, in thousands, kept apart
ASSUME MoneyAssumption == MaxMoney \in Nat /\ MaxMoney >= 2

VARIABLES
    mode,    \* "menu", "dock", "orbit", or "uleg": the box with his offer
    q,       \* what loadGame restores: see Quest
    file,    \* the game the save file was last written from
    disk,    \* "none", "whole", or "cut": the end of the file is missing
    told     \* what the message box just said of a save

vars == <<mode, q, file, disk, told>>

Special == {"TORRES", "DYLKA", "JOTHAN", "ARMADA", "CYROS", "BORDER",
            "LIZDOR", "RISAR", "CLOAKED"}
Navy    == {"rebel", "empire"}
Clean     == 0
Fugitive  == 1
Terrorist == 2

\* What a cut file leaves behind: an integer that was not read is a standing
\* of no name or a debt, a target that was not read to its end is a place
\* where no story is told, if it is a place at all.
Wild == 3
Debt == -1
Junk == "?"
Standing == {Clean, Fugitive, Terrorist, Wild}

\* _chapter, _questTargets, how many planets of a name _galaxy has, the
\* standing with the navies, _money in thousands; and whether the targets
\* come from a file without the end of their list.
Quest == [chapter : 1..5,
          targets : SUBSET (Special \cup {Junk}),
          map     : [Special -> 0..2],
          status  : [Navy -> Standing],
          money   : Debt..MaxMoney,
          torn    : BOOLEAN]

----------------------------------------------------------------------------
(* Game::startNewCampaign and Map::recreate.  The random names are CVCV    *)
(* with an ending; one of them, RISA + R, is the name of a quest planet.   *)

Start(namesakes) ==
    [chapter |-> 1, targets |-> {"TORRES"},
     map     |-> [p \in Special |-> IF p = "TORRES" THEN 1
                                    ELSE IF p = "RISAR" THEN namesakes ELSE 0],
     status  |-> [n \in Navy |-> Clean],
     money   |-> 2,
     torn    |-> FALSE]

\* Map::addPlanet is a plain push_back.
addPlanets(s, ps) ==
    [s EXCEPT !.map = [p \in Special |-> s.map[p] + (IF p \in ps THEN 1 ELSE 0)]]
rename(s, p)    == [s EXCEPT !.map[p] = @ - 1]
\* Mutant: the new targets join the old ones.
Mut_goTo(s, ps) == [s EXCEPT !.targets = @ \cup ps, !.torn = FALSE]

\* _questTargets is cleared and written anew, and so whole again.
goTo(s, ps)     == [s EXCEPT !.targets = ps, !.torn = FALSE]
chapterIs(s, c) == [s EXCEPT !.chapter = c]

\* Game::reachedSpecialPlanet at a planet named p.
Reached(s, p) ==
    CASE p = "TORRES" -> goTo(addPlanets(chapterIs(s, 2), {"DYLKA", "JOTHAN"}),
                              {"DYLKA", "JOTHAN"})
      [] p = "DYLKA"  -> goTo(s, {"JOTHAN"})
      [] p = "JOTHAN" /\ s.chapter = 2 -> goTo(chapterIs(s, 3), {})
      [] p = "JOTHAN" /\ s.chapter = 3 -> goTo(addPlanets(s, {"BORDER"}), {"BORDER"})
      [] p = "ARMADA" -> goTo([rename(s, p) EXCEPT !.status["empire"] = Terrorist],
                              {"JOTHAN"})
      [] p = "CYROS"  -> goTo(addPlanets(s, {"BORDER"}), {"BORDER"})
      [] p = "BORDER" -> goTo(addPlanets(s, {"LIZDOR"}), {"LIZDOR"})
      [] p = "LIZDOR" /\ s.chapter = 3 -> goTo(addPlanets(chapterIs(s, 4), {"RISAR"}),
                                               {"RISAR"})
      [] p = "RISAR"  -> goTo(s, {"LIZDOR"})
      [] p = "LIZDOR" /\ s.chapter = 4 -> goTo(addPlanets(chapterIs(s, 5), {"CLOAKED"}),
                                               {"CLOAKED"})
      [] p = "CLOAKED" -> goTo(rename(s, p), {})
      [] OTHER -> s

----------------------------------------------------------------------------
NewCampaign ==
    /\ mode = "menu"
    /\ \E n \in 0..1 : q' = Start(n)
    /\ mode' = "dock" /\ told' = "nothing" /\ UNCHANGED <<file, disk>>

Launch ==
    /\ mode = "dock" /\ mode' = "orbit"
    /\ told' = "nothing" /\ UNCHANGED <<q, file, disk>>

\* Mutant: illegalTradeCheck asks whoever carries illegal goods.
Mut_RefuseSurrender ==
    /\ mode = "dock" /\ mode' = "orbit"
    /\ \E n \in Navy : q' = [q EXCEPT !.status[n] = Fugitive]
    /\ told' = "nothing" /\ UNCHANGED <<file, disk>>

\* Game::illegalTradeDecision(false) and the launch after it; the check
\* stops only a player who is clean with the ruler of the planet.
RefuseSurrender ==
    /\ mode = "dock" /\ mode' = "orbit"
    /\ \E n \in Navy : q.status[n] = Clean /\ q' = [q EXCEPT !.status[n] = Fugitive]
    /\ told' = "nothing" /\ UNCHANGED <<file, disk>>

\* StageManager::update docks at a planet; if its name is a target the quest
\* goes on, and Uleg's offer waits for an answer.
Dock ==
    /\ mode = "orbit"
    /\ \/ q' = q /\ mode' = "dock"          \* any planet that is no target
       \/ \E p \in q.targets \ {Junk} :
            /\ q.map[p] > 0
            /\ q' = Reached(q, p)
            /\ mode' = IF p = "JOTHAN" /\ q.chapter = 2 THEN "uleg" ELSE "dock"
    /\ UNCHANGED <<file, disk, told>>

\* Mutant: the box with the offer stays open.
Mut_ulegAccept ==
    /\ mode = "uleg" /\ mode' = "uleg"
    /\ q' = [addPlanets(q, {"ARMADA"}) EXCEPT !.targets = @ \cup {"ARMADA"},
                                              !.status["rebel"] = Clean]
    /\ UNCHANGED <<file, disk, told>>

ulegAccept ==
    /\ mode = "uleg" /\ mode' = "dock"
    /\ q' = [addPlanets(q, {"ARMADA"}) EXCEPT !.targets = @ \cup {"ARMADA"},
                                              !.status["rebel"] = Clean]
    /\ UNCHANGED <<file, disk, told>>

ulegRefuse ==
    /\ mode = "uleg" /\ mode' = "dock"
    /\ q' = [addPlanets(q, {"CYROS"}) EXCEPT !.targets = @ \cup {"CYROS"},
                                             !.status["rebel"] = Terrorist,
                                             !.money = 2]
    /\ UNCHANGED <<file, disk, told>>

\* PlanetManager::tradeClick: any sale, and any purchase there is money for.
Trade ==
    /\ mode = "dock"
    /\ \E m \in 0..MaxMoney \cup {q.money} : q' = [q EXCEPT !.money = m]
    /\ told' = "nothing" /\ UNCHANGED <<mode, file, disk>>

Paid == [q EXCEPT !.money = @ - 1]

\* Mutants: the purse is not looked into; the price of a save that failed is
\* not given back.
Mut_SaveGameBroke ==
    /\ mode = "dock"
    /\ q' = Paid /\ file' = Paid /\ disk' = "whole" /\ told' = "saved"
    /\ UNCHANGED mode
Mut_SaveGameKept ==
    /\ mode = "dock" /\ q.money >= 1
    /\ q' = Paid /\ file' = Paid /\ disk' = "cut" /\ told' = "failed"
    /\ UNCHANGED mode

\* PlanetManager::saveClick lets pass who has the 1000 credits; Game::saveGame
\* takes them, writes, and gives them back if the stream is bad by then.  The
\* stream is still buffered: its last block is written after the check.
SaveGame ==
    /\ mode = "dock" /\ q.money >= 1
    /\ \/ /\ q' = Paid /\ file' = Paid /\ disk' \in {"whole", "cut"}
          /\ told' = "saved" /\ UNCHANGED mode
       \/ /\ q' = q /\ file' = Paid /\ disk' = "cut"
          /\ told' = "failed" /\ UNCHANGED mode
       \/ /\ told' = "failed"                  \* it cannot be opened
          /\ UNCHANGED <<mode, q, file, disk>>
       \/ \* the program ends meanwhile: savePlanetCoords of a null target
          /\ q' = q /\ file' = Paid /\ disk' = "cut"
          /\ told' = "nothing" /\ mode' = "menu"

\* A file that ends before the list of targets: the reads that follow fail.
\* _money stays what it was; the two standings are read through one variable,
\* and both are what is in it if neither is read.  Without a target nothing
\* asks for the map or the chapter again, so the model forgets them.
LostGames(f) ==
    {[chapter |-> 1, targets |-> {}, map |-> [p \in Special |-> 0],
      status |-> st, money |-> m, torn |-> TRUE] :
        st \in {f.status} \cup {[n \in Navy |-> g] : g \in Standing},
        m \in Debt..MaxMoney}

\* A file that ends within the list: some of its names, JOTHAN always after
\* DYLKA, and an empty or a cut one.
TornLists(f) ==
    LET names == f.targets \ {Junk}
    IN  {[f EXCEPT !.targets = ts \cup js, !.torn = TRUE] :
            ts \in {{}, names \ {"JOTHAN"}, names}, js \in {{}, {Junk}}}

\* What loadGame makes of a file of f whose end is missing; the targets are
\* all there if it ends after them.
CutFile(f) == {f} \cup LostGames(f) \cup {t \in TornLists(f) : t.targets # {}}

\* Mutant: the targets of the last game stay in the list.
Mut_LoadGame ==
    /\ mode = "menu" /\ disk = "whole"
    /\ q' = [file EXCEPT !.targets = @ \cup q.targets]
    /\ mode' = "dock" /\ told' = "nothing"
    /\ UNCHANGED <<file, disk>>

\* Game::loadGame refuses a file without its header, and no other.
LoadGame ==
    /\ mode = "menu"
    /\ \/ /\ \/ disk = "whole" /\ q' = file
             \/ disk = "cut" /\ q' \in CutFile(file)
          /\ mode' = "dock" /\ told' = "nothing"
       \/ /\ disk # "whole" /\ told' = "failed"
          /\ UNCHANGED <<mode, q>>
    /\ UNCHANGED <<file, disk>>

\* The main menu, the death of the hero, the end of the program and a new
\* one: only the file is left.
Leave ==
    /\ mode # "menu" /\ mode' = "menu"
    /\ told' = "nothing" /\ UNCHANGED <<q, file, disk>>

Init ==
    /\ mode = "menu" /\ told = "nothing"
    /\ q = Start(0) /\ file = Start(0) /\ disk = "none"

Next ==
    \/ NewCampaign \/ Launch \/ RefuseSurrender \/ Dock \/ ulegAccept \/ ulegRefuse
    \/ Trade \/ SaveGame \/ LoadGame \/ Leave

Spec == Init /\ [][Next]_vars

----------------------------------------------------------------------------
(* Properties.                                                             *)

\* Saving never leaves the player in debt, unless a cut file did, and no
\* quest planet but RISAR gets on the map twice although addPlanet does not
\* look.
TypeOK ==
    /\ mode \in {"menu", "dock", "orbit", "uleg"}
    /\ {q, file} \subseteq Quest
    /\ q.money = Debt => q.torn
    /\ \A p \in Special \ {"RISAR"} : q.map[p] <= 1
    /\ disk \in {"none", "whole", "cut"}
    /\ told \in {"nothing", "saved", "failed"}

Finished == q.chapter = 5 /\ q.targets = {} /\ q.map["CLOAKED"] = 0

\* The story is never stuck, unless the file it comes from ended before the
\* end of its targets: it is over or there is a target.  And every target is a
\* planet on the map, whatever the file was, but for the name the cut went
\* through (reachedSpecialPlanet, ulegAccept, ulegRefuse, loadGame).
QuestGoesOn ==
    mode \in {"dock", "orbit"} =>
        /\ Finished \/ q.targets # {} \/ q.torn
        /\ \A p \in q.targets \ {Junk} : q.map[p] > 0
        /\ Junk \in q.targets => q.torn

\* The stages of the story in their order; Uleg's offer forks it.
Story ==
    << <<1, {"TORRES"}>>, <<2, {"DYLKA", "JOTHAN"}>>, <<2, {"JOTHAN"}>>, <<3, {}>>,
       <<3, {"ARMADA"}>>, <<3, {"CYROS"}>>, <<3, {"JOTHAN"}>>, <<3, {"BORDER"}>>,
       <<3, {"LIZDOR"}>>, <<4, {"RISAR"}>>, <<4, {"LIZDOR"}>>, <<5, {"CLOAKED"}>>,
       <<5, {}>> >>

Stages(s) == {i \in DOMAIN Story : Story[i] = <<s.chapter, s.targets>>}

Restored == NewCampaign \/ LoadGame

\* The story only moves forward: two planets serve two chapters each, yet no
\* order of dockings repeats a stage or skips back; a new game or a load may.
\* A game whose targets were cut is at no stage until it has reached one.
StoryAdvances ==
    [][ ~Restored /\ ~q.torn => \E i \in Stages(q), j \in Stages(q') : i <= j ]_vars

\* A terrorist stays one: neither navy forgets, whatever else the player is
\* charged with or pardoned for (illegalTradeDecision, ulegAccept).
TerroristForEver ==
    [][ ~Restored => \A n \in Navy :
          q.status[n] = Terrorist => q'.status[n] = Terrorist ]_vars

\* Nobody betrays both sides: destroying the Armada and escaping from the
\* rebels exclude each other, across any number of saves and loads.  A file
\* that ended before its standings says nothing of either.
OneBetrayal == q.torn \/ \E n \in Navy : q.status[n] # Terrorist

\* A save costs what it says when it says it was made, and nothing when it
\* says it failed, although the money is taken before the file is written; and
\* a whole file holds the game as it goes on: loading it changes nothing.
SaveIsFaithful ==
    [][ /\ told' = "failed" => q' = q
        /\ told' = "saved" => /\ q' = [q EXCEPT !.money = @ - 1]
                              /\ disk' = "whole" => file' = q' ]_vars

\* "GAME SAVED SUCCESSFULLY ... You can load it from the main menu."
SavedCanBeLoaded == told = "saved" => disk = "whole"
=============================================================================
