---- MODULE SaveEditors ----
(***************************************************************************)
(* The editors that change the fields of a save (cheat_sm64.go and its     *)
(* siblings, applied by cheat_service.go).  A payload has slots, and a     *)
(* slot one copy or two, each with its checksum.  An edit takes the first  *)
(* valid copy of a slot, applies the updates in the random order of a Go   *)
(* map, rebuilds the block and writes every copy.  Between edits the game  *)
(* saves, and may be switched off while it does.                           *)
(*                                                                         *)
(* A block is the set of its bits that are set.  Of each game a few fields *)
(* stand for all: those that share a byte, have a mirror or a limit.  A    *)
(* number is the set of the units it counts.                               *)
(***************************************************************************)
EXTENDS Naturals, TLC

CONSTANTS
    Games,         \* the editors
    Slots,         \* numbers of the slots of a save, from 1
    Torn,          \* a copy whose checksum is wrong
    MaxSaves       \* bound on edits and saves of a behaviour

VARIABLES
    game,          \* the game of this save
    payload,       \* [slot -> sequence of copies: set of bits, or Torn]
    promised,      \* the same, as the players and the editors meant it
    saves          \* edits and saves made

vars == <<game, payload, promised, saves>>

(* A field: the values it takes and the bits a write of it clears. *)
Field(values, clears) == [values |-> values, clears |-> clears]
Flag(bits) == Field({{}, bits}, bits)
Shown(f) == UNION f.values

(* An editor: the slots and copies it finds, the fields it knows, and bits *)
(* of a new save that none of them shows.                                  *)
Editor(slots, copies, hidden, fields) ==
    [slots |-> slots, copies |-> copies, hidden |-> hidden, fields |-> fields]

(* Masks of the flag word, and two fields in each course's byte. *)
SM64 == Editor(Slots, {1, 2}, {"capPlace"},
    [haveWingCap  |-> Flag({"wingCap"}),
     secretStars  |-> Flag({"secretStar"}),
     courseStars  |-> Flag({"courseStar"}),
     courseCannon |-> Flag({"cannon"})])

(* One flag of every planet, and again the flag of one planet. *)
SF64 == Editor({1}, {1, 2}, {},
    [playedPlanets |-> Field(SUBSET {"corneria", "venom2"}, {"corneria", "venom2"}),
     venom2Played  |-> Flag({"venom2"}),
     musicVolume   |-> Flag({"volume"})])

(* Two bits for each cup of a class, in one byte. *)
MK64 == Editor({1}, {1, 2}, {},
    [mushroomCup |-> Field(SUBSET {"mushroom1", "mushroom2"},
                           {"mushroom1", "mushroom2"}),
     flowerCup   |-> Flag({"flower1"}),
     soundMode   |-> Flag({"mono"})])

(* Hearts and their limit; equipment in groups of one word. *)
OOT == Editor(Slots, {1, 2}, {"unknown"},
    [maxHearts     |-> Field({{}, {"max1"}, {"max1", "max2"}}, {"max1", "max2"}),
     currentHearts |-> Field({{}, {"heart1"}, {"heart1", "heart2"}},
                             {"heart1", "heart2"}),
     swords        |-> Flag({"sword"}),
     shields       |-> Flag({"shield"})])

(* Mirrors, a bit in the byte of abilities, bottles. *)
ALTTP == Editor(Slots, {1, 2}, {},
    [rupees       |-> Flag({"rupee", "rupeeMirror"}),
     pegasusBoots |-> Flag({"boots", "dash"}),
     zoraFlippers |-> Flag({"flippers", "swim"}),
     bottle1      |-> Flag({"bottle1"}),
     bottle2      |-> Flag({"bottle2"})])

(* Keys are written without the bits no option names. *)
DKR == Editor(Slots, {1}, {"spare"},
    [keys         |-> Field({{}, {"key"}}, {"key", "spare"}),
     courseStatus |-> Flag({"visited"}),
     balloons     |-> Flag({"balloon"})])

(* Donkey's and Diddy's bit of a level; a boss has a mirror. *)
DKC == Editor(Slots, {1}, {"unknown"},
    [level |-> Field({{}, {"donkey"}, {"donkey", "diddy"}}, {"donkey", "diddy"}),
     boss  |-> Flag({"boss", "bossMirror"})])

(* The marker of a block says where its counters are. *)
DKC3 == Editor(Slots, {1}, {},
    [bearCoins |-> Flag({"bear"}), dkCoins |-> Flag({"coin"})])
DKC3Alternate == Editor(Slots, {1}, {"alternate"},
    [bearCoins |-> Flag({"bear2"}), dkCoins |-> Flag({"coin2"})])

EditorOf ==
    CASE game = "sm64" -> SM64 [] game = "sf64" -> SF64
      [] game = "mk64" -> MK64 [] game = "oot" -> OOT
      [] game = "alttp" -> ALTTP [] game = "dkr" -> DKR
      [] game = "dkc" -> DKC [] game = "dkc3" -> DKC3

Copies == EditorOf.copies
Fields(block) == IF "alternate" \in block THEN DKC3Alternate.fields
                                          ELSE EditorOf.fields
Hidden(s) == IF game = "dkc3" /\ s = 2 THEN DKC3Alternate.hidden
                                        ELSE EditorOf.hidden

(***************************************************************************)
(* An edit.                                                                *)
(***************************************************************************)

(* The first copy with a good checksum. *)
First(p, s) == IF p[s][1] = Torn /\ 2 \in Copies THEN p[s][2] ELSE p[s][1]
Source(s) == First(payload, s)

(* parseSM64EEPROM refuses a save with a file it cannot read; the others   *)
(* a save with none, or a slot that is not there.                          *)
Editable(s) == /\ Source(s) # Torn
               /\ game = "sm64" => \A t \in Slots : Source(t) # Torn

(* ootWriteNumber, ootWriteMagicLevel: an amount is held to its new limit. *)
Limit == "heart1" :> "max1" @@ "heart2" :> "max2"
Limited(block, f) ==
    IF game = "oot" /\ f = "maxHearts"
    THEN block \ {b \in DOMAIN Limit : Limit[b] \notin block}
    ELSE block

ApplyField(block, f, value) ==
    Limited((block \ Fields(block)[f].clears) \cup value, f)

(* range over a map: two fields in either order. *)
Applied(block, f, v, h, w) == ApplyField(ApplyField(block, f, v), h, w)

(* sm64BuildSaveFileBlock keeps what was decoded; the file is marked used. *)
BuildSaveFileBlock(block) == (block \ {"capPlace"}) \cup {"exists"}

(* alttpRepairSelectedBottle: the first bottle Link has. *)
RepairSelectedBottle(block) ==
    (block \ {"select1", "select2"})
    \cup IF "bottle1" \in block THEN {"select1"}
         ELSE IF "bottle2" \in block THEN {"select2"} ELSE {}

(* dkcRecomputeCompletion. *)
RecomputeCompletion(block) ==
    (block \ {"percent"}) \cup IF "donkey" \in block THEN {"percent"} ELSE {}

Rebuilt(block) ==
    CASE game = "sm64" -> BuildSaveFileBlock(block)
      [] game = "alttp" -> RepairSelectedBottle(block)
      [] game = "dkc" -> RecomputeCompletion(block)
      [] game \notin {"sm64", "alttp", "dkc"} -> block

(* The block is written to every copy. *)
WrittenFirst(s, block) == [payload[s] EXCEPT ![1] = block]
Written(s, block) == [c \in Copies |-> block]

(***************************************************************************)
(* What an edit promises: the fields it names have their values, all else  *)
(* is as it was.  Not promised: an amount whose limit is edited as well,   *)
(* and a flag named by two fields at once.                                 *)
(***************************************************************************)
Unsettled(u) ==
    IF game = "oot" /\ "maxHearts" \in DOMAIN u THEN {"heart1", "heart2"}
    ELSE IF game = "sf64" /\ {"playedPlanets", "venom2Played"} \subseteq DOMAIN u
    THEN {"venom2"} ELSE {}

Meant(block, fields, u) ==
    (block \ UNION {Shown(fields[f]) : f \in DOMAIN u})
    \cup UNION {u[f] : f \in DOMAIN u}

(* One field, when f and h are the same, or two. *)
Edit(s, f, h) ==
    /\ saves < MaxSaves
    /\ Editable(s)
    /\ \E v \in Fields(Source(s))[f].values, w \in Fields(Source(s))[h].values :
         LET u == f :> v @@ h :> w
             block == Rebuilt(Applied(Source(s), f, v, h, w))
             meant == Meant(First(promised, s), Fields(Source(s)), u)
         IN  /\ f = h => v = w
             /\ payload' = [payload EXCEPT ![s] = Written(s, block)]
             /\ promised' = [promised EXCEPT ![s] =
                  [c \in Copies |-> (meant \ Unsettled(u))
                                          \cup (block \cap Unsettled(u))]]
    /\ saves' = saves + 1
    /\ UNCHANGED game

(***************************************************************************)
(* The game loads the first valid copy, mends a torn one from it, changes  *)
(* a field and writes copy after copy, until it is done or switched off.   *)
(***************************************************************************)
Play(s) ==
    /\ saves < MaxSaves
    /\ Source(s) # Torn
    /\ \E f \in DOMAIN Fields(Source(s)) :
       \E value \in Fields(Source(s))[f].values :
       \E torn \in Copies \cup {3} :
         LET save(p) ==
               LET old(c) == IF p[s][c] = Torn THEN First(p, s) ELSE p[s][c]
                   new == (First(p, s) \ Shown(Fields(Source(s))[f])) \cup value
               IN  [p EXCEPT ![s] = [c \in Copies |->
                      IF c < torn THEN new
                      ELSE IF c = torn THEN Torn ELSE old(c)]]
         IN  payload' = save(payload) /\ promised' = save(promised)
    /\ saves' = saves + 1
    /\ UNCHANGED game

Init ==
    /\ game \in Games
    /\ payload = [s \in EditorOf.slots |->
                    [c \in Copies |-> Hidden(s)]]
    /\ promised = payload
    /\ saves = 0

Next == \E s \in EditorOf.slots :
          \/ Play(s)
          \/ /\ Source(s) # Torn
             /\ \E f, h \in DOMAIN Fields(Source(s)) : Edit(s, f, h)

Spec == Init /\ [][Next]_vars

TypeOK ==
    /\ game \in Games
    /\ DOMAIN payload = EditorOf.slots
    /\ \A s \in EditorOf.slots : DOMAIN payload[s] = Copies
    /\ saves \in 0 .. MaxSaves

(* What an editor makes anew or drops: the mark of a used file and the     *)
(* place of a lost cap, key bits without an option, the bottle in hand,    *)
(* the percentage.                                                         *)
Remade == {"exists", "capPlace", "spare", "select1", "select2", "percent"}

(***************************************************************************)
(* Whatever is edited and saved in whatever order, and whenever the game   *)
(* is switched off: every copy of every slot that can be read shows what   *)
(* was meant to be in it, each field an edit named with the value given,   *)
(* every other as it was; and no copy the game left good is bad.           *)
(***************************************************************************)
EditsAreSeen ==
    \A s \in EditorOf.slots, c \in Copies :
      IF promised[s][c] = Torn THEN payload[s][c] = Torn
      ELSE /\ payload[s][c] # Torn
           /\ payload[s][c] \ Remade = promised[s][c] \ Remade
====
