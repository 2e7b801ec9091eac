---------------------------- MODULE MemoryCards ----------------------------
(***************************************************************************)
(* Images of memory cards. A console keeps a save in blocks wherever there *)
(* is room and links them; the server finds the saves in the image it is   *)
(* sent: the directory frames of a PlayStation card, the file system of a  *)
(* PlayStation 2 card, the table of a Dreamcast VMU, the block lists of a  *)
(* Saturn backup memory. For the PlayStations it builds images of its own  *)
(* from the saves of several cards. A console's images are those it can    *)
(* leave behind, with blocks in one of two orders and the remains of       *)
(* deleted saves in the rest. A console links the blocks of a PlayStation  *)
(* card by their numbers less one; the server takes and writes the numbers *)
(* themselves, so for saves of several blocks each misreads the other.     *)
(***************************************************************************)
EXTENDS Naturals, Sequences, FiniteSets, FiniteSetsExt, SequencesExt

CONSTANTS
  Files,       (* Of mcr, gme, ps2, bin and bkr, which tell the system.     *)
  Products,    (* Saves, in the order of their product codes.              *)
  Room,        (* Blocks of a PlayStation card or a VMU.                   *)
  Sizes,       (* Of the saves games write.                                *)
  Consoles,    (* Each has a card, in a file that its helper syncs.        *)
  MaxWrites    (* Bounds the model.                                        *)

VARIABLES
  file,        (* The extension of the files.                              *)
  image,       (* What is in them.                                         *)
  held,        (* What games find there: the cells of each save.           *)
  base,        (* What was on the card a helper fetched last.              *)
  played,      (* Whether a game wrote or deleted since.                   *)
  revisions,   (* Of every save the server has seen, the latest last.      *)
  writes

MinOf(a, b) == IF a < b THEN a ELSE b
vars == <<file, image, held, base, played, revisions, writes>>

PS1Files == {"mcr", "gme"}
End == 65535
Free == 65532

(* Where saves of the given sizes go, one after the other along an order.   *)
At(order, sizes, p) ==
  LET before == MapThenSumSet(LAMBDA q : sizes[q], {q \in DOMAIN sizes : q < p})
  IN  SubSeq(order, before + 1, before + sizes[p])
Places(order, sizes) == [p \in DOMAIN sizes |-> At(order, sizes, p)]
Total(sizes) == MapThenSumSet(LAMBDA q : sizes[q], DOMAIN sizes)
(* The block of a place that is block b of the card: its owner, its number. *)
Owner(places, b) ==
  {o \in UNION {{p} \X DOMAIN places[p] : p \in DOMAIN places} : places[o[1]][o[2]] = b}

Upwards(n) == [i \in 1 .. n |-> i]
Orders(n) ==
  {Upwards(n), Reverse(SelectSeq(Upwards(n), LAMBDA b : b % 2 = 1))
               \o Reverse(SelectSeq(Upwards(n), LAMBDA b : b % 2 = 0))}
SizesOf(saves) == [p \in DOMAIN saves |-> Len(saves[p])]

RECURSIVE Follow(_, _, _)
Follow(next, chain, b) ==
  IF b \notin DOMAIN next \/ b \in Range(chain) THEN chain
  ELSE Follow(next, Append(chain, b), next[b])
-----------------------------------------------------------------------------
(***************************************************************************)
(* PlayStation: a directory frame for every block, linked to the next.     *)
(***************************************************************************)
(* DexDrive and PSP files have a header before the card.                   *)
Wrap(f, card) == [header |-> IF f = "gme" THEN f ELSE "none", card |-> card]
Unwrapped(f, payload) ==
  IF payload = Wrap(f, payload.card) THEN payload.card
  ELSE [frames |-> <<>>, blocks |-> <<>>]

Links(card) == [b \in DOMAIN card.frames |-> card.frames[b].next]
ChainIndices(card, start) == Follow(Links(card), <<>>, start)

IsStart(frame) == frame.state = "first"
ExtractPS1(f, payload) ==
  LET card == Unwrapped(f, payload)
      entry(b) == LET chain == ChainIndices(card, b)
                  IN  [product |-> card.frames[b].product,
                       frames |-> [i \in DOMAIN chain |-> card.frames[chain[i]]],
                       cells |-> [i \in DOMAIN chain |-> card.blocks[chain[i]]]]
  IN  {entry(b) : b \in {b \in DOMAIN card.frames : IsStart(card.frames[b])}}

(* What the page of the card shows: every save and the blocks it takes.     *)
CountBlocks(card, start) == Len(Follow(Links(card), <<>>, start))
ListPS1(f, payload) ==
  LET card == Unwrapped(f, payload)
  IN  {<<card.frames[b].product, CountBlocks(card, b)>> :
         b \in {b \in DOMAIN card.frames : IsStart(card.frames[b])}}

FreeFrame == [state |-> "free", next |-> 0, product |-> 0]
State(i, n) == IF i = 1 THEN "first" ELSE IF i = n THEN "last" ELSE "mid"

(* The saves that fit, in order up to the first that does not.              *)
FittingPS1(sizes) ==
  {p \in DOMAIN sizes : MapThenSumSet(LAMBDA q : sizes[q], {q \in DOMAIN sizes : q <= p}) <= Room}

(* A card with the given frames, and saves at the given places.             *)
PS1Card(frames, places, saves) ==
  [frames |-> frames,
   blocks |-> [b \in 1 .. Room |->
     IF Owner(places, b) = {} THEN <<>>
     ELSE LET o == CHOOSE o \in Owner(places, b) : TRUE IN saves[o[1]][o[2]]]]

(* Mutant: a frame keeps the link it had on the card it came from.         *)
RestatedFrame(frame, b, i, n) == [frame EXCEPT !.state = State(i, n)]

(* The frame of a save's block i of n, now in block b.                      *)
RelinkedFrame(frame, b, i, n) ==
  [frame EXCEPT !.state = State(i, n), !.next = IF i < n THEN b + 1 ELSE End]

BuildPS1(f, latest) ==
  LET sizes == [p \in DOMAIN latest |-> Len(latest[p].cells)]
      places == Places(Upwards(Room), Restrict(sizes, FittingPS1(sizes)))
      frame(b, o) == RelinkedFrame(latest[o[1]].frames[o[2]], b, o[2], sizes[o[1]])
      frames == [b \in 1 .. Room |->
        IF Owner(places, b) = {} THEN FreeFrame
        ELSE frame(b, CHOOSE o \in Owner(places, b) : TRUE)]
  IN  Wrap(f, PS1Card(frames, places, [p \in DOMAIN latest |-> latest[p].cells]))

(* A console's link to a block is its number less one.                      *)
ConsolePS1(f, saves, order) ==
  LET places == Places(order, SizesOf(saves))
      frame(p, i) == [state |-> State(i, Len(saves[p])),
                      next |-> IF i < Len(saves[p]) THEN places[p][i + 1] - 1 ELSE End,
                      product |-> IF i = 1 THEN p ELSE 0]
      deleted(b) == [state |-> "deleted", next |-> b % Room, product |-> 1]
      frames == [b \in 1 .. Room |->
        IF Owner(places, b) = {} THEN deleted(b)
        ELSE LET o == CHOOSE o \in Owner(places, b) : TRUE IN frame(o[1], o[2])]
  IN  Wrap(f, PS1Card(frames, places, saves))

(* What a console finds on a card.                                          *)
ConsoleReadsPS1(f, payload) ==
  LET card == Unwrapped(f, payload)
      links == [b \in DOMAIN card.frames |-> card.frames[b].next + 1]
      starts == {b \in DOMAIN card.frames : IsStart(card.frames[b])}
      chain(p) == Follow(links, <<>>, CHOOSE b \in starts : card.frames[b].product = p)
  IN  [p \in {card.frames[b].product : b \in starts} |->
         [i \in DOMAIN chain(p) |-> card.blocks[chain(p)[i]]]]
-----------------------------------------------------------------------------
(***************************************************************************)
(* PlayStation 2: clusters linked by a table; a cluster holds two entries  *)
(* of a directory, or data. A save is a directory of the root, with its    *)
(* data and an icon.                                                       *)
(***************************************************************************)
Clusters == 13
DataFile == 1
IconFile == 2
Dot == 0
Entry(name, kind, length, first) ==
  [name |-> name, kind |-> kind, length |-> length, first |-> first]

FATChain(card, first) == Follow(card.fat, <<>>, first)
(* readFile: an error, which nobody survives, is a file of no cells.        *)
ReadFile(card, first, length) ==
  LET chain == FATChain(card, first)
      cells == FlattenSeq([i \in DOMAIN chain |-> card.clusters[chain[i]]])
  IN  IF Len(cells) < length THEN <<>> ELSE SubSeq(cells, 1, length)
ReadDirectory(card, entry) == Range(ReadFile(card, entry.first, entry.length))
RootEntries(card) == ReadDirectory(card, Entry(Dot, "dir", card.clusters[0][1].length, 0))
Named(entries, name) == {e \in entries : e.kind = "file" /\ e.name = name}

(* The directories of the root that hold a save: those with an icon.        *)
SaveDirectories(card) ==
  {e \in RootEntries(card) :
     e.kind = "dir" /\ e.name # Dot /\ Named(ReadDirectory(card, e), IconFile) # {}}

ExtractPS2(card) ==
  LET nodes(e) == {<<n.name, ReadFile(card, n.first, n.length)>> :
                     n \in {n \in ReadDirectory(card, e) : n.kind = "file"}}
  IN  {[product |-> e.name, frames |-> <<>>,
        cells |-> (CHOOSE n \in nodes(e) : n[1] = DataFile)[2]] : e \in SaveDirectories(card)}

ClustersFor(length) == IF length = 0 THEN 1 ELSE (length + 1) \div 2

DirectorySize(card, e) ==
  ClustersFor(e.length)
  + MapThenSumSet(LAMBDA n : ClustersFor(n.length),
                  {n \in ReadDirectory(card, e) : n.kind = "file"})
ListPS2(card) == {<<e.name, DirectorySize(card, e)>> : e \in SaveDirectories(card)}

(* What is put on the card for a save, and when: its files by name, then   *)
(* its directory. The root comes last, after its first cluster, 0.         *)
Part(p, n) == 3 * (p - 1) + n
Directory == 3
Root == 3 * Cardinality(Products) + 1

Sized(saves, listed) ==
  LET parts == {Part(p, n) : p \in DOMAIN saves, n \in 1 .. 3}
  IN  [k \in parts \cup {Root} |->
        IF k = Root THEN ClustersFor(2 + Cardinality(listed)) - 1
        ELSE IF k % 3 = DataFile THEN ClustersFor(Len(saves[(k + 2) \div 3]))
        ELSE IF k % 3 = IconFile THEN 1 ELSE ClustersFor(4)]

Reserved(saves) == Total(Sized(saves, DOMAIN saves))

(* The content of a part, when the parts are at the given places.           *)
Written(saves, listed, places, k) ==
  LET p == (k + 2) \div 3
      first(q, n) == places[Part(q, n)][1]
      entry(q) == IF q \in DOMAIN saves
                  THEN Entry(q, "dir", 4, first(q, Directory)) ELSE Entry(q, "gone", 4, 1)
      names == SetToSortSeq(listed, LAMBDA a, b : a < b)
  IN  IF k = Root
      THEN <<Entry(Dot, "dir", 2 + Len(names), 0), Entry(Dot, "dir", 0, 0)>>
           \o [i \in DOMAIN names |-> entry(names[i])]
      ELSE IF k % 3 = DataFile THEN saves[p]
      ELSE IF k % 3 = IconFile THEN <<<<p, 0, 0>>>>
      ELSE <<Entry(Dot, "dir", 0, 0), Entry(Dot, "dir", 0, 0),
             Entry(DataFile, "file", Len(saves[p]), first(p, DataFile)),
             Entry(IconFile, "file", 1, first(p, IconFile))>>

(* setFATChain: cluster i of a part is linked to the one after it.          *)
Linked(places, owner) ==
  IF owner = {} THEN Free
  ELSE LET o == CHOOSE o \in owner : TRUE
       IN  IF o[2] < Len(places[o[1]]) THEN places[o[1]][o[2] + 1] ELSE End

PS2Card(saves, listed, order) ==
  LET reserved == Places(order, Sized(saves, listed))
      places == [reserved EXCEPT ![Root] = <<0>> \o @]
      content(o) == LET cells == Written(saves, listed, places, o[1])
                    IN  SubSeq(cells, 2 * o[2] - 1, MinOf(2 * o[2], Len(cells)))
      owner == [c \in 0 .. Clusters - 1 |-> Owner(places, c)]
  IN  [fat |-> [c \in 0 .. Clusters - 1 |-> Linked(places, owner[c])],
       clusters |-> [c \in 0 .. Clusters - 1 |->
         IF owner[c] = {} THEN <<>> ELSE content(CHOOSE o \in owner[c] : TRUE)]]

BuildPS2(latest) ==
  LET saves == [p \in DOMAIN latest |-> latest[p].cells]
  IN  PS2Card(saves, DOMAIN saves, Upwards(Clusters - 1))
(* The root of a console's card still lists the saves deleted from it.      *)
ConsolePS2(saves, order) == PS2Card(saves, Products, order)
-----------------------------------------------------------------------------
(***************************************************************************)
(* Dreamcast: a table links the blocks of files, and of the directory too, *)
(* which lies in the two last blocks, two entries in each.                 *)
(***************************************************************************)
DirLoc == Room + 1
DirSize == 2

(* collectDreamcastBlockChain: up to the size expected; none on a loop or   *)
(* a free block.                                                           *)
RECURSIVE Collect(_, _, _, _)
Collect(fat, size, chain, b) ==
  IF b \notin DOMAIN fat THEN chain
  ELSE IF b \in Range(chain) THEN <<>>
  ELSE LET longer == Append(chain, b)
       IN  IF Len(longer) = size \/ fat[b] = End THEN longer
           ELSE IF fat[b] = Free THEN <<>> ELSE Collect(fat, size, longer, fat[b])

FileCells(card, e) ==
  LET chain == Collect(card.fat, e.size, <<>>, e.first)
  IN  IF \E b \in Range(chain) : b >= Room THEN <<>>
      ELSE [i \in DOMAIN chain |-> card.blocks[chain[i]]]

ParseVMU(card) ==
  LET blocks == Collect(card.fat, DirSize, <<>>, DirLoc)
      entries == FlattenSeq([i \in DOMAIN blocks |-> card.blocks[blocks[i]]])
  IN  {[product |-> e.product, frames |-> <<>>, cells |-> FileCells(card, e)] :
         e \in {e \in Range(entries) : e.kind \in {"data", "game"}}}

ConsoleVMU(saves, order) ==
  LET places == Places([i \in DOMAIN order |-> order[i] - 1], SizesOf(saves))
      entry(p) == IF p \in DOMAIN saves
                  THEN [product |-> p, kind |-> "data", first |-> places[p][1], size |-> Len(saves[p])]
                  ELSE [product |-> p, kind |-> "none", first |-> 0, size |-> 1]
      names == SetToSortSeq(Products, LAMBDA a, b : a < b)
      directory == [i \in DOMAIN names |-> entry(names[i])]
      of(b) == CHOOSE o \in Owner(places, b) : TRUE
  IN  [fat |-> [b \in 0 .. DirLoc |->
         IF b = DirLoc THEN DirLoc - 1 ELSE IF b = Room THEN End
         ELSE Linked(places, Owner(places, b))],
       blocks |-> [b \in 0 .. DirLoc |->
         IF b = DirLoc THEN SubSeq(directory, 1, 2)
         ELSE IF b = Room THEN SubSeq(directory, 3, Len(directory))
         ELSE IF Owner(places, b) = {} THEN <<>> ELSE saves[of(b)[1]][of(b)[2]]]]
-----------------------------------------------------------------------------
(***************************************************************************)
(* Saturn: a save starts in a marked block with the list of the others,    *)
(* ended by 0, and its data follow the list, both over as many blocks as   *)
(* they take. The first block has room for one cell of this, others for    *)
(* two.                                                                    *)
(***************************************************************************)
SaturnBlocks == 2 .. Room + 3

Stream(card, blocks) == FlattenSeq([i \in DOMAIN blocks |-> card[blocks[i]].cells])

(* saturnReadBlockList: the list is read on in the blocks it names.         *)
RECURSIVE BlockList(_, _)
BlockList(card, blocks) ==
  LET cells == Stream(card, blocks)
      k == Len(blocks)
  IN  IF k > Len(cells) THEN <<>>
      ELSE IF cells[k] = 0 THEN blocks
      ELSE IF cells[k] \notin DOMAIN card THEN <<>>
      ELSE BlockList(card, Append(blocks, cells[k]))

ExtractCells(card, blocks, size) ==
  SubSeq(Stream(card, blocks), Len(blocks) + 1, Len(blocks) + size)

ParseSaturn(card) ==
  {[product |-> card[b].product, frames |-> <<>>,
    cells |-> ExtractCells(card, BlockList(card, <<b>>), card[b].size)] :
     b \in {b \in DOMAIN card : card[b].marked}}

SaturnSizes(saves) == [p \in DOMAIN saves |-> Len(saves[p]) + 1]
ConsoleSaturn(saves, order) ==
  LET places == Places([i \in DOMAIN order |-> order[i] + 1], SaturnSizes(saves))
      stream(p) == Tail(places[p]) \o <<0>> \o saves[p]
      block(p, i) == [marked |-> i = 1, product |-> p, size |-> Len(saves[p]),
                      cells |-> IF i = 1 THEN SubSeq(stream(p), 1, 1)
                                ELSE SubSeq(stream(p), 2 * i - 2, MinOf(2 * i - 1, Len(stream(p))))]
      of(b) == CHOOSE o \in Owner(places, b) : TRUE
  IN  [b \in SaturnBlocks |->
         IF Owner(places, b) = {}
         THEN [marked |-> FALSE, product |-> 1, size |-> 1, cells |-> <<2, 0>>]
         ELSE block(of(b)[1], of(b)[2])]
-----------------------------------------------------------------------------
(***************************************************************************)
(* The files of helpers.                                                   *)
(***************************************************************************)
(* extractLogicalEntries, parseDreamcastContainer, parseSaturnContainer.    *)
Extracted(payload) ==
  CASE file \in PS1Files -> ExtractPS1(file, payload)
    [] file = "ps2"      -> ExtractPS2(payload)
    [] file = "bin"      -> ParseVMU(payload)
    [] file = "bkr"      -> ParseSaturn(payload)

Listed(payload) ==
  IF file = "ps2" THEN ListPS2(payload) ELSE ListPS1(file, payload)

(* buildProjectionPayload.                                                  *)
Buildable(latest) ==
  file = "ps2" => Reserved([p \in DOMAIN latest |-> latest[p].cells]) + 1 <= Clusters
Built(latest) == IF file = "ps2" THEN BuildPS2(latest) ELSE BuildPS1(file, latest)

(* What the revisions of a save are told apart by. The frames of a          *)
(* PlayStation card are hashed with their links.                            *)
HashPS1(entry) == [frames |-> entry.frames, cells |-> entry.cells]
HashPS2(entry) == [frames |-> <<>>, cells |-> entry.cells]
Hash(entry) == IF file = "ps2" THEN HashPS2(entry) ELSE HashPS1(entry)

(* importMemoryCard: a revision is new unless the save has it.              *)
Revised(known, entry) ==
  IF Hash(entry) \in Range(known) THEN known ELSE Append(known, Hash(entry))

LatestRevisions == [p \in DOMAIN revisions |-> Last(revisions[p])]
-----------------------------------------------------------------------------
BlocksOf(f) ==
  CASE f \in PS1Files \cup {"bin"} -> Room
    [] f = "ps2"                   -> Clusters - 1
    [] f = "bkr"                   -> Cardinality(SaturnBlocks)

TakenBy(f, saves) ==
  CASE f \in PS1Files \cup {"bin"} -> Total(SizesOf(saves))
    [] f = "ps2"                   -> Total(Sized(saves, Products))
    [] f = "bkr"                   -> Total(SaturnSizes(saves))

Console(f, saves, order) ==
  CASE f \in PS1Files -> ConsolePS1(f, saves, order)
    [] f = "ps2"      -> ConsolePS2(saves, order)
    [] f = "bin"      -> ConsoleVMU(saves, order)
    [] f = "bkr"      -> ConsoleSaturn(saves, order)

Init ==
  /\ file \in Files
  /\ held = [c \in Consoles |-> <<>>]
  /\ image = [c \in Consoles |-> Console(file, <<>>, Upwards(BlocksOf(file)))]
  /\ base = [c \in Consoles |-> {}] /\ played = [c \in Consoles |-> FALSE]
  /\ revisions = <<>> /\ writes = 0

(* The cells of a save name it, the write, their place and their number.    *)
Data(p, write, size) == [i \in 1 .. size |-> <<p, write, i, size>>]
Whole(cells) == cells = Data(cells[1][1], cells[1][2], Len(cells))

(* Games leave these saves on a card. They deal with saves that are whole:  *)
(* one that is not is written anew or deleted before another is.            *)
Play(c, saves, order) ==
  /\ \A q \in DOMAIN saves : Whole(saves[q])
  /\ held' = [held EXCEPT ![c] = saves]
  /\ image' = [image EXCEPT ![c] = Console(file, saves, order)]
  /\ played' = [played EXCEPT ![c] = TRUE]
  /\ UNCHANGED <<file, base, revisions>>

Write(c, p, size, order) ==
  LET saves == [q \in DOMAIN held[c] \cup {p} |->
                  IF q = p THEN Data(p, writes + 1, size) ELSE held[c][q]]
  IN  /\ writes < MaxWrites
      /\ TakenBy(file, saves) <= BlocksOf(file)
      /\ Play(c, saves, order)
      /\ writes' = writes + 1

Delete(c, p) ==
  /\ p \in DOMAIN held[c]
  /\ Play(c, Restrict(held[c], DOMAIN held[c] \ {p}), Upwards(BlocksOf(file)))
  /\ UNCHANGED writes

(* importMemoryCard, for a card that lacks no save of the one fetched last: *)
(* removals are those of PlayStationSync.                                  *)
Upload(c) ==
  LET entries == Extracted(image[c])
      found == {e.product : e \in entries}
      entry(p) == CHOOSE e \in entries : e.product = p
      known(p) == IF p \in DOMAIN revisions THEN revisions[p] ELSE <<>>
  IN  /\ file \in PS1Files \cup {"ps2"}
      /\ base[c] \subseteq found
      /\ revisions' = [p \in DOMAIN revisions \cup found |->
                         IF p \in found THEN Revised(known(p), entry(p)) ELSE known(p)]
      /\ UNCHANGED <<file, image, held, base, played, writes>>

(* The helper fetches the card of all saves, of which games find what the   *)
(* console reads.                                                          *)
LatestCells == [p \in DOMAIN revisions |-> LatestRevisions[p].cells]
Download(c) ==
  /\ DOMAIN revisions # {} /\ Buildable(LatestRevisions)
  /\ image' = [image EXCEPT ![c] = Built(LatestRevisions)]
  /\ held' = [held EXCEPT ![c] =
                IF file = "ps2" THEN LatestCells ELSE ConsoleReadsPS1(file, image'[c])]
  /\ base' = [base EXCEPT ![c] = DOMAIN revisions]
  /\ played' = [played EXCEPT ![c] = FALSE]
  /\ UNCHANGED <<file, revisions, writes>>

Next ==
  \E c \in Consoles :
    \/ \E p \in Products, size \in Sizes, order \in Orders(BlocksOf(file)) : Write(c, p, size, order)
    \/ \E p \in Products : Delete(c, p)
    \/ Upload(c)
    \/ Download(c)

Spec == Init /\ [][Next]_vars
-----------------------------------------------------------------------------
IsData(cells) ==
  /\ cells # <<>>
  /\ \A i \in DOMAIN cells :
       cells[i] = <<>> \/ cells[i] \in Products \X (1 .. MaxWrites) \X (1 .. Room) \X Sizes

TypeOK ==
  /\ file \in Files
  /\ DOMAIN revisions \subseteq Products
  /\ \A p \in DOMAIN revisions : \A i \in DOMAIN revisions[p] : IsData(revisions[p][i].cells)
  /\ \A c \in Consoles : /\ DOMAIN held[c] \cup base[c] \subseteq Products
                         /\ \A p \in DOMAIN held[c] : IsData(held[c][p])
                         /\ played[c] \in BOOLEAN
  /\ writes \in 0 .. MaxWrites

(* What is read from an image is one entry for each of the saves, with all *)
(* its data and no other's, and the blocks it takes are shown.             *)
ReadsBack(payload, saves) ==
  LET entries == Extracted(payload)
  IN  /\ Cardinality(entries) = Cardinality(DOMAIN saves)
      /\ {<<e.product, e.cells>> : e \in entries} = {<<p, saves[p]>> : p \in DOMAIN saves}
      /\ file \in PS1Files =>
           Listed(payload) = {<<p, Len(saves[p])>> : p \in DOMAIN saves}
      /\ file = "ps2" =>
           Listed(payload) = {<<p, ClustersFor(Len(saves[p])) + ClustersFor(1) + ClustersFor(4)>> :
                                p \in DOMAIN saves}

(* The same as far as it goes for a PlayStation card a console left: every *)
(* save is found once, by its first block, and the blocks shown are those  *)
(* taken for it. A save of one block has no links and is found whole.      *)
FoundByFirstBlock(payload, saves) ==
  LET entries == Extracted(payload)
  IN  /\ Cardinality(entries) = Cardinality(DOMAIN saves)
      /\ {<<e.product, e.cells[1]>> : e \in entries} = {<<p, saves[p][1]>> : p \in DOMAIN saves}
      /\ Listed(payload) = {<<e.product, Len(e.cells)>> : e \in entries}
      /\ \A e \in entries : Len(saves[e.product]) = 1 => e.cells = saves[e.product]

(* The saves on a card are found and not mixed up. On the card of a        *)
(* PlayStation 2, a Dreamcast or a Saturn, as the console left it, every   *)
(* save is found once, with all its data and no other's: the chains are    *)
(* followed as they were linked, stale ones are not. The saves of a        *)
(* PlayStation card are found by their first blocks; of longer ones no     *)
(* more is claimed (GamesFindWholeSaves). The card the server builds from  *)
(* the latest revisions is read back by the server as these revisions, up  *)
(* to the first that does not fit: a save moved to other blocks is linked  *)
(* anew (playstation_sync.go:1192, 1488).                                  *)
CardsAreReadBack ==
  /\ \A c \in Consoles : (played[c] \/ base[c] = {}) =>
       IF file \in PS1Files THEN FoundByFirstBlock(image[c], held[c])
       ELSE ReadsBack(image[c], held[c])
  /\ file \in PS1Files =>
       \A card \in {Built(LatestRevisions)} :
         ReadsBack(card, Restrict(LatestCells, FittingPS1(SizesOf(LatestCells))))
  /\ file = "ps2" /\ Buildable(LatestRevisions) =>
       \A card \in {Built(LatestRevisions)} : ReadsBack(card, LatestCells)

(* What a console finds on its card is whole: every save is all the data   *)
(* that a game wrote once, also on the card the server built, which is to  *)
(* be one a helper may restore                                             *)
(* (TestPlayStationProjectionDownloadReturnsValidPS1RawCard).              *)
GamesFindWholeSaves == \A c \in Consoles : \A p \in DOMAIN held[c] : Whole(held[c][p])

(* What a save's data say when they were written.                           *)
WrittenAt(cells) == cells[1][2]
(* A card fetched from the server and never played since holds nothing but *)
(* revisions the server has. When another device has moved on, uploading   *)
(* it must not put one of them back in front                               *)
(* (TestPlayStationHistoricalDuplicateImportIsStale).                      *)
OldCardsAreStale ==
  [][\A c \in Consoles, p \in DOMAIN revisions :
       Upload(c) /\ ~played[c] => WrittenAt(Last(revisions'[p]).cells) >= WrittenAt(Last(revisions[p]).cells)]_vars
=============================================================================
