---- MODULE LayoutMigration ----
(***************************************************************************)
(* The commands that move saves of earlier releases to the directories     *)
(* their titles call for, and back again by the manifest of the moves.     *)
(* A save is a directory; either command may be cut short between two      *)
(* moves, and run again.  A server that runs in between may file a save    *)
(* under another title.                                                    *)
(***************************************************************************)
EXTENDS Naturals, Sequences, FiniteSets

CONSTANTS Saves,
          Titles,
          Legacy,       \* the flat directory of earlier releases
          MaxRetitled

ASSUME LayoutAssumption == IsFiniteSet(Saves) /\ MaxRetitled \in Nat

VARIABLES home,         \* directory that a save is in
          title,        \* that metadata.json names for it
          manifest,     \* the moves planned last
          before,       \* history: where its saves were when it was written
          movesLeft,    \* moves that the running command has still to make
          command,
          restored,     \* history: a rollback went through and nothing moved since
          retitled

layoutVars == <<home, title, manifest, before, movesLeft, command, restored, retitled>>

Places == Titles \cup {Legacy}
Move == [save : Saves, from : Places, to : Places]

LayoutTypeOK ==
    /\ home \in [Saves -> Places]
    /\ title \in [Saves -> Titles]
    /\ manifest \in Seq(Move)
    /\ before \in [Saves -> Places]
    /\ movesLeft \in Seq(Move)
    /\ command \in {"none", "migrate", "rollback"}
    /\ restored \in BOOLEAN
    /\ retitled \in 0..MaxRetitled

LayoutInit ==
    /\ home \in [Saves -> Places]
    /\ title \in [Saves -> Titles]
    /\ manifest = <<>> /\ movesLeft = <<>>
    /\ before = home
    /\ command = "none"
    /\ restored = FALSE
    /\ retitled = 0

Misfiled == {s \in Saves : home[s] # title[s]}

\* One move for each save that is elsewhere than its title says.  They are
\* sorted by the paths of the directories, which may name them in any order.
Plans ==
    LET moves == {[save |-> s, from |-> home[s], to |-> title[s]] : s \in Misfiled}
    IN  {plan \in [1..Cardinality(Misfiled) -> moves] :
           \A i, j \in DOMAIN plan : plan[i].save = plan[j].save => i = j}

Reversed(moves) ==
    [i \in 1..Len(moves) |->
       LET m == moves[Len(moves) + 1 - i]
       IN  [save |-> m.save, from |-> m.to, to |-> m.from]]

\* The manifest is written first, over the last one, by a dry run as well.
Migrate(dry) ==
    /\ command = "none"
    /\ manifest' \in Plans
    /\ before' = home
    /\ movesLeft' = IF dry THEN <<>> ELSE manifest'
    /\ command' = IF dry THEN "none" ELSE "migrate"
    /\ restored' = FALSE
    /\ UNCHANGED <<home, title, retitled>>

RollbackLayout ==
    /\ command = "none"
    /\ manifest # <<>>
    /\ movesLeft' = Reversed(manifest)
    /\ command' = "rollback"
    /\ UNCHANGED <<home, title, manifest, before, restored, retitled>>

\* Mutant: a save that is not where the move expects it ends the command.
ApplyMoveOrStop ==
    LET m == Head(movesLeft)
    IN  /\ movesLeft # <<>>
        /\ IF home[m.save] = m.from
           THEN home' = [home EXCEPT ![m.save] = m.to] /\ movesLeft' = Tail(movesLeft)
           ELSE movesLeft' = <<>> /\ UNCHANGED home
        /\ UNCHANGED <<title, manifest, before, command, restored, retitled>>

\* A save that is not there was moved already, or is gone: the next one.
ApplyMove ==
    LET m == Head(movesLeft)
    IN  /\ movesLeft # <<>>
        /\ home' = IF home[m.save] = m.from
                   THEN [home EXCEPT ![m.save] = m.to] ELSE home
        /\ movesLeft' = Tail(movesLeft)
        /\ UNCHANGED <<title, manifest, before, command, restored, retitled>>

CommandEnds ==
    /\ command # "none" /\ movesLeft = <<>>
    /\ restored' = (command = "rollback")
    /\ command' = "none"
    /\ UNCHANGED <<home, title, manifest, before, movesLeft, retitled>>

\* A rename that fails ends the command, as stopping it does.
CutShort ==
    /\ movesLeft # <<>>
    /\ movesLeft' = <<>> /\ command' = "none"
    /\ UNCHANGED <<home, title, manifest, before, restored, retitled>>

\* The rescan of a server moves a save to the directory of its new title.
Retitle(s, t) ==
    /\ command = "none"
    /\ retitled < MaxRetitled /\ retitled' = retitled + 1
    /\ title[s] # t
    /\ title' = [title EXCEPT ![s] = t]
    /\ home' = [home EXCEPT ![s] = t]
    /\ restored' = FALSE
    /\ UNCHANGED <<manifest, before, movesLeft, command>>

LayoutNext ==
    \/ \E dry \in BOOLEAN : Migrate(dry)
    \/ RollbackLayout \/ ApplyMove \/ CommandEnds \/ CutShort
    \/ \E s \in Saves, t \in Titles : Retitle(s, t)

LayoutSpec == LayoutInit /\ [][LayoutNext]_layoutVars

----------------------------------------------------------------------------
Retitled(s) == \E i \in 1..Len(manifest) : /\ manifest[i].save = s
                                           /\ home[s] \notin {manifest[i].from, manifest[i].to}

\* A rollback that goes through leaves every save of the manifest where it
\* was when the manifest was written, however often the migration and earlier
\* rollbacks were cut short, unless a server filed the save elsewhere since;
\* and no command loses track of a save: what is neither where it was nor
\* where it was to go is where a server put it (rollbackSaveLayout,
\* applySaveLayoutMove).
RollbackRestoresLayout ==
    /\ restored => \A i \in 1..Len(manifest) :
         LET s == manifest[i].save IN Retitled(s) \/ home[s] = before[s]
    /\ \A s \in Saves : Retitled(s) => home[s] = title[s]
====
