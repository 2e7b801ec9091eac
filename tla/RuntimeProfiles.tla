-------------------------- MODULE RuntimeProfiles --------------------------
(***************************************************************************)
(* The runtime profiles. A helper sends a save in the form its emulator or *)
(* console writes; the server stores one canonical form of it, and makes   *)
(* from that the form of whatever runtime asks. What a form is made of is  *)
(* its parts: a Nintendo 64 file of RetroArch has one for every medium,    *)
(* that of mupen64plus one for every controller port, a Saturn image one   *)
(* for the internal memory and one for the cartridge.                      *)
(***************************************************************************)
EXTENDS Naturals, Sequences, FiniteSets, TLC

CONSTANTS
  Helpers,    (* Each plays the game on a runtime of its own.              *)
  NoFile,
  MaxPlays, MaxRevisions   (* Bound the model.                             *)

VARIABLES
  cart,       (* The game's system and medium, the size of its chip.       *)
  runtime,    (* The runtime of a helper.                                  *)
  local,      (* Its file and the revision downloaded, 0 when it is played *)
  revisions,  (* Stored contents, oldest first, and what they mean.        *)
  plays

vars == <<cart, runtime, local, revisions, plays>>

Paks == {"pak1", "pak2", "pak3", "pak4"}
SRMParts == Paks \cup {"eeprom", "sram", "flashram"}
Media == SRMParts \cup {"backup", "internal", "cartridge", "vmu"}

RuntimesOf == [
  n64       |-> {"mister", "retroarch", "project64", "mupen-family", "everdrive"},
  nds       |-> {"melonds", "desmume", "nogba"},
  saturn    |-> {"mister", "internal-raw", "cartridge-raw", "mednafen", "yabause", "yabasanshiro"},
  dreamcast |-> {"mister", "flycast"},
  gba       |-> {"mgba", "retroarch"}]

Carts ==
  LET game(system, media, sizes) == [system : {system}, media : media, size : sizes]
  IN  game("n64", {{"eeprom"}}, {1, 2}) \cup game("n64", {{"sram"}, {"flashram"}, Paks}, {2})
      \cup game("nds", {{"backup"}}, {2})
      \cup game("saturn", {{"internal", "cartridge"}}, {1})
      \cup game("dreamcast", {{"vmu"}}, {1}) \cup game("gba", {{"sram"}}, {1})

(* The data of a medium: the progress in it, how much of it is not erased, *)
(* how much there is, and whether its words have their bytes reversed.     *)
Image == [save : 0 .. MaxPlays, used : 0 .. 2, size : 1 .. 2, swapped : BOOLEAN]
IsFile(f) == DOMAIN f.parts \subseteq Media /\ \A p \in DOMAIN f.parts : f.parts[p] \in Image

TypeOK ==
  /\ cart \in Carts
  /\ \A h \in Helpers :
       /\ runtime[h] \in RuntimesOf[cart.system]
       /\ local[h].from \in 0 .. Len(revisions)
       /\ local[h].file = NoFile \/ IsFile(local[h].file)
  /\ \A i \in 1 .. Len(revisions) : IsFile(revisions[i].body)
  /\ plays \in 0 .. MaxPlays

Erased == [save |-> 0, used |-> 0, size |-> 2, swapped |-> FALSE]
Only(p, image) == [q \in {p} |-> image]
With(P, p, image) == [q \in P \cup {p} |-> IF q = p THEN image ELSE Erased]
Populated(f) == {p \in DOMAIN f.parts : f.parts[p].save # 0}
-----------------------------------------------------------------------------
(* n64Swap32Words, and who keeps which media that way. *)
Swap(image) == [image EXCEPT !.swapped = ~@]
Swaps(r, p) == r \in {"project64", "mupen-family", "retroarch"} /\ p \in {"sram", "flashram"}
(* Mutant: the words of flash memory stay as they are.                     *)
OrderedSRAM(r, p, image) == IF Swaps(r, p) /\ p = "sram" /\ image.save # 0 THEN Swap(image) ELSE image

Ordered(r, p, image) == IF Swaps(r, p) /\ image.save # 0 THEN Swap(image) ELSE image

(* The data of one medium: EEPROM is filled up to its larger size.         *)
CanonicalN64(r, p, image) ==
  IF p = "eeprom" THEN [image EXCEPT !.size = 2] ELSE Ordered(r, p, image)

(* A file that could hold several saves must hold one: RetroArch keeps all  *)
(* media in one file, mupen64plus the paks of all ports.                   *)
Wrapped(r, f) ==
  \/ r = "retroarch" /\ f.form = "srm" /\ DOMAIN f.parts = SRMParts
  \/ r = "mupen-family" /\ f.form = "mpk" /\ DOMAIN f.parts = Paks

Held(r, f) ==
  IF (Wrapped(r, f) \/ Cardinality(DOMAIN f.parts) = 1) /\ Cardinality(Populated(f)) = 1
  THEN Populated(f) ELSE {}

Extension(p) ==
  CASE p = "eeprom" -> "eep" [] p = "sram" -> "sra" [] p = "flashram" -> "fla" [] OTHER -> "cpk"

(* normalizeN64UploadPayload, the set of what it returns, empty for an     *)
(* error or data without a save, which the validator refuses.              *)
NormalizeN64(r, f) ==
  {[form |-> Extension(p),
    parts |-> Only(IF p \in Paks THEN "pak1" ELSE p, CanonicalN64(r, p, f.parts[p]))] : p \in Held(r, f)}

(* projectN64Payload. *)
ProjectN64(r, body) ==
  LET p     == CHOOSE q \in DOMAIN body.parts : TRUE
      image == Ordered(r, p, body.parts[p])
  IN  CASE r = "retroarch" -> [form |-> "srm", parts |-> With(SRMParts, p, image)]
        [] r = "mupen-family" /\ p = "pak1" -> [form |-> "mpk", parts |-> With(Paks, p, image)]
        [] r = "everdrive" /\ p = "sram" -> [form |-> "srm", parts |-> Only(p, image)]
        [] r # "mister" /\ p = "pak1" -> [form |-> "mpk", parts |-> Only(p, image)]
        [] OTHER -> [form |-> body.form, parts |-> Only(p, image)]

(* The data of No$GBA loses its erased end and is filled up again to the   *)
(* next size there is.                                                     *)
Trimmed(image) ==
  LET enough == {s \in 1 .. 2 : s >= image.used}
  IN  [image EXCEPT !.size = CHOOSE s \in enough : \A t \in enough : s <= t]

(* Nintendo DS: a footer of DeSmuME or a header of No$GBA around the data, *)
(* for the runtime that writes it.                                         *)
NormalizeNDS(r, f) ==
  LET image == f.parts["backup"]
      known == f.form = "raw" \/ <<r, f.form>> \in {<<"desmume", "dsv">>, <<"nogba", "nogba">>}
  IN  {[form |-> "raw", parts |-> Only("backup", i)] :
         i \in IF ~known \/ image.save = 0 THEN {}
              ELSE IF f.form = "nogba" THEN {Trimmed(image)} ELSE {image}}

ProjectNDS(r, body) ==
  [body EXCEPT !.form = CASE r = "desmume" -> "dsv" [] r = "nogba" -> "nogba" [] OTHER -> "raw"]

(* Saturn: an image is stored as it comes when one of its volumes has a    *)
(* save. Its length and headers tell what volumes there are.               *)
NormalizeSaturn(f) == IF Populated(f) = {} THEN {} ELSE {f}
Volumes(f) == DOMAIN f.parts
Volume(form, p, f) == IF p \in Volumes(f) THEN [form |-> form, parts |-> Only(p, f.parts[p])] ELSE NoFile

(* buildSaturnMisterPayload *)
Combined(f) ==
  IF "internal" \in Volumes(f) /\ "cartridge" \in Populated(f) THEN [form |-> "interleaved", parts |-> f.parts]
  ELSE Volume("interleaved", "internal", f)

(* buildSaturnExtendedInternalRaw *)
Extended(f) == IF f = NoFile THEN f ELSE [f EXCEPT !.parts["internal"].size = 2]

(* saturnDownloadPayload *)
ProjectSaturn(r, body) ==
  CASE r = "mister"       -> Combined(body)
    [] r = "yabause"      -> Volume("interleaved", "internal", body)
    [] r = "yabasanshiro" -> Extended(Volume("interleaved", "internal", body))
    [] r = "cartridge-raw" -> Volume("raw", "cartridge", body)
    [] r = "mednafen" /\ "internal" \notin Volumes(body) -> Volume("gzip", "cartridge", body)
    [] OTHER -> Volume("raw", "internal", body)

(* dreamcastRuntimeProfileCompatible names the image of a VMU otherwise    *)
(* than parseDreamcastVMUImage does.                                       *)
ProjectDreamcast(r, body) ==
  IF body.form = "bin" \/ (body.form \in {"vms", "dci"} /\ r # "mister") THEN body ELSE NoFile
-----------------------------------------------------------------------------
(* normalizeProjectionUpload, with the refusals of the system's validator. *)
Normalize(r, f) ==
  CASE cart.system = "n64"    -> NormalizeN64(r, f)
    [] cart.system = "nds"    -> NormalizeNDS(r, f)
    [] cart.system = "saturn" -> NormalizeSaturn(f)
    [] OTHER                  -> IF Populated(f) = {} THEN {} ELSE {f}

(* projectPayloadForRuntime: NoFile is its error. *)
Project(r, body) ==
  CASE cart.system = "n64"       -> ProjectN64(r, body)
    [] cart.system = "nds"       -> ProjectNDS(r, body)
    [] cart.system = "saturn"    -> ProjectSaturn(r, body)
    [] cart.system = "dreamcast" -> ProjectDreamcast(r, body)
    [] OTHER                     -> body

(* The runtimes, as their documentation and the conversions have them: the *)
(* file of a game that never was saved, and what a game finds in a part.   *)
Fresh(r) ==
  LET f(form, P) == [form |-> form, parts |-> [p \in P |-> Erased]]
      medium == CHOOSE p \in cart.media : p = "pak1" \/ cart.media # Paks
  IN  CASE cart.system = "n64" /\ r = "retroarch" -> f("srm", SRMParts)
        [] r = "mupen-family" /\ cart.media = Paks -> f("mpk", Paks)
        [] r = "everdrive" /\ medium = "sram" -> f("srm", {"sram"})
        [] cart.system = "n64" -> f("raw", {medium})
        [] cart.system = "nds" -> ProjectNDS(r, f("raw", {"backup"}))
        [] r = "mister" /\ cart.system = "saturn" -> f("interleaved", {"internal", "cartridge"})
        [] r = "cartridge-raw" -> f("raw", {"cartridge"})
        [] r \in {"yabause", "yabasanshiro"} -> f("interleaved", {"internal"})
        [] cart.system = "saturn" -> f("raw", {"internal"})
        [] cart.system = "dreamcast" -> f(IF r = "mister" THEN "vmu-bin" ELSE "vms", {"vmu"})
        [] OTHER -> f("raw", cart.media)

Finds(r, f, p) ==
  LET right == cart.system = "n64" /\ Swaps(r, p)
  IN  IF p \in DOMAIN f.parts /\ f.parts[p].swapped = right THEN f.parts[p].save ELSE 0

(* What a file means to who made it: a game takes the pak of any port.     *)
Means(r, f) ==
  [p \in Media |->
     IF p = "pak1" THEN CHOOSE s \in 0 .. MaxPlays :
                          /\ \A q \in Paks : Finds(r, f, q) <= s
                          /\ \E q \in Paks : Finds(r, f, q) = s
     ELSE IF p \in Paks THEN 0 ELSE Finds(r, f, p)]

Init ==
  /\ cart \in Carts
  /\ runtime \in [Helpers -> RuntimesOf[cart.system]]
  /\ local = [h \in Helpers |-> [file |-> NoFile, from |-> 0]]
  /\ revisions = <<>>
  /\ plays = 0

(* The game saves. *)
Play(h) ==
  LET f == IF local[h].file = NoFile THEN Fresh(runtime[h]) ELSE local[h].file
  IN  /\ plays < MaxPlays
      /\ plays' = plays + 1
      /\ \E p \in cart.media \cap (DOMAIN f.parts \cup {"cartridge"}), n \in 1 .. 2 :
           /\ p = "cartridge" => p \in DOMAIN Fresh(runtime[h]).parts
           /\ n <= cart.size /\ (cart.system = "nds" \/ n = cart.size)
           /\ LET image == [save |-> plays + 1, used |-> n,
                            size |-> IF runtime[h] \in {"retroarch", "yabasanshiro"} THEN 2 ELSE cart.size,
                            swapped |-> cart.system = "n64" /\ Swaps(runtime[h], p)]
              IN  local' = [local EXCEPT ![h] =
                              [file |-> [f EXCEPT !.parts = Only(p, image) @@ @], from |-> 0]]
      /\ UNCHANGED <<cart, runtime, revisions>>

(* The upload of a helper. Contents that a revision has already are either *)
(* its latest, or refused as a stale copy. A file that cannot be normalized*)
(* goes to the quarantine.                                                 *)
Upload(h) ==
  /\ local[h].file # NoFile
  /\ Len(revisions) < MaxRevisions
  /\ \E body \in Normalize(runtime[h], local[h].file) :
       /\ \A i \in 1 .. Len(revisions) : revisions[i].body # body
       /\ revisions' = Append(revisions, [body |-> body, means |-> Means(runtime[h], local[h].file)])
  /\ UNCHANGED <<cart, runtime, local, plays>>

(* The download of a revision, for the runtime of the helper. *)
Download(h) ==
  /\ \E i \in 1 .. Len(revisions) :
       LET f == Project(runtime[h], revisions[i].body)
       IN  f # NoFile /\ local' = [local EXCEPT ![h] = [file |-> f, from |-> i]]
  /\ UNCHANGED <<cart, runtime, revisions, plays>>

Next == \E h \in Helpers : Play(h) \/ Upload(h) \/ Download(h)

Spec == Init /\ [][Next]_vars
-----------------------------------------------------------------------------
(* The parts a runtime of a system takes in the file made for it.          *)
Takes(r, f) == IF cart.system = "saturn" /\ r # "mister" THEN DOMAIN f.parts ELSE Media

(* A copy that was downloaded and not played since holds, for its runtime, *)
(* the very progress the uploader's runtime had, and nothing besides; sent *)
(* back, it is the revision it came from, so that an old copy never comes  *)
(* back as a new save. Two cases are left out of the second part: No$GBA   *)
(* data with an erased end shrinks, and a Saturn image is stored as it     *)
(* comes, the one volume that a runtime takes as much as both.             *)
CopiesReadTheSame ==
  \A h \in Helpers : local[h].from # 0 =>
    LET r == revisions[local[h].from]
        f == local[h].file
    IN  /\ \A p \in Takes(runtime[h], f) : Finds(runtime[h], f, p) = r.means[p]
        /\ cart.system # "saturn" =>
             \E b \in Normalize(runtime[h], f) :
               \/ b = r.body
               \/ /\ runtime[h] = "nogba"
                  /\ [b EXCEPT !.parts["backup"].size = r.body.parts["backup"].size] = r.body
=============================================================================
