---- MODULE MCServices ----
(***************************************************************************)
(* The services of the server that share no state with the saves nor with  *)
(* each other: the notifications, the sync log, the web sessions, the      *)
(* throttle on logins, the policy of a device and the library of cheat     *)
(* packs, which this module extends; and the editors of a save, the forms  *)
(* it has on runtimes, and the images of memory cards, which it makes      *)
(* instances of.  A behaviour is of one of them; the others stay as they   *)
(* began.                                                                  *)
(***************************************************************************)
EXTENDS Notifications, SyncLog, WebSessions, LoginThrottle, DevicePolicy,
        CheatLibrary

MCReportedLists ==
    LET s(i, k, o, sys) == [id |-> i, kind |-> k, origin |-> o, systems |-> sys]
    IN  {<<>>,
         <<s("a", "mister", "helper", {"snes", "psp"})>>,
         <<s("a", "emulator", "helper", {"snes"}),
           s("a", "emulator", "helper", {"ps2", "odd"})>>,
         <<s("b", "emulator", "backend", {"ps2"})>>}
MCPolicyLists ==
    LET s(i, k, sys) == [id |-> i, kind |-> k, origin |-> "backend", systems |-> sys]
    IN  {<<>>,
         <<s("a", "emulator", {"ps2", "psp"})>>,
         <<s("a", "mister", {"snes", "ps2"}), s("b", "emulator", {"psp"}),
           s("a", "emulator", {"psp"})>>}
MCAllowLists == {{}, {"snes", "ps2", "odd"}}

MCPlace == [m \in Modules |-> IF m = "module" THEN 1 ELSE 2]
MCBundles == [m \in Modules |-> IF m = "module" THEN {{"second"}, {"first", "second"}}
                                               ELSE {{"first"}, {"second"}}]
MCParserOf == [p \in Packs |-> IF p = "second" THEN "module" ELSE CompiledIn]

CONSTANTS Games, Slots, Torn, MaxSaves
VARIABLES game, payload, promised, saves
G == INSTANCE SaveEditors
editorVars == <<game, payload, promised, saves>>

CONSTANTS Helpers, NoFile, MaxPlays, MaxRevisions
VARIABLES cart, runtime, local, revisions, plays
R == INSTANCE RuntimeProfiles
profileVars == <<cart, runtime, local, revisions, plays>>

CONSTANTS Files, Products, Room, Sizes, Consoles, MaxWrites
VARIABLES file, image, held, base, played, blocks, writes
M == INSTANCE MemoryCards WITH revisions <- blocks
cardVars == <<file, image, held, base, played, blocks, writes>>

VARIABLE part

PartInit ==
    /\ part \in {"notifications", "log", "web", "throttle", "policy",
                 "library", "editors", "profiles", "cards"}
    /\ NotificationsInit /\ LogInit /\ WebInit /\ ThrottleInit /\ PolicyInit
    /\ LibraryInit /\ G!Init /\ R!Init /\ M!Init
    /\ part = "editors" \/ game = "dkc"
    /\ part = "cards" \/ file = "bin"
    /\ part = "profiles" \/ (cart.system = "gba" /\ \A h \in Helpers : runtime[h] = "mgba")

PartNext ==
    \/ /\ part = "notifications"
       /\ NotificationsNext
       /\ UNCHANGED <<logVars, webVars, throttleVars, policyVars, libraryVars,
                      editorVars, profileVars, cardVars, part>>
    \/ /\ part = "log"
       /\ LogNext
       /\ UNCHANGED <<notificationVars, webVars, throttleVars, policyVars,
                      libraryVars, editorVars, profileVars, cardVars, part>>
    \/ /\ part = "web"
       /\ WebNext
       /\ UNCHANGED <<notificationVars, logVars, throttleVars, policyVars,
                      libraryVars, editorVars, profileVars, cardVars, part>>
    \/ /\ part = "throttle"
       /\ ThrottleNext
       /\ UNCHANGED <<notificationVars, logVars, webVars, policyVars,
                      libraryVars, editorVars, profileVars, cardVars, part>>
    \/ /\ part = "policy"
       /\ PolicyNext
       /\ UNCHANGED <<notificationVars, logVars, webVars, throttleVars,
                      libraryVars, editorVars, profileVars, cardVars, part>>
    \/ /\ part = "library"
       /\ LibraryNext
       /\ UNCHANGED <<notificationVars, logVars, webVars, throttleVars,
                      policyVars, editorVars, profileVars, cardVars, part>>
    \/ /\ part = "editors"
       /\ G!Next
       /\ UNCHANGED <<notificationVars, logVars, webVars, throttleVars,
                      policyVars, libraryVars, profileVars, cardVars, part>>
    \/ /\ part = "profiles"
       /\ R!Next
       /\ UNCHANGED <<notificationVars, logVars, webVars, throttleVars,
                      policyVars, libraryVars, editorVars, cardVars, part>>
    \/ /\ part = "cards"
       /\ M!Next
       /\ UNCHANGED <<notificationVars, logVars, webVars, throttleVars,
                      policyVars, libraryVars, editorVars, profileVars, part>>

Parts ==
    /\ PartInit
    /\ [][PartNext]_<<notificationVars, logVars, webVars, throttleVars, policyVars,
                      libraryVars, editorVars, profileVars, cardVars, part>>
    /\ Fairness

TypesOK ==
  CASE part = "notifications" -> NotificationsTypeOK
    [] part = "log" -> LogTypeOK
    [] part = "web" -> WebTypeOK
    [] part = "throttle" -> ThrottleTypeOK
    [] part = "policy" -> PolicyTypeOK
    [] part = "library" -> LibraryTypeOK
    [] part = "editors" -> G!TypeOK
    [] part = "profiles" -> R!TypeOK
    [] part = "cards" -> M!TypeOK
\* Of the machines extended, the run checks the definitions of their modules;
\* they hold in the first state, as which the machine stays in other parts.
EditsAreSeen == part = "editors" => G!EditsAreSeen
CopiesReadTheSame == part = "profiles" => R!CopiesReadTheSame
CardsAreReadBack == part = "cards" => M!CardsAreReadBack
====
