-------------------------------- MODULE Shell --------------------------------
(***************************************************************************)
(* The shell of the web client (src/frontend): the session of a browser    *)
(* tab, its pages and history, the map with its zones and panels, and the  *)
(* quest guide. One tab: sessionStorage is its own. What the guest does    *)
(* inside a panel is a call here, whose handler runs some time after; Stay *)
(* and ParrotChat say what the calls do.                                   *)
(***************************************************************************)
EXTENDS Integers, SequencesExt

CONSTANTS
    Profiles,       \* guest profiles
    Admin,          \* the role of an admin session
    None,           \* null
    Configured,     \* env.adminPasscode is set
    MaxEntries      \* bound: entries of the browser's history

ASSUME ShellAssumption ==
    /\ None \notin Profiles \cup {Admin} /\ Admin \notin Profiles
    /\ Configured \in BOOLEAN /\ MaxEntries \in Nat \ {0}

Zones == {"airport", "hotel", "beach", "parrot", "broadcast"}
Islands == {"purrlington", "alien"}
Facts == {"landed", "reservation", "booked", "asked"}

VARIABLES
    entries,    \* the tab's history
    pos,        \* the entry shown
    store,      \* the session store
    persisted,  \* its entry in sessionStorage
    zone,       \* activeZone of the map page
    island,     \* currentIslandId of the map page
    visited,    \* guests who opened the lighthouse, the one mark that is read
    dismissed,  \* completionDismissedByGuest
    facts,      \* what the queries of the guest have answered
    call        \* a call of a panel in progress

shellVars == <<entries, pos, store, persisted, zone, island, visited, dismissed, facts, call>>

----------------------------------------------------------------------------
(***************************************************************************)
(* The session store                                                       *)
(***************************************************************************)
EmptySession == [session |-> None, guest |-> None, isAdmin |-> FALSE]
guestSession(g) == [session |-> g, guest |-> g, isAdmin |-> FALSE]
adminSession == [session |-> Admin, guest |-> None, isAdmin |-> TRUE]

deriveGuest(s) == IF s \in Profiles THEN s ELSE None

\* An older version persisted the guest.
migrateSessionState(p) ==
    IF p.session # None
    THEN [session |-> p.session, guest |-> deriveGuest(p.session), isAdmin |-> p.session = Admin]
    ELSE IF p.guest # None THEN guestSession(p.guest) ELSE EmptySession

partialize(st) == [session |-> st.session, guest |-> None]

----------------------------------------------------------------------------
(***************************************************************************)
(* Zones and quests                                                        *)
(***************************************************************************)
landed == "landed" \in facts
checkedIn == "reservation" \in facts

\* The marker of a zone on the map.
isLocked(z) ==
    /\ ~store.isAdmin
    /\ \/ z # "airport" /\ ~landed
       \/ z = "beach" /\ ~checkedIn

\* What the panel of a zone shows.
PanelContent(z) ==
    CASE store.isAdmin -> "overview"
      [] ~store.isAdmin /\ z \in {"hotel", "beach", "parrot"} /\ ~landed -> "not landed"
      [] ~store.isAdmin /\ z = "beach" /\ landed /\ ~checkedIn -> "not checked in"
      [] OTHER -> "open"

\* QUEST_STEPS, which name their zones.
QuestSteps == <<"airport", "hotel", "beach", "parrot", "broadcast">>

completed(step) ==
    CASE step = "airport" -> landed
      [] step = "hotel" -> checkedIn
      [] step = "beach" -> "booked" \in facts
      [] step = "parrot" -> "asked" \in facts
      [] step = "broadcast" -> store.guest \in visited

\* Mutant: the hotel's step is behind the beach's.
BeachFirst ==
    LET order == <<"airport", "beach", "hotel", "parrot", "broadcast">>
        open == {i \in 1 .. 5 : ~completed(order[i])}
    IN  IF open = {} THEN None ELSE order[Min(open)]

\* The first that is not completed.
activeStep ==
    LET open == {i \in 1 .. 5 : ~completed(QuestSteps[i])} IN
    IF open = {} THEN None ELSE QuestSteps[Min(open)]

GuideShown == store.guest # None /\ store.guest \notin dismissed

----------------------------------------------------------------------------
(***************************************************************************)
(* Pages                                                                   *)
(***************************************************************************)
page == entries[pos]

\* Mutant: every page is shown to everyone.
RequireNothing(e, p, st) == e

\* The map and the pass need a session; without one the entry is replaced.
RequireSession(e, p, st) ==
    IF e[p] \in {"map", "pass"} /\ st.session = None THEN [e EXCEPT ![p] = "select"] ELSE e

\* A call whose panel is gone keeps the session of the last render.
Unmounted(c) ==
    IF c # None /\ c.mounted THEN [c EXCEPT !.mounted = FALSE, !.session = store.session] ELSE c

\* Mutant: the handler asks the store who is there.
AskStore(c) == store.session

\* The session a handler acts for.
HandlerSession(c) == IF c.mounted THEN store.session ELSE c.session

\* The page of entry p is shown with the store st and what is saved of it; the
\* quit page clears both. The map page keeps its state only as long as it is on
\* the screen.
Show(e, p, st, saved) ==
    LET after == IF e[p] = "quit" THEN EmptySession ELSE st
        shown == RequireSession(e, p, after)
    IN  /\ entries' = shown /\ pos' = p
        /\ store' = after
        /\ persisted' = IF e[p] = "quit" THEN partialize(after) ELSE saved
        /\ IF page = "map" /\ shown[p] = "map" THEN UNCHANGED <<zone, island, call>>
           ELSE zone' = None /\ island' = "purrlington" /\ call' = Unmounted(call)
        /\ facts' = IF after = store THEN facts ELSE {}

navigate(target, st, saved) ==
    /\ pos < MaxEntries
    /\ Show(Append(SubSeq(entries, 1, pos), target), pos + 1, st, saved)

\* The handlers that set the store save it.
setAndNavigate(target, st) == navigate(target, st, partialize(st))

\* The guest selection page: a guest's card, or the passcode on its back.
handleSelectGuest(g) ==
    /\ page = "select"
    /\ setAndNavigate("map", guestSession(g))
    /\ UNCHANGED <<visited, dismissed>>

handleAdminLogin ==
    /\ page = "select"
    /\ Configured
    /\ setAndNavigate("map", adminSession)
    /\ UNCHANGED <<visited, dismissed>>

\* The corner of the map page.
handleSwitchSession ==
    /\ page = "map"
    /\ setAndNavigate("select", EmptySession)
    /\ UNCHANGED <<visited, dismissed>>

handleQuit ==
    /\ page = "map"
    /\ navigate("quit", store, persisted)
    /\ UNCHANGED <<visited, dismissed>>

handleOpenPass ==
    /\ page = "map"
    /\ navigate("pass", store, persisted)
    /\ UNCHANGED <<visited, dismissed>>

BackToMap ==
    /\ page = "pass"
    /\ navigate("map", store, persisted)
    /\ UNCHANGED <<visited, dismissed>>

\* The browser's buttons.
BackOrForward(p) ==
    /\ p \in {pos - 1, pos + 1} \cap 1 .. Len(entries)
    /\ Show(entries, p, store, persisted)
    /\ UNCHANGED <<visited, dismissed>>

\* The page is loaded again: the stores come from sessionStorage, the queries
\* and the handlers are gone.
Reload ==
    LET st == migrateSessionState(persisted)
        after == IF page = "quit" THEN EmptySession ELSE st
    IN  /\ store' = after
        /\ persisted' = IF page = "quit" THEN partialize(after) ELSE persisted
        /\ entries' = RequireSession(entries, pos, after)
        /\ zone' = None /\ island' = "purrlington"
        /\ facts' = {} /\ call' = None
        /\ UNCHANGED <<pos, visited, dismissed>>

----------------------------------------------------------------------------
(***************************************************************************)
(* The map page                                                            *)
(***************************************************************************)

\* A marker, or the button of the quest guide.
openZone(z) ==
    /\ page = "map"
    /\ zone # z
    /\ visited' = IF store.guest # None /\ z = "broadcast" THEN visited \cup {store.guest} ELSE visited
    /\ zone' = z
    /\ call' = Unmounted(call)
    /\ UNCHANGED <<entries, pos, store, persisted, island, dismissed, facts>>

\* The button or the Escape key.
onClose ==
    /\ zone # None
    /\ zone' = None
    /\ call' = Unmounted(call)
    /\ UNCHANGED <<entries, pos, store, persisted, island, visited, dismissed, facts>>

travelToIsland(i) ==
    /\ zone = "broadcast" /\ island # i
    /\ island' = i
    /\ zone' = None
    /\ call' = Unmounted(call)
    /\ UNCHANGED <<entries, pos, store, persisted, visited, dismissed, facts>>

\* "Hide guide".
dismissComplete ==
    /\ page = "map" /\ GuideShown /\ activeStep = None
    /\ dismissed' = dismissed \cup {store.guest}
    /\ UNCHANGED <<entries, pos, store, persisted, zone, island, visited, facts, call>>

\* A query of the guest has a new answer; an admin has no queries of a guest.
Learn(f) ==
    /\ page = "map" /\ store.guest # None
    /\ f # facts
    /\ facts' = f
    /\ UNCHANGED <<entries, pos, store, persisted, zone, island, visited, dismissed, call>>

\* A guest's form or button, or the announcement of an admin.
Submit ==
    /\ zone # None /\ call = None
    /\ PanelContent(zone) = (IF zone = "broadcast" THEN "overview" ELSE "open")
    /\ call' = [by |-> store.session, mounted |-> TRUE, session |-> None]
    /\ UNCHANGED <<entries, pos, store, persisted, zone, island, visited, dismissed, facts>>

\* The answer is handled; it is a new fact for the guest it was made for.
Handle(f) ==
    /\ call # None
    /\ facts' = IF HandlerSession(call) = store.guest THEN facts \cup {f} ELSE facts
    /\ call' = None
    /\ UNCHANGED <<entries, pos, store, persisted, zone, island, visited, dismissed>>

----------------------------------------------------------------------------
\* A new tab, or one left open by an older version.
ShellInit ==
    /\ entries = <<"select">> /\ pos = 1
    /\ \E g \in Profiles \cup {None} : persisted = [session |-> None, guest |-> g]
    /\ store = migrateSessionState(persisted)
    /\ zone = None /\ island = "purrlington"
    /\ visited = {} /\ dismissed = {} /\ facts = {} /\ call = None

ShellNext ==
    \/ \E g \in Profiles : handleSelectGuest(g)
    \/ handleAdminLogin \/ handleSwitchSession \/ handleQuit \/ handleOpenPass \/ BackToMap
    \/ \E p \in 1 .. MaxEntries : BackOrForward(p)
    \/ Reload
    \/ \E z \in Zones : openZone(z)
    \/ onClose \/ dismissComplete \/ Submit
    \/ \E i \in Islands : travelToIsland(i)
    \/ \E f \in SUBSET Facts : Learn(f)
    \/ \E f \in Facts : Handle(f)

ShellSpec == ShellInit /\ [][ShellNext]_shellVars

----------------------------------------------------------------------------
(***************************************************************************)
(* Properties                                                              *)
(***************************************************************************)

\* The zone the quest guide sends a guest to can be used: its marker is not
\* locked and its panel shows no gate, whatever the queries have answered so
\* far and in whichever order they change. The order of the quests, the locks
\* and the gates are written down in three places.
GuideLeadsOn ==
    page = "map" /\ GuideShown /\ activeStep # None =>
        /\ ~isLocked(activeStep)
        /\ PanelContent(activeStep) = "open"

\* The handler of a call acts for the session that made the call, whoever has
\* the tab when the answer comes. The hooks take the guest from their last
\* render, so this needs every change of session to unmount them.
CallerKept == call # None => HandlerSession(call) = call.by

\* A page that needs a session has one, and the tab would be the same after a
\* reload, although only one of the store's three fields is persisted and the
\* history leads back to pages of a session that is over.
SessionConsistent ==
    /\ page \in {"map", "pass"} => store.session # None
    /\ page = "quit" => store.session = None
    /\ migrateSessionState(persisted) = store
====
