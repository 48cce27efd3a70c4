----------------------------- MODULE ConfigStore -----------------------------
(***************************************************************************)
(* Where the running config comes from: the config file and the task that  *)
(* watches it (src/src/runtime.rs), the panel's pages and its store        *)
(* (src/src/panel.rs), and the main task that accepts a change of either,  *)
(* one at a time, and restores the panel's changes at startup              *)
(* (src/src/main.rs).                                                      *)
(*                                                                         *)
(* A config has two parts: what the panel can edit (`users': the users,    *)
(* rules, quotas and accounting) and the rest, which is always some file's.*)
(* A file's own users are named by the file.                               *)
(***************************************************************************)
EXTENDS Naturals, Sequences, FiniteSets

CONSTANTS
    Files,      \* contents the config file may have
    Edits,      \* what the panel may save
    Accepts,    \* the configs that pass config::check
    Pages,      \* open panel pages
    NoStore,    \* there is no panel store
    Torn,       \* a store that is not JSON
    MaxEdits,   \* bound on the changes of the file
    MaxSaves,   \* bound on the saves sent by pages
    MaxBoots    \* bound on the starts after the first

Config(f, x) == [rest |-> f, users |-> x]

ASSUME PartsAssumption ==
    /\ Files \cap Edits = {}
    /\ Accepts \subseteq {Config(f, x) : f \in Files, x \in Files \cup Edits}
ASSUME StoreAssumption ==
    /\ Pages # {} /\ NoStore # Torn
    /\ {NoStore, Torn} \cap [base : Files, users : Edits] = {}
ASSUME BoundsAssumption == {MaxEdits, MaxSaves, MaxBoots} \subseteq Nat

VARIABLES
    file,              \* the config file
    store, spoiled,    \* the panel store, and whether a failure has left the wrong one
    up, boots,         \* the process runs; its starts so far
    live, running,     \* the published Live, and the config Runtime has applied
    file_raw,          \* the file as the main task last heard of it
    rejected,          \* that file was not accepted
    last, seen, wpc,   \* the watcher
    changes, saves,    \* the channels to the main task, of one message each
    mpc, mcfg, mpage,  \* the main task: the config it is applying, for which page
    previous,          \* the store as it was before the save
    page,              \* the panel pages
    count              \* changes of the file and saves so far

watcher == <<last, seen, wpc>>
main == <<mpc, mcfg, mpage, previous>>
process == <<up, boots, live, running, file_raw, rejected, watcher, changes, saves, main>>
store_vars == <<file, store, spoiled, process, page, count>>

Blank == [state |-> "blank", revision |-> 0, config |-> {}, boot |-> 0, edit |-> {}]

-----------------------------------------------------------------------------
FileConfig(f) == Config(f, f)
parses(f) == FileConfig(f) \in Accepts

\* restore: the store counts if the file is the one it was saved over.
Usable(f, s) == s \notin {NoStore, Torn} /\ s.base = f /\ Config(f, s.users) \in Accepts

\* What a start from file f and store s runs.
Restored(f, s) == IF Usable(f, s) THEN Config(f, s.users) ELSE FileConfig(f)

\* What a file operation on the store s may come to.  An error is logged, no
\* more: a store that cannot be read at startup is ignored like one that is not
\* JSON, one that cannot be read before a save counts as missing (`.ok()'), and
\* one that cannot be removed stays.
load_store(s) == {s, Torn}
read_previous(s) == {s, NoStore}
remove_store(s) == {NoStore, s}

\* What a start from file f that has read r leaves of the store s.
Kept(f, s, r) == IF r = Torn \/ Usable(f, r) THEN {s} ELSE remove_store(s)

\* A store that a later start may take for the panel's.
Stray(s) == s \notin {NoStore, Torn}

FirstPage == CHOOSE p \in Pages : TRUE

\* The main task is back in its select loop, with nothing in hand.
Rest(c) == mpc' = "idle" /\ mcfg' = c /\ mpage' = FirstPage /\ previous' = NoStore

\* The process as run() leaves it before the select loop.
Started(f, s) ==
    /\ live' = [config |-> Restored(f, s), revision |-> 0, from_panel |-> Usable(f, s)]
    /\ running' = Restored(f, s)
    /\ file_raw' = f /\ rejected' = FALSE
    /\ last' = f /\ seen' = f /\ wpc' = "idle"
    /\ changes' = <<>> /\ saves' = <<>>
    /\ Rest(Restored(f, s))

StoreInit ==
    /\ file \in {f \in Files : parses(f)}
    /\ store = NoStore /\ spoiled = FALSE
    /\ up = TRUE /\ boots = 0
    /\ live = [config |-> FileConfig(file), revision |-> 0, from_panel |-> FALSE]
    /\ running = FileConfig(file)
    /\ file_raw = file /\ rejected = FALSE
    /\ last = file /\ seen = file /\ wpc = "idle"
    /\ changes = <<>> /\ saves = <<>>
    /\ mpc = "idle" /\ mcfg = FileConfig(file)
    /\ mpage = FirstPage /\ previous = NoStore
    /\ page = [p \in Pages |-> Blank]
    /\ count = [edits |-> 0, saves |-> 0]

\* Startup: a file that does not parse, or a port that cannot be bound, ends it.
Boot ==
    /\ ~up /\ boots < MaxBoots
    /\ parses(file)
    /\ up' = TRUE /\ boots' = boots + 1
    /\ \E r \in load_store(store) :
         /\ store' \in Kept(file, store, r)
         /\ spoiled' = (~Usable(file, r) /\ Stray(store'))
         /\ Started(file, r)
    /\ UNCHANGED <<file, page, count>>

BootFails ==
    /\ ~up /\ parses(file)
    /\ \E r \in load_store(store) : store' \in Kept(file, store, r)
    /\ UNCHANGED <<file, spoiled, process, page, count>>

\* The process ends, by a crash or a shutdown; waiting pages see an error.
Crash ==
    /\ up /\ up' = FALSE
    /\ wpc' = "idle" /\ changes' = <<>> /\ saves' = <<>> /\ Rest(running)
    /\ page' = [p \in Pages |-> IF page[p].state = "waiting"
                                THEN [page[p] EXCEPT !.state = "loaded"] ELSE page[p]]
    /\ UNCHANGED <<file, store, spoiled, boots, live, running, file_raw, rejected, last, seen,
                   count>>

\* The operator writes the config file.
Edit(f) ==
    /\ f # file /\ count.edits < MaxEdits
    /\ file' = f
    /\ count' = [count EXCEPT !.edits = @ + 1]
    /\ UNCHANGED <<store, spoiled, process, page>>

-----------------------------------------------------------------------------
(***************************************************************************)
(* watch_config.                                                           *)
(***************************************************************************)
rest == <<file, store, spoiled, up, boots, live, running, file_raw, rejected, saves, main, page, count>>

Poll ==
    /\ up /\ wpc = "idle" /\ file # last
    /\ seen' = file /\ wpc' = "settle"
    /\ UNCHANGED <<rest, last, changes>>

\* Read again after RELOAD_SETTLE: still the same, or not yet.
Settle ==
    /\ up /\ wpc = "settle"
    /\ IF file = seen
       THEN last' = seen /\ wpc' = "send"
       ELSE wpc' = "idle" /\ UNCHANGED last
    /\ UNCHANGED <<rest, seen, changes>>

\* Mutant: a change that finds the channel full is dropped.
Send_Try ==
    /\ up /\ wpc = "send"
    /\ changes' = IF changes = <<>> THEN <<seen>> ELSE changes
    /\ wpc' = "idle"
    /\ UNCHANGED <<rest, last, seen>>

\* Mutant: an unbounded channel.
Send_Unbounded ==
    /\ up /\ wpc = "send"
    /\ changes' = Append(changes, seen) /\ wpc' = "idle"
    /\ UNCHANGED <<rest, last, seen>>

\* The channel holds one change: the watcher waits for room.
Send ==
    /\ up /\ wpc = "send" /\ changes = <<>>
    /\ changes' = <<seen>> /\ wpc' = "idle"
    /\ UNCHANGED <<rest, last, seen>>

-----------------------------------------------------------------------------
(***************************************************************************)
(* The main task: a change of the file.                                    *)
(***************************************************************************)
Idle == up /\ mpc = "idle"

publish(c, from_panel) ==
    live' = [config |-> c, revision |-> live.revision + 1, from_panel |-> from_panel]

ReloadBegin ==
    /\ Idle /\ changes # <<>>
    /\ changes' = <<>> /\ file_raw' = Head(changes)
    /\ IF parses(Head(changes))
       THEN mpc' = "reload" /\ mcfg' = FileConfig(Head(changes)) /\ UNCHANGED rejected
       ELSE rejected' = TRUE /\ UNCHANGED <<mpc, mcfg>>
    /\ UNCHANGED <<file, store, spoiled, up, boots, live, running, watcher, saves,
                   mpage, previous, page, count>>

ReloadApplies ==
    /\ up /\ mpc = "reload"
    /\ running' = mcfg /\ mpc' = "drop"
    /\ UNCHANGED <<file, store, spoiled, up, boots, live, file_raw, rejected, watcher, changes, saves,
                   mcfg, mpage, previous, page, count>>

\* A port cannot be bound: nothing has changed.
ReloadFails ==
    /\ up /\ mpc = "reload"
    /\ Rest(running) /\ rejected' = TRUE
    /\ UNCHANGED <<file, store, spoiled, up, boots, live, running, file_raw, watcher, changes,
                   saves, page, count>>

\* Mutant: the store is left behind.
ReloadDone_Keeps ==
    /\ up /\ mpc = "drop"
    /\ publish(mcfg, FALSE)
    /\ Rest(mcfg) /\ rejected' = FALSE
    /\ UNCHANGED <<file, store, spoiled, up, boots, running, file_raw, watcher, changes, saves,
                   page, count>>

\* The panel's changes are dropped, if they can be, and the config published.
ReloadDone ==
    /\ up /\ mpc = "drop"
    /\ IF live.from_panel
       THEN store' \in remove_store(store) /\ spoiled' = Stray(store')
       ELSE UNCHANGED <<store, spoiled>>
    /\ publish(mcfg, FALSE)
    /\ Rest(mcfg) /\ rejected' = FALSE
    /\ UNCHANGED <<file, up, boots, running, file_raw, watcher, changes, saves,
                   page, count>>

-----------------------------------------------------------------------------
(***************************************************************************)
(* The panel: a page loads the config and sends an edit (put_config).      *)
(***************************************************************************)
Load(p) ==
    /\ up /\ page[p].state # "waiting"
    /\ page' = [page EXCEPT ![p] = [state |-> "loaded", revision |-> live.revision,
                                    config |-> {live.config}, boot |-> boots, edit |-> {}]]
    /\ UNCHANGED <<file, store, spoiled, process, count>>

Put(p, e) ==
    /\ up /\ page[p].state = "loaded" /\ saves = <<>>
    /\ count.saves < MaxSaves
    /\ count' = [count EXCEPT !.saves = @ + 1]
    /\ saves' = <<p>>
    /\ page' = [page EXCEPT ![p].state = "waiting", ![p].edit = {e}]
    /\ UNCHANGED <<file, store, spoiled, up, boots, live, running, file_raw, rejected, watcher, changes,
                   main>>

\* The answer to a save that failed: the page keeps what it loaded.
Answer(p) == page' = [page EXCEPT ![p].state = "loaded", ![p].edit = {}]

\* The answer to one that worked: the page has what it sent, and its revision.
AnswerSaved(p) ==
    page' = [page EXCEPT ![p] = [state |-> "loaded", revision |-> live.revision + 1,
                                 config |-> {mcfg}, boot |-> boots, edit |-> {}]]

Edited(p) == Config(live.config.rest, CHOOSE e \in page[p].edit : TRUE)

\* Mutant: the revision the page loaded is not looked at.
Stale_Never(p) == FALSE

Stale(p) == page[p].revision # live.revision

\* save: a page that loaded another revision, or an edit that does not check.
SaveRefused ==
    /\ Idle /\ saves # <<>> /\ saves' = <<>>
    /\ LET p == Head(saves) IN
         /\ Stale(p) \/ Edited(p) \notin Accepts
         /\ Answer(p)
    /\ UNCHANGED <<file, store, spoiled, up, boots, live, running, file_raw, rejected, watcher, changes,
                   main, count>>

SaveBegin ==
    /\ Idle /\ saves # <<>> /\ saves' = <<>>
    /\ LET p == Head(saves) IN
         /\ ~Stale(p) /\ Edited(p) \in Accepts
         /\ mcfg' = Edited(p) /\ mpage' = p
    /\ previous' \in read_previous(store) /\ mpc' = "write"
    /\ UNCHANGED <<file, store, spoiled, up, boots, live, running, file_raw, rejected, watcher, changes,
                   page, count>>

\* write_store: a temporary file, renamed.
SaveWrites ==
    /\ up /\ mpc = "write"
    /\ store' = [base |-> file_raw, users |-> mcfg.users]
    /\ mpc' = "apply"
    /\ UNCHANGED <<file, spoiled, up, boots, live, running, file_raw, rejected, watcher, changes, saves,
                   mcfg, mpage, previous, page, count>>

SaveWriteFails ==
    /\ up /\ mpc = "write"
    /\ Answer(mpage) /\ Rest(running)
    /\ UNCHANGED <<file, store, spoiled, up, boots, live, running, file_raw, rejected, watcher, changes,
                   saves, count>>

\* Mutant: the config runs but the panel and the engine are not told.
SaveApplies_Unpublished ==
    /\ up /\ mpc = "apply"
    /\ running' = mcfg /\ spoiled' = FALSE
    /\ Answer(mpage) /\ Rest(mcfg)
    /\ UNCHANGED <<file, store, up, boots, live, file_raw, rejected, watcher, changes, saves,
                   count>>

SaveApplies ==
    /\ up /\ mpc = "apply"
    /\ running' = mcfg /\ spoiled' = FALSE
    /\ publish(mcfg, TRUE)
    /\ AnswerSaved(mpage) /\ Rest(mcfg)
    /\ UNCHANGED <<file, store, up, boots, file_raw, rejected, watcher, changes, saves,
                   count>>

\* A port cannot be bound: the old store is written back, which empties the file first.
SaveApplyFails ==
    /\ up /\ mpc = "apply" /\ previous # NoStore
    /\ mpc' = "undo" /\ store' = Torn
    /\ UNCHANGED <<file, spoiled, up, boots, live, running, file_raw, rejected, watcher, changes, saves,
                   mcfg, mpage, previous, page, count>>

\* The same with no old store: the new one is removed, if it can be.
SaveDropped ==
    /\ up /\ mpc = "apply" /\ previous = NoStore
    /\ store' \in remove_store(store)
    /\ spoiled' = (live.from_panel \/ Stray(store'))
    /\ Answer(mpage) /\ Rest(running)
    /\ UNCHANGED <<file, up, boots, live, running, file_raw, rejected, watcher, changes, saves,
                   count>>

SaveUndone ==
    /\ up /\ mpc = "undo"
    /\ store' = previous
    /\ Answer(mpage) /\ Rest(running)
    /\ UNCHANGED <<file, spoiled, up, boots, live, running, file_raw, rejected, watcher, changes, saves,
                   count>>

\* The old store cannot be written: an error is logged, no more.
SaveUndoFails ==
    /\ up /\ mpc = "undo"
    /\ store' \in {store, [base |-> file_raw, users |-> mcfg.users]}
    /\ spoiled' = (live.from_panel \/ Stray(store'))
    /\ Answer(mpage) /\ Rest(running)
    /\ UNCHANGED <<file, up, boots, live, running, file_raw, rejected, watcher, changes, saves,
                   count>>

-----------------------------------------------------------------------------
Watch == Poll \/ Settle \/ Send

Main ==
    \/ ReloadBegin \/ ReloadApplies \/ ReloadFails \/ ReloadDone
    \/ SaveRefused \/ SaveBegin \/ SaveWrites \/ SaveWriteFails
    \/ SaveApplies \/ SaveApplyFails \/ SaveDropped \/ SaveUndone \/ SaveUndoFails

StoreNext ==
    \/ Boot \/ BootFails \/ Crash
    \/ \E f \in Files : Edit(f)
    \/ Watch \/ Main
    \/ \E p \in Pages : Load(p) \/ \E e \in Edits : Put(p, e)

StoreSpec == StoreInit /\ [][StoreNext]_store_vars

\* The watcher's timer ticks, and the main task's select, whose arms tokio
\* picks at random, takes a channel that stays full; awaits end.
LiveSpec ==
    /\ StoreSpec
    /\ WF_store_vars(Poll) /\ WF_store_vars(Settle) /\ WF_store_vars(Send)
    /\ SF_store_vars(ReloadBegin) /\ WF_store_vars(Main)

-----------------------------------------------------------------------------
Stores == [base : Files, users : Edits] \cup {NoStore, Torn}

StoreTypeOK ==
    /\ {file, file_raw, last, seen} \subseteq Files
    /\ {store, previous} \subseteq Stores
    /\ {up, spoiled, rejected} \subseteq BOOLEAN /\ boots \in 0..MaxBoots
    /\ live \in [config : Accepts, revision : Nat, from_panel : BOOLEAN]
    /\ {running, mcfg} \subseteq Accepts
    /\ wpc \in {"idle", "settle", "send"}
    /\ mpc \in {"idle", "reload", "drop", "write", "apply", "undo"}
    /\ changes \in Seq(Files) /\ Len(changes) <= 1
    /\ saves \in Seq(Pages) /\ Len(saves) <= 1
    /\ mpage \in Pages
    /\ count \in [edits : 0..MaxEdits, saves : 0..MaxSaves]
    /\ \A p \in Pages :
         /\ page[p].state \in {"blank", "loaded", "waiting"}
         /\ (page[p].state = "waiting") = (saves = <<p>> \/ (mpage = p /\ mpc \in {"write", "apply", "undo"}))

\* Whenever the main task rests, the config the panel shows and the accounting
\* engine reads is the one the runtime has applied, after every accepted, refused
\* or failed change.
LiveIsRunning == Idle => live.config = running

\* A failure has left the wrong store, and a restart would go by it.
Harmed == spoiled /\ (live.from_panel \/ Usable(file, store))

(***************************************************************************)
(* README: the panel's changes "survive restarts", and an edited file      *)
(* takes over.  Unless the file was changed since it was last accepted, a  *)
(* restart at any moment brings back the running config, or the one being  *)
(* applied.  The exceptions are a store being put back after a failed      *)
(* save, and a file operation on the store that failed, as far as it does  *)
(* harm: the panel's running changes are not in the store, or one that was *)
(* dropped or refused is, and the file is the one it was saved over.  What *)
(* is shown as running is running.                                         *)
(***************************************************************************)
RestartKeepsConfig ==
    /\ StoreTypeOK /\ LiveIsRunning
    /\ up /\ mpc # "undo" /\ file = file_raw /\ ~rejected /\ ~Harmed =>
        \/ Restored(file, store) = live.config
        \/ mpc \in {"reload", "drop", "apply"} /\ Restored(file, store) = mcfg

(***************************************************************************)
(* "The config changed after this page loaded it" (the conflict of save):  *)
(* an accepted save replaces the very config its page had loaded, unless   *)
(* the process was restarted meanwhile, which starts the revisions again.  *)
(***************************************************************************)
NoLostUpdate ==
    [][mpc = "idle" /\ mpc' = "write" /\ page[mpage'].boot = boots
         => page[mpage'].config = {live.config}]_store_vars

(***************************************************************************)
(* README: the file is checked "every 3 seconds"; "when its content        *)
(* changes (and stays the same ...) it is reloaded".  If the process stays *)
(* up and the file is left alone, the main task gets to hear of it,        *)
(* whatever saves and failures keep it busy.                               *)
(***************************************************************************)
FileIsHeard == \A f \in Files : <>[](up /\ file = f) => <>[](file_raw = f)
=============================================================================
