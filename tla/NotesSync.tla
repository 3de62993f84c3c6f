----------------------------- MODULE NotesSync -----------------------------
(***************************************************************************)
(* The notes of one workspace as several browsers edit them at once        *)
(* (src/static/app.js): the debounced save of a textarea, the refresh of a *)
(* textarea from the workspace lists a browser fetches, and the row both   *)
(* go to (src/src/projects.rs).                                            *)
(*                                                                         *)
(* Requests travel on several HTTP connections: they reach the server in   *)
(* any order, answers come back in any order, and either may be lost.      *)
(***************************************************************************)
EXTENDS Naturals, FiniteSets

CONSTANTS
    Browsers,     \* open pages
    Texts,        \* what the notes may say
    Empty,        \* the notes of a new workspace
    Pending,      \* a request that has not been answered
    Absent,       \* no text: a request that failed, a workspace not in the list
    Slots,        \* places for the saves a page has under way at once
    MaxSaves,     \* bound, for each page: how many of them it uses
    MaxFetches,   \* bound, for each page: lists it fetches before it is loaded again
    MaxEdits,     \* bound, for each page: edits of its user
    Reloaders     \* the pages that may be closed or loaded again

ASSUME NotesAssumption ==
    /\ Empty \in Texts
    /\ Pending \notin Texts
    /\ Absent \notin Texts
    /\ Absent # Pending
    /\ MaxSaves \in [Browsers -> Nat]
    /\ MaxFetches \in [Browsers -> Nat]
    /\ MaxEdits \in [Browsers -> Nat]
    /\ Reloaders \subseteq Browsers

VARIABLES
    notes,    \* the notes column of the workspace
    held,     \* every text that column has held
    open,     \* the pages with a notes entry for the workspace
    text,     \* entry.textarea.value
    saved,    \* entry.lastSavedValue
    timer,    \* the pages whose entry.saveTimer is armed
    cached,   \* notes of the workspace in _workspaces, Absent if it is not there
    gen,      \* _workspaceFetchGeneration
    shown,    \* the generation of the list in _workspaces
    gets,     \* fetches of the list under way
    puts,     \* saves under way
    edits     \* how often a user has typed

server == <<notes, held>>
entry == <<open, text, saved, timer>>
list == <<cached, gen, shown, gets>>
vars == <<server, entry, list, puts, edits>>

\* A fetch and, once the server has answered it, the notes in the answer.
Get == [g : Nat, notes : Texts \cup {Pending, Absent}]

\* A save, what became of it, and whether the page that sent it is still there.
Put == [text : Texts, state : {"sent", "stored", "failed"}, mine : BOOLEAN]
NoPut == [text |-> Empty, state |-> "none", mine |-> FALSE]

TypeOK ==
    /\ notes \in Texts
    /\ held \subseteq Texts
    /\ open \subseteq Browsers
    /\ text \in [Browsers -> Texts]
    /\ saved \in [Browsers -> Texts]
    /\ timer \subseteq open
    /\ cached \in [Browsers -> Texts \cup {Absent}]
    /\ gen \in [Browsers -> Nat]
    /\ shown \in [Browsers -> Nat]
    /\ gets \in [Browsers -> SUBSET Get]
    /\ puts \in [Browsers -> [Slots -> Put \cup {NoPut}]]
    /\ edits \in [Browsers -> Nat]

Init ==
    /\ notes = Empty
    /\ held = {Empty}
    /\ open = {}
    /\ text = [b \in Browsers |-> Empty]
    /\ saved = [b \in Browsers |-> Empty]
    /\ timer = {}
    /\ cached = [b \in Browsers |-> Absent]
    /\ gen = [b \in Browsers |-> 0]
    /\ shown = [b \in Browsers |-> 0]
    /\ gets = [b \in Browsers |-> {}]
    /\ puts = [b \in Browsers |-> [s \in Slots |-> NoPut]]
    /\ edits = [b \in Browsers |-> 0]

-----------------------------------------------------------------------------
(***************************************************************************)
(* The workspace list and the refresh of the textarea.                     *)
(***************************************************************************)

\* fetchWorkspaces: an SSE event, a switch of tabs, an operation that ended.
Fetch(b) ==
    /\ gen[b] < MaxFetches[b]
    /\ gen' = [gen EXCEPT ![b] = @ + 1]
    /\ gets' = [gets EXCEPT ![b] = @ \cup {[g |-> gen[b] + 1, notes |-> Pending]}]
    /\ UNCHANGED <<server, entry, cached, shown, puts, edits>>

\* list_workspaces answers, or the fetch fails.
GetAnswered(b) ==
    \E r \in gets[b], answer \in {notes, Absent} :
        /\ r.notes = Pending
        /\ gets' = [gets EXCEPT ![b] = (@ \ {r}) \cup {[r EXCEPT !.notes = answer]}]
        /\ UNCHANGED <<server, entry, cached, gen, shown, puts, edits>>

\* Mutant: the textarea is refreshed whatever has been typed.
AlwaysRefreshed(b, t) == b \in open /\ t # text[b]

\* syncNotesFromServer: the user has no unsaved typing, the server has news.
Refreshed(b, t) == b \in open /\ text[b] = saved[b] /\ t # saved[b]

SyncNotes(b, t) ==
    /\ text' = IF Refreshed(b, t) THEN [text EXCEPT ![b] = t] ELSE text
    /\ saved' = IF Refreshed(b, t) THEN [saved EXCEPT ![b] = t] ELSE saved

\* Mutant: no generation is compared.
AnyGeneration(b, g) == TRUE

NewestGeneration(b, g) == g = gen[b]

\* The answer of a fetch that is still the newest replaces the list; a machine that
\* did not answer has no workspaces in it.
GetReturns(b) ==
    \E r \in gets[b] :
        /\ r.notes # Pending
        /\ gets' = [gets EXCEPT ![b] = @ \ {r}]
        /\ IF NewestGeneration(b, r.g)
           THEN /\ cached' = [cached EXCEPT ![b] = r.notes]
                /\ shown' = [shown EXCEPT ![b] = r.g]
                /\ IF r.notes = Absent THEN UNCHANGED <<text, saved>> ELSE SyncNotes(b, r.notes)
           ELSE UNCHANGED <<cached, shown, text, saved>>
        /\ UNCHANGED <<server, open, timer, gen, puts, edits>>

\* renderSelectedWorkspace: sync with the list at hand, make the entry when there is
\* none.
Render(b) ==
    /\ cached[b] # Absent
    /\ open' = open \cup {b}
    /\ IF b \in open
       THEN SyncNotes(b, cached[b])
       ELSE /\ text' = [text EXCEPT ![b] = cached[b]]
            /\ saved' = [saved EXCEPT ![b] = cached[b]]
    /\ UNCHANGED <<server, timer, list, puts, edits>>

-----------------------------------------------------------------------------
(***************************************************************************)
(* Typing and saving.                                                      *)
(***************************************************************************)

\* The input event: scheduleNotesSave.
Type(b, t) ==
    /\ b \in open
    /\ t # text[b]
    /\ edits[b] < MaxEdits[b]
    /\ edits' = [edits EXCEPT ![b] = @ + 1]
    /\ text' = [text EXCEPT ![b] = t]
    /\ timer' = timer \cup {b}
    /\ UNCHANGED <<server, open, saved, list, puts>>

\* The places where page b may put its next save.
FreeSlots(b) ==
    {s \in Slots : puts[b][s] = NoPut /\ Cardinality({r \in Slots : puts[b][r] # NoPut}) < MaxSaves[b]}

\* flushNotesSave: disarm the timer, save what differs from the last saved value.
Flush(b) ==
    /\ timer' = timer \ {b}
    /\ \/ /\ text[b] = saved[b]
          /\ UNCHANGED puts
       \/ /\ text[b] # saved[b]
          /\ \E s \in FreeSlots(b) :
                puts' = [puts EXCEPT ![b][s] =
                            [text |-> text[b], state |-> "sent", mine |-> TRUE]]

TimerFires(b) ==
    /\ b \in timer
    /\ Flush(b)
    /\ UNCHANGED <<server, open, text, saved, list, edits>>

\* The textarea loses the focus or the notes are folded.
Blur(b) ==
    /\ b \in open
    /\ Flush(b)
    /\ UNCHANGED <<server, open, text, saved, list, edits>>

\* update_workspace_notes.
PutStored(b) ==
    \E s \in Slots :
        /\ puts[b][s].state = "sent"
        /\ puts' = [puts EXCEPT ![b][s].state = "stored"]
        /\ notes' = puts[b][s].text
        /\ held' = held \cup {puts[b][s].text}
        /\ UNCHANGED <<entry, list, edits>>

\* The request or its answer is lost.
PutLost(b) ==
    \E s \in Slots :
        /\ puts[b][s].state \in {"sent", "stored"}
        /\ puts' = [puts EXCEPT ![b][s].state = "failed"]
        /\ UNCHANGED <<server, entry, list, edits>>

\* Mutants: the value counts as saved although the save failed; a failed save is
\* not tried again; the next page takes the promise over.
SavedAnyway(p) == p.state \in {"stored", "failed"}
NotRetried(b) == timer
TakenOver(p) == TRUE

\* res.ok
Succeeded(p) == p.state = "stored"

\* scheduleNotesSave after an error
Retried(b) == timer \cup {b}

\* A page that is gone takes its promises with it.
PageThere(p) == p.mine

\* The promise settles.
PutReturns(b) ==
    \E s \in Slots :
        LET p == puts[b][s] IN
        /\ p.state \in {"stored", "failed"}
        /\ puts' = [puts EXCEPT ![b][s] = NoPut]
        /\ IF ~PageThere(p) THEN UNCHANGED <<saved, cached, timer>>
           ELSE IF Succeeded(p)
           THEN /\ saved' = [saved EXCEPT ![b] = p.text]
                /\ cached' = [cached EXCEPT ![b] = IF @ = Absent THEN @ ELSE p.text]
                /\ UNCHANGED timer
           ELSE /\ timer' = Retried(b)
                /\ UNCHANGED <<saved, cached>>
        /\ UNCHANGED <<server, open, text, gen, shown, gets, edits>>

Orphaned(p) == IF p.mine THEN [p EXCEPT !.mine = FALSE] ELSE p

\* The page is closed or loaded again: beforeunload flushes, with keepalive.
Reload(b) ==
    /\ b \in open \cap Reloaders
    /\ \/ /\ text[b] = saved[b]
          /\ puts' = [puts EXCEPT ![b] = [s \in Slots |-> Orphaned(@[s])]]
       \/ /\ text[b] # saved[b]
          /\ \E s \in FreeSlots(b) :
                puts' = [puts EXCEPT ![b] =
                     [[r \in Slots |-> Orphaned(@[r])] EXCEPT ![s] =
                         [text |-> text[b], state |-> "sent", mine |-> FALSE]]]
    /\ open' = open \ {b}
    /\ timer' = timer \ {b}
    /\ cached' = [cached EXCEPT ![b] = Absent]
    /\ gen' = [gen EXCEPT ![b] = 0]
    /\ shown' = [shown EXCEPT ![b] = 0]
    /\ gets' = [gets EXCEPT ![b] = {}]
    /\ UNCHANGED <<server, text, saved, edits>>

Next ==
    \E b \in Browsers :
        \/ Fetch(b) \/ GetAnswered(b) \/ GetReturns(b) \/ Render(b)
        \/ (\E t \in Texts : Type(b, t))
        \/ TimerFires(b) \/ Blur(b)
        \/ PutStored(b) \/ PutLost(b) \/ PutReturns(b)
        \/ Reload(b)

\* Timers fire and promises settle; a save that is tried again and again succeeds.
Fairness ==
    \A b \in Browsers :
        /\ WF_vars(TimerFires(b))
        /\ WF_vars(PutReturns(b))
        /\ SF_vars(PutStored(b))

Spec == Init /\ [][Next]_vars /\ Fairness

-----------------------------------------------------------------------------
(***************************************************************************)
(* Properties.                                                             *)
(***************************************************************************)

\* What a page believes saved the database has really held, whatever was lost or
\* overtaken on the way.
SavedWasStored == \A b \in open : saved[b] \in held

Sent(b) == {puts[b][s].text : s \in {r \in Slots : puts[b][r].state = "sent"}}

\* A text leaves a page - replaced by a refresh, or with the page - only after the
\* database has held it or in a save that is under way: the reason for
\* lastSavedValue and for the flush in beforeunload.
NothingTypedVanishes ==
    [][\A b \in Browsers :
          b \in open /\ (b \notin open' \/ (text'[b] # text[b] /\ edits' = edits))
              => text[b] \in held \cup Sent(b)']_vars

\* The list on display never goes back to an older one, in whatever order answers
\* arrive (_workspaceFetchGeneration).
ListNeverGoesBack ==
    [][\A b \in Browsers : shown'[b] >= shown[b] \/ gen'[b] = 0]_vars

\* A user who pauses typing finds the text in the database: a save that fails is
\* tried again until it succeeds, unless the page goes away.
TypingReachesServer ==
    \A b \in Browsers : b \in timer ~> (b \notin open \/ text[b] \in held)

-----------------------------------------------------------------------------
(***************************************************************************)
(* What a test says, and the code does not do.                             *)
(***************************************************************************)

\* "Typing in notes textarea persists to the DB after the debounce delay": typing
\* that is not saved has a save under way or a timer for one.
UnsavedHasSave ==
    \A b \in open :
        text[b] # saved[b] =>
            b \in timer \/ \E s \in Slots : puts[b][s] # NoPut /\ puts[b][s].mine
=============================================================================
