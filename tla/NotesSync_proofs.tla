-------------------------- MODULE NotesSync_proofs --------------------------
(***************************************************************************)
(* What NotesSync promises for any number of pages, texts and requests     *)
(* under way.                                                              *)
(***************************************************************************)
EXTENDS NotesSync, TLAPS

\* Whatever a page may take for the saved text comes from the database.
FromDatabase ==
    /\ notes \in held
    /\ \A b \in Browsers :
          /\ cached[b] \in held \cup {Absent}
          /\ \A r \in gets[b] : r.notes \in held \cup {Pending, Absent}
          /\ \A s \in Slots : puts[b][s].state = "stored" => puts[b][s].text \in held

\* The promise of a save is heard only by a page that has the entry.
Heard == \A b \in Browsers : \A s \in Slots : puts[b][s].mine => b \in open

\* No list is newer than the newest fetch.
NoneNewer == \A b \in Browsers : shown[b] <= gen[b]

Inv == TypeOK /\ FromDatabase /\ SavedWasStored /\ Heard /\ NoneNewer

-----------------------------------------------------------------------------

LEMMA InitInv == Init => Inv
  BY NotesAssumption
     DEF Init, Inv, TypeOK, FromDatabase, SavedWasStored, Heard, NoneNewer, NoPut

\* Refreshing an entry from a text of the database keeps what is known of entries.
LEMMA SyncKeeps ==
    ASSUME TypeOK, SavedWasStored, NEW b \in Browsers, NEW t \in Texts \cap held, SyncNotes(b, t)
    PROVE  /\ text' \in [Browsers -> Texts]
           /\ saved' \in [Browsers -> Texts]
           /\ \A c \in open : saved'[c] \in held
  BY DEF SyncNotes, TypeOK, SavedWasStored

LEMMA FetchKeeps ==
    ASSUME Inv, NEW b \in Browsers, Fetch(b) \/ GetAnswered(b)
    PROVE  Inv'
<1> USE DEF Inv
<1>1. CASE Fetch(b)
  <2>1. [g |-> gen[b] + 1, notes |-> Pending] \in Get
    BY DEF Get, TypeOK
  <2>2. TypeOK'
    BY <1>1, <2>1 DEF Fetch, server, entry, TypeOK
  <2>3. FromDatabase'
    BY <1>1 DEF Fetch, server, entry, TypeOK, FromDatabase
  <2>4. SavedWasStored' /\ Heard' /\ NoneNewer'
    BY <1>1 DEF Fetch, server, entry, TypeOK, SavedWasStored, Heard, NoneNewer
  <2> QED
    BY <2>2, <2>3, <2>4
<1>2. CASE GetAnswered(b)
  <2>1. PICK r \in gets[b], answer \in {notes, Absent} :
             /\ gets' = [gets EXCEPT ![b] = (@ \ {r}) \cup {[r EXCEPT !.notes = answer]}]
             /\ UNCHANGED <<server, entry, cached, gen, shown, puts, edits>>
    BY <1>2 DEF GetAnswered
  <2>2. r \in Get /\ [r EXCEPT !.notes = answer] \in Get
    BY DEF Get, TypeOK
  <2>3. [r EXCEPT !.notes = answer].notes = answer
    BY <2>2 DEF Get
  <2>4. TypeOK'
    BY <2>1, <2>2 DEF server, entry, TypeOK
  <2>5. FromDatabase'
    BY <2>1, <2>3 DEF server, entry, TypeOK, FromDatabase
  <2>6. SavedWasStored' /\ Heard' /\ NoneNewer'
    BY <2>1 DEF server, entry, SavedWasStored, Heard, NoneNewer
  <2> QED
    BY <2>4, <2>5, <2>6
<1> QED
  BY <1>1, <1>2

LEMMA GetReturnsKeeps ==
    ASSUME Inv, NEW b \in Browsers, GetReturns(b)
    PROVE  Inv'
<1> USE DEF Inv
<1>1. PICK r \in gets[b] :
        /\ r.notes # Pending
        /\ gets' = [gets EXCEPT ![b] = @ \ {r}]
        /\ IF NewestGeneration(b, r.g)
           THEN /\ cached' = [cached EXCEPT ![b] = r.notes]
                /\ shown' = [shown EXCEPT ![b] = r.g]
                /\ IF r.notes = Absent THEN UNCHANGED <<text, saved>> ELSE SyncNotes(b, r.notes)
           ELSE UNCHANGED <<cached, shown, text, saved>>
        /\ UNCHANGED <<server, open, timer, gen, puts, edits>>
  BY DEF GetReturns
<1>2. r.g \in Nat /\ r.notes \in (Texts \cap held) \cup {Absent}
  BY <1>1 DEF TypeOK, Get, FromDatabase
<1>3. /\ text' \in [Browsers -> Texts]
      /\ saved' \in [Browsers -> Texts]
      /\ \A c \in open : saved'[c] \in held
  <2>1. CASE UNCHANGED <<text, saved>>
    BY <2>1 DEF TypeOK, SavedWasStored
  <2>2. CASE r.notes # Absent /\ SyncNotes(b, r.notes)
    BY <1>2, <2>2, SyncKeeps
  <2> QED
    BY <1>1, <2>1, <2>2
<1>4. TypeOK'
  BY <1>1, <1>2, <1>3 DEF TypeOK, server
<1>5. FromDatabase'
  BY <1>1, <1>2 DEF TypeOK, FromDatabase, server
<1>6. SavedWasStored' /\ Heard'
  BY <1>1, <1>3 DEF SavedWasStored, Heard, server
<1>7. NoneNewer'
  <2>1. gen' = gen /\ (UNCHANGED shown \/ shown' = [shown EXCEPT ![b] = gen[b]])
    BY <1>1 DEF NewestGeneration
  <2>2. gen \in [Browsers -> Nat] /\ shown \in [Browsers -> Nat]
    BY DEF TypeOK
  <2> QED
    BY <2>1, <2>2 DEF NoneNewer
<1> QED
  BY <1>4, <1>5, <1>6, <1>7

LEMMA RenderKeeps ==
    ASSUME Inv, NEW b \in Browsers, Render(b)
    PROVE  Inv'
<1> USE DEF Inv, Render, server, list
<1>1. cached[b] \in Texts \cap held
  BY DEF TypeOK, FromDatabase
<1>2. /\ text' \in [Browsers -> Texts]
      /\ saved' \in [Browsers -> Texts]
      /\ \A c \in open' : saved'[c] \in held
  <2>1. CASE b \in open
    BY <1>1, <2>1, SyncKeeps
  <2>2. CASE b \notin open
    BY <1>1, <2>2 DEF TypeOK, SavedWasStored
  <2> QED
    BY <2>1, <2>2
<1>3. TypeOK'
  BY <1>2 DEF TypeOK
<1>4. FromDatabase' /\ SavedWasStored' /\ Heard' /\ NoneNewer'
  BY <1>2 DEF FromDatabase, SavedWasStored, Heard, NoneNewer
<1> QED
  BY <1>3, <1>4

LEMMA TypeKeeps ==
    ASSUME Inv, NEW b \in Browsers, NEW t \in Texts, Type(b, t)
    PROVE  Inv'
  BY DEF Inv, Type, server, list, TypeOK, FromDatabase, SavedWasStored, Heard, NoneNewer

LEMMA FlushKeeps ==
    ASSUME Inv, NEW b \in Browsers, TimerFires(b) \/ Blur(b)
    PROVE  Inv'
<1> USE DEF Inv
<1>1. b \in open /\ Flush(b) /\ UNCHANGED <<server, open, text, saved, list, edits>>
  BY DEF TimerFires, Blur, TypeOK
<1>2. CASE UNCHANGED puts
  BY <1>1, <1>2 DEF Flush, server, list, TypeOK, FromDatabase, SavedWasStored, Heard, NoneNewer
<1>3. ASSUME NEW s \in Slots,
             puts' = [puts EXCEPT ![b][s] = [text |-> text[b], state |-> "sent", mine |-> TRUE]]
      PROVE  Inv'
  <2>1. [text |-> text[b], state |-> "sent", mine |-> TRUE] \in Put
    BY DEF Put, TypeOK
  <2>2. /\ puts' \in [Browsers -> [Slots -> Put \cup {NoPut}]]
        /\ \A c \in Browsers, q \in Slots :
              puts'[c][q] = IF c = b /\ q = s
                            THEN [text |-> text[b], state |-> "sent", mine |-> TRUE]
                            ELSE puts[c][q]
    BY <1>3, <2>1 DEF TypeOK
  <2>3. TypeOK'
    BY <1>1, <2>2 DEF Flush, server, list, TypeOK
  <2>4. FromDatabase' /\ SavedWasStored' /\ Heard' /\ NoneNewer'
    BY <1>1, <2>2 DEF server, list, FromDatabase, SavedWasStored, Heard, NoneNewer
  <2> QED
    BY <2>3, <2>4
<1> QED
  BY <1>1, <1>2, <1>3 DEF Flush, FreeSlots

LEMMA PutAnswerKeeps ==
    ASSUME Inv, NEW b \in Browsers, PutStored(b) \/ PutLost(b)
    PROVE  Inv'
<1> USE DEF Inv
<1>1. PICK s \in Slots, state \in {"stored", "failed"} :
        /\ puts[b][s].state \in {"sent", "stored"}
        /\ puts' = [puts EXCEPT ![b][s].state = state]
        /\ \/ /\ state = "stored"
              /\ notes' = puts[b][s].text
              /\ held' = held \cup {puts[b][s].text}
           \/ state = "failed" /\ UNCHANGED server
        /\ UNCHANGED <<entry, list, edits>>
  BY DEF PutStored, PutLost
<1>2. puts[b][s] \in Put
  BY <1>1 DEF TypeOK, Put, NoPut
<1>3. [puts[b][s] EXCEPT !.state = state] \in Put
  BY <1>2 DEF Put
<1>4. /\ puts' \in [Browsers -> [Slots -> Put \cup {NoPut}]]
      /\ \A c \in Browsers, q \in Slots :
            puts'[c][q] = IF c = b /\ q = s THEN [puts[b][s] EXCEPT !.state = state] ELSE puts[c][q]
  BY <1>1, <1>3 DEF TypeOK
<1>5. /\ [puts[b][s] EXCEPT !.state = state].state = state
      /\ [puts[b][s] EXCEPT !.state = state].text = puts[b][s].text
      /\ [puts[b][s] EXCEPT !.state = state].mine = puts[b][s].mine
      /\ puts[b][s].text \in Texts
  BY <1>2 DEF Put
<1>6. TypeOK'
  BY <1>1, <1>4, <1>5 DEF TypeOK, server, entry, list
<1>7. FromDatabase'
  BY <1>1, <1>4, <1>5 DEF FromDatabase, server, list
<1>8. SavedWasStored' /\ Heard' /\ NoneNewer'
  BY <1>1, <1>4, <1>5 DEF SavedWasStored, Heard, NoneNewer, server, entry, list
<1> QED
  BY <1>6, <1>7, <1>8

LEMMA PutReturnsKeeps ==
    ASSUME Inv, NEW b \in Browsers, PutReturns(b)
    PROVE  Inv'
<1> USE DEF Inv
<1>1. PICK s \in Slots :
        /\ puts[b][s].state \in {"stored", "failed"}
        /\ puts' = [puts EXCEPT ![b][s] = NoPut]
        /\ IF ~PageThere(puts[b][s]) THEN UNCHANGED <<saved, cached, timer>>
           ELSE IF Succeeded(puts[b][s])
           THEN /\ saved' = [saved EXCEPT ![b] = puts[b][s].text]
                /\ cached' = [cached EXCEPT ![b] = IF @ = Absent THEN @ ELSE puts[b][s].text]
                /\ UNCHANGED timer
           ELSE /\ timer' = Retried(b)
                /\ UNCHANGED <<saved, cached>>
        /\ UNCHANGED <<server, open, text, gen, shown, gets, edits>>
  BY DEF PutReturns
<1>2. puts[b][s] \in Put /\ puts[b][s].text \in Texts
  BY <1>1 DEF TypeOK, Put, NoPut
<1>3. /\ puts' \in [Browsers -> [Slots -> Put \cup {NoPut}]]
      /\ \A c \in Browsers, q \in Slots :
            puts'[c][q] = IF c = b /\ q = s THEN NoPut ELSE puts[c][q]
  BY <1>1 DEF TypeOK
<1>4. timer' \subseteq open
  BY <1>1 DEF TypeOK, PageThere, Retried, Heard
<1>5. \/ UNCHANGED <<saved, cached>>
      \/ /\ saved' = [saved EXCEPT ![b] = puts[b][s].text]
         /\ cached' = [cached EXCEPT ![b] = IF @ = Absent THEN @ ELSE puts[b][s].text]
         /\ puts[b][s].text \in held
  BY <1>1 DEF Succeeded, FromDatabase
<1>6. TypeOK'
  <2>1. saved' \in [Browsers -> Texts] /\ cached' \in [Browsers -> Texts \cup {Absent}]
    <3>1. saved \in [Browsers -> Texts] /\ cached \in [Browsers -> Texts \cup {Absent}]
      BY DEF TypeOK
    <3> QED
      BY <1>2, <1>5, <3>1
  <2> QED
    BY <1>1, <1>3, <1>4, <2>1 DEF TypeOK, server
<1>7. NoPut.mine = FALSE /\ NoPut.state # "stored"
  BY DEF NoPut
<1>8. FromDatabase'
  BY <1>1, <1>3, <1>5, <1>7 DEF FromDatabase, TypeOK, server
<1>9. SavedWasStored'
  <2>1. UNCHANGED <<open, held>>
    BY <1>1 DEF server
  <2>2. saved \in [Browsers -> Texts]
    BY DEF TypeOK
  <2>3. ASSUME NEW c \in Browsers, saved[c] \in held
        PROVE  saved'[c] \in held
    BY <1>5, <2>2, <2>3
  <2> QED
    BY <2>1, <2>3 DEF SavedWasStored, TypeOK
<1>10. Heard'
  BY <1>1, <1>3, <1>7 DEF Heard
<1>11. NoneNewer'
  BY <1>1 DEF NoneNewer
<1> QED
  BY <1>6, <1>8, <1>9, <1>10, <1>11

LEMMA ReloadKeeps ==
    ASSUME Inv, NEW b \in Browsers, Reload(b)
    PROVE  Inv'
<1> USE DEF Inv
<1>1. /\ puts' \in [Browsers -> [Slots -> Put \cup {NoPut}]]
      /\ \A q \in Slots : ~puts'[b][q].mine
      /\ \A q \in Slots : puts'[b][q].state = "stored" =>
            puts[b][q].state = "stored" /\ puts'[b][q].text = puts[b][q].text
      /\ \A c \in Browsers \ {b} : puts'[c] = puts[c]
  <2> DEFINE Last == [text |-> text[b], state |-> "sent", mine |-> FALSE]
  <2>1. \A q \in Slots :
           /\ Orphaned(puts[b][q]) \in Put \cup {NoPut}
           /\ ~Orphaned(puts[b][q]).mine
           /\ Orphaned(puts[b][q]).state = puts[b][q].state
           /\ Orphaned(puts[b][q]).text = puts[b][q].text
    <3>1. ASSUME NEW p \in Put
          PROVE  Orphaned(p) \in Put /\ ~Orphaned(p).mine /\ Orphaned(p).state = p.state /\ Orphaned(p).text = p.text
      BY DEF Put, Orphaned
    <3>2. Orphaned(NoPut) = NoPut /\ ~NoPut.mine
      BY DEF NoPut, Orphaned
    <3>3. \A q \in Slots : puts[b][q] \in Put \cup {NoPut}
      BY DEF TypeOK
    <3> QED
      BY <3>1, <3>2, <3>3
  <2>2. Last \in Put /\ ~Last.mine /\ Last.state # "stored"
    BY DEF TypeOK, Put
  <2>3. ASSUME puts' = [puts EXCEPT ![b] = [q \in Slots |-> Orphaned(@[q])]]
        PROVE  puts' \in [Browsers -> [Slots -> Put \cup {NoPut}]]
    BY <2>1, <2>3 DEF TypeOK
  <2>4. ASSUME NEW s \in Slots,
               puts' = [puts EXCEPT ![b] = [[q \in Slots |-> Orphaned(@[q])] EXCEPT ![s] = Last]]
        PROVE  \A q \in Slots : puts'[b][q] = IF q = s THEN Last ELSE Orphaned(puts[b][q])
    BY <2>4 DEF TypeOK
  <2>5. ASSUME NEW s \in Slots,
               puts' = [puts EXCEPT ![b] = [[q \in Slots |-> Orphaned(@[q])] EXCEPT ![s] = Last]]
        PROVE  /\ puts' \in [Browsers -> [Slots -> Put \cup {NoPut}]]
               /\ \A c \in Browsers \ {b} : puts'[c] = puts[c]
    BY <2>1, <2>2, <2>5 DEF TypeOK
  <2>6. \/ puts' = [puts EXCEPT ![b] = [q \in Slots |-> Orphaned(@[q])]]
        \/ \E s \in Slots :
              puts' = [puts EXCEPT ![b] = [[q \in Slots |-> Orphaned(@[q])] EXCEPT ![s] = Last]]
    BY DEF Reload, FreeSlots
  <2>7. CASE puts' = [puts EXCEPT ![b] = [q \in Slots |-> Orphaned(@[q])]]
    <3>1. \A q \in Slots : puts'[b][q] = Orphaned(puts[b][q])
      BY <2>7 DEF TypeOK
    <3>2. \A c \in Browsers \ {b} : puts'[c] = puts[c]
      BY <2>7 DEF TypeOK
    <3> QED
      BY <2>1, <2>3, <2>7, <3>1, <3>2
  <2>8. ASSUME NEW s \in Slots,
               puts' = [puts EXCEPT ![b] = [[q \in Slots |-> Orphaned(@[q])] EXCEPT ![s] = Last]]
        PROVE  /\ puts' \in [Browsers -> [Slots -> Put \cup {NoPut}]]
               /\ \A q \in Slots : ~puts'[b][q].mine
               /\ \A q \in Slots : puts'[b][q].state = "stored" =>
                     puts[b][q].state = "stored" /\ puts'[b][q].text = puts[b][q].text
               /\ \A c \in Browsers \ {b} : puts'[c] = puts[c]
    <3>1. \A q \in Slots : puts'[b][q] = IF q = s THEN Last ELSE Orphaned(puts[b][q])
      BY <2>4, <2>8
    <3>2. /\ puts' \in [Browsers -> [Slots -> Put \cup {NoPut}]]
          /\ \A c \in Browsers \ {b} : puts'[c] = puts[c]
      BY <2>5, <2>8
    <3> HIDE DEF Last
    <3> QED
      BY <2>1, <2>2, <3>1, <3>2
  <2> QED
    BY <2>6, <2>7, <2>8
<1>2. /\ open' = open \ {b} /\ timer' = timer \ {b}
      /\ cached' = [cached EXCEPT ![b] = Absent]
      /\ gen' = [gen EXCEPT ![b] = 0] /\ shown' = [shown EXCEPT ![b] = 0]
      /\ gets' = [gets EXCEPT ![b] = {}]
      /\ UNCHANGED <<server, text, saved, edits>>
  BY DEF Reload
<1>3. TypeOK'
  BY <1>1, <1>2 DEF TypeOK, server
<1>4. FromDatabase'
  BY <1>1, <1>2 DEF FromDatabase, TypeOK, server
<1>5. SavedWasStored' /\ Heard' /\ NoneNewer'
  BY <1>1, <1>2 DEF SavedWasStored, Heard, NoneNewer, TypeOK, server
<1> QED
  BY <1>3, <1>4, <1>5

-----------------------------------------------------------------------------
(***************************************************************************)
(* The theorems.                                                           *)
(***************************************************************************)

LEMMA StepInv == Inv /\ [Next]_vars => Inv'
<1> SUFFICES ASSUME Inv, [Next]_vars PROVE Inv'
  OBVIOUS
<1>1. CASE UNCHANGED vars
  BY <1>1 DEF vars, server, entry, list, Inv, TypeOK, FromDatabase, SavedWasStored, Heard, NoneNewer
<1>2. CASE Next
  BY <1>2, FetchKeeps, GetReturnsKeeps, RenderKeeps, TypeKeeps, FlushKeeps, PutAnswerKeeps,
     PutReturnsKeeps, ReloadKeeps DEF Next
<1> QED
  BY <1>1, <1>2

LEMMA Invariance == Spec => []Inv
  BY InitInv, StepInv, PTL DEF Spec

\* Every variable keeps its type, for any number of pages, texts and requests.
THEOREM TypeCorrect == Spec => []TypeOK
  BY Invariance, PTL DEF Inv

\* What a page takes for saved (lastSavedValue) has been in the database, whatever
\* requests were lost, overtaken or answered late.
THEOREM SavedIsStored == Spec => []SavedWasStored
  BY Invariance, PTL DEF Inv

\* A refresh (syncNotesFromServer), a new entry and a page that goes away replace a
\* text only when the database has held it or a save of it is under way.
THEOREM TypingSurvives == Spec => NothingTypedVanishes
<1> DEFINE Kept(b) ==
      b \in open /\ (b \notin open' \/ (text'[b] # text[b] /\ edits' = edits))
          => text[b] \in held \cup Sent(b)'
<1>1. ASSUME Inv, NEW b \in Browsers, b \in open, [Next]_vars,
             b \notin open' \/ (text'[b] # text[b] /\ edits' = edits)
      PROVE  text[b] \in held \cup Sent(b)'
  <2>1. saved[b] \in held
    BY <1>1 DEF Inv, SavedWasStored
  <2>2. ASSUME NEW t, SyncNotes(b, t), text'[b] # text[b] PROVE text[b] = saved[b]
    BY <2>2 DEF SyncNotes, Refreshed
  <2>3. ASSUME NEW c \in Browsers, NEW t, SyncNotes(c, t), text'[b] # text[b] PROVE c = b
    BY <1>1, <2>3 DEF SyncNotes, Inv, TypeOK
  <2>4. ASSUME NEW c \in Browsers, GetReturns(c) PROVE text[b] \in held
    BY <1>1, <2>1, <2>2, <2>3, <2>4 DEF GetReturns
  <2>5. ASSUME NEW c \in Browsers, Render(c) PROVE text[b] \in held
    <3>1. open \subseteq open' /\ text'[b] # text[b]
      BY <1>1, <2>5 DEF Render
    <3>2. CASE c \in open
      BY <2>1, <2>2, <2>3, <2>5, <3>1, <3>2 DEF Render
    <3>3. CASE c \notin open
      BY <1>1, <2>5, <3>1, <3>3 DEF Render, Inv, TypeOK
    <3> QED
      BY <3>2, <3>3
  <2>6. ASSUME NEW c \in Browsers, Reload(c) PROVE text[b] \in held \cup Sent(b)'
    <3>1. c = b
      BY <1>1, <2>6 DEF Reload
    <3>2. CASE text[b] = saved[b]
      BY <2>1, <3>2
    <3>3. CASE text[b] # saved[b]
      <4>1. PICK s \in Slots : puts' = [puts EXCEPT ![b] =
                     [[r \in Slots |-> Orphaned(@[r])] EXCEPT ![s] =
                         [text |-> text[b], state |-> "sent", mine |-> FALSE]]]
        BY <2>6, <3>1, <3>3 DEF Reload, FreeSlots
      <4>2. puts'[b][s] = [text |-> text[b], state |-> "sent", mine |-> FALSE]
        BY <1>1, <4>1 DEF Inv, TypeOK
      <4> QED
        BY <4>2 DEF Sent
    <3> QED
      BY <3>2, <3>3
  <2>7. ASSUME NEW c \in Browsers,
               \/ Fetch(c) \/ GetAnswered(c) \/ (\E t \in Texts : Type(c, t)) \/ TimerFires(c)
               \/ Blur(c) \/ PutStored(c) \/ PutLost(c) \/ PutReturns(c)
        PROVE  FALSE
    <3>1. open' = open /\ (edits' # edits \/ text' = text)
      <4>1. CASE \E t \in Texts : Type(c, t)
        BY <1>1, <4>1 DEF Type, Inv, TypeOK
      <4>2. CASE Fetch(c) \/ GetAnswered(c) \/ TimerFires(c) \/ Blur(c)
        BY <4>2 DEF Fetch, GetAnswered, TimerFires, Blur, entry
      <4>3. CASE PutStored(c) \/ PutLost(c) \/ PutReturns(c)
        BY <4>3 DEF PutStored, PutLost, PutReturns, entry
      <4> QED
        BY <2>7, <4>1, <4>2, <4>3
    <3> QED
      BY <1>1, <3>1
  <2>8. ~UNCHANGED vars
    BY <1>1 DEF vars, entry
  <2> QED
    BY <1>1, <2>4, <2>5, <2>6, <2>7, <2>8 DEF Next
<1>2. Inv /\ [Next]_vars => [\A b \in Browsers : Kept(b)]_vars
  BY <1>1
<1> QED
  BY <1>2, Invariance, PTL DEF Spec, NothingTypedVanishes

\* A page never goes back to an older list (the generation fetchWorkspaces compares).
THEOREM ListsAdvance == Spec => ListNeverGoesBack
<1>1. ASSUME Inv, NEW b \in Browsers, [Next]_vars
      PROVE  shown'[b] >= shown[b] \/ gen'[b] = 0
  <2>1. gen \in [Browsers -> Nat] /\ shown \in [Browsers -> Nat] /\ shown[b] <= gen[b]
    BY <1>1 DEF Inv, TypeOK, NoneNewer
  <2>2. CASE UNCHANGED shown
    BY <2>1, <2>2
  <2>3. ASSUME NEW c \in Browsers, GetReturns(c) PROVE shown'[b] >= shown[b]
    <3>1. UNCHANGED shown \/ shown' = [shown EXCEPT ![c] = gen[c]]
      BY <2>3 DEF GetReturns, NewestGeneration
    <3> QED
      BY <1>1, <2>1, <3>1
  <2>4. ASSUME NEW c \in Browsers, Reload(c) PROVE UNCHANGED shown \/ gen'[b] = 0 \/ shown'[b] >= shown[b]
    BY <2>1, <2>4 DEF Reload
  <2>5. ASSUME NEW c \in Browsers,
               \/ Fetch(c) \/ GetAnswered(c) \/ Render(c) \/ (\E t \in Texts : Type(c, t))
               \/ TimerFires(c) \/ Blur(c) \/ PutStored(c) \/ PutLost(c) \/ PutReturns(c)
        PROVE  UNCHANGED shown
    BY <2>5 DEF Fetch, GetAnswered, Render, Type, TimerFires, Blur, PutStored, PutLost, PutReturns, list
  <2>6. UNCHANGED vars => UNCHANGED shown
    BY DEF vars, list
  <2> QED
    BY <1>1, <2>2, <2>3, <2>4, <2>5, <2>6 DEF Next
<1>2. Inv /\ [Next]_vars => [\A b \in Browsers : shown'[b] >= shown[b] \/ gen'[b] = 0]_vars
  BY <1>1
<1> QED
  BY <1>2, Invariance, PTL DEF Spec, ListNeverGoesBack
=============================================================================
