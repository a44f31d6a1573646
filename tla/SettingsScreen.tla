--------------------------- MODULE SettingsScreen ---------------------------
(* The Settings screen and the commands get_settings and set_settings.       *)
(*                                                                           *)
(* A save is not one step: set_settings writes one key per statement, none   *)
(* in a transaction, and reads everything back for its answer.  It may fail  *)
(* between any two statements, and neither the form nor the Save button is   *)
(* locked while a command is in flight.                                      *)
EXTENDS Startup, Sequences, FiniteSets

CONSTANTS
    Entries,        \* tracks in alphabetical order, as a BTreeMap has them
    Known,          \* those that are TRACKS; others may be in the store
    Texts,          \* what a key may hold, trimmed and not blank
    Calls           \* command slots

ASSUME EntriesAssumption ==
    LET names == {Entries[i] : i \in DOMAIN Entries} IN
    Entries \in Seq(names) /\ Known \subseteq names
ASSUME SettingsCallsAssumption == IsFiniteSet(Calls)
ASSUME TextsAssumption == Texts \intersect {"", "none"} = {}

VARIABLES
    stored,         \* table app_settings
    mounted,        \* whether the Settings screen is the one shown
    form,           \* its state: vault path and position overrides
    calls,          \* the command each slot is running
    typed,          \* history: the fields edited since the form was last set
    crossed         \* history: commands were in flight together since the
                    \* screen was last opened with none in flight

settingsVars ==
    <<pool, schema, stored, mounted, form, calls, typed, crossed>>

None == "none"      \* no row, no entry in the form
Blank == ""         \* an input with nothing, or nothing but spaces, in it
Vault == "vault_path"
SettingsTable == 1  \* app_settings comes with the first migration

(* The keys in the order a save writes them.                                 *)
Order == <<Vault>> \o Entries
Keys == {Order[i] : i \in DOMAIN Order}
Fields == {Vault} \union Known
EmptyForm == [k \in Keys |-> IF k = Vault THEN Blank ELSE None]
NoRows == [k \in Keys |-> None]

Idle == [op |-> "none", pc |-> "idle", form |-> EmptyForm, done |-> 0,
         reply |-> "none", answer |-> NoRows, heard |-> FALSE,
         typed |-> {}, was |-> NoRows]

-----------------------------------------------------------------------------

(* Mutant: every row is handed out, also of tracks nobody knows. *)
VisibleAll(rows) == rows

(* SettingsService::get keeps the keys this version understands.             *)
Visible(rows) == [k \in Keys |-> IF k \in Fields THEN rows[k] ELSE None]

(* What the screen makes of an answer.                                       *)
FormOf(answer) ==
    [answer EXCEPT ![Vault] = IF @ = None THEN Blank ELSE @]

(* Mutant: a field per track, blank unless there is a position for it. *)
WritesFields(f, k) == IF k = Vault THEN f[k] # Blank ELSE k \in Known

(* A blank vault path is sent as null, which is left alone; positions are    *)
(* the entries the form has.                                                 *)
Writes(f, k) == f[k] # (IF k = Vault THEN Blank ELSE None)

(* Where in Order the keys are that a save has not acknowledged yet.         *)
Pending(call) ==
    {i \in DOMAIN Order : i > call.done /\ Writes(call.form, Order[i])}

(* The row a text leaves: a blank position deletes it.                       *)
RowOf(text) == IF text \in {Blank, None} THEN None ELSE text

SettingsInit ==
    /\ StartupInit
    /\ stored \in [Keys -> Texts \union {None}]
    /\ ~HasTable(SettingsTable) => stored = NoRows
    /\ mounted = FALSE
    /\ form = EmptyForm
    /\ calls = [c \in Calls |-> Idle]
    /\ typed = {}
    /\ crossed = FALSE

InFlight == {c \in Calls : calls[c].pc # "idle"}

Answer(c, reply, answer) ==
    calls' = [calls EXCEPT ![c] =
        [@ EXCEPT !.pc = "replied", !.reply = reply, !.answer = answer]]

Screen == <<mounted, form, typed, crossed>>

-----------------------------------------------------------------------------
(* The screen. *)

Mount(c) ==
    /\ ~mounted
    /\ calls[c].pc = "idle"
    /\ calls' = [calls EXCEPT ![c] =
           [Idle EXCEPT !.op = "load", !.pc = "sent", !.heard = TRUE]]
    /\ mounted' = TRUE
    /\ crossed' = (InFlight # {})
    /\ UNCHANGED <<startupVars, stored, form, typed>>

(* Leaving the screen drops the form; answers still due go unheard.          *)
Unmount ==
    /\ mounted
    /\ mounted' = FALSE
    /\ form' = EmptyForm
    /\ typed' = {}
    /\ calls' = [c \in Calls |-> [calls[c] EXCEPT !.heard = FALSE]]
    /\ UNCHANGED <<startupVars, stored, crossed>>

Type(k, text) ==
    /\ mounted
    /\ form[k] # text
    /\ form' = [form EXCEPT ![k] = text]
    /\ typed' = typed \union {k}
    /\ UNCHANGED <<startupVars, stored, mounted, calls, crossed>>

Save(c) ==
    /\ mounted
    /\ calls[c].pc = "idle"
    /\ calls' = [calls EXCEPT ![c] =
           [Idle EXCEPT !.op = "save", !.pc = "sent", !.form = form,
                        !.heard = TRUE, !.typed = typed, !.was = stored]]
    /\ crossed' = (crossed \/ InFlight # {})
    /\ UNCHANGED <<startupVars, stored, mounted, form, typed>>

-----------------------------------------------------------------------------
(* The commands. *)

(* The handler asks for the pool once, as it is entered.                     *)
Enter(c) ==
    /\ calls[c].pc = "sent"
    /\ IF pool = "managed"
       THEN calls' = [calls EXCEPT ![c].pc =
                IF calls[c].op = "load" THEN "read" ELSE "write"]
       ELSE Answer(c, "error", NoRows)
    /\ UNCHANGED <<startupVars, stored, Screen>>

(* The save has come to the i-th key.                                        *)
Turn(c, i) ==
    /\ calls[c].pc = "write"
    /\ i \in Pending(calls[c])
    /\ \A j \in Pending(calls[c]) : i <= j

(* Mutant: a blank position is skipped instead of deleting its row. *)
PutNothingBlank(c, i) ==
    LET text == calls[c].form[Order[i]] IN
    /\ Turn(c, i)
    /\ stored' = IF text = Blank THEN stored
                                 ELSE [stored EXCEPT ![Order[i]] = text]
    /\ calls' = [calls EXCEPT ![c].done = i]
    /\ UNCHANGED <<startupVars, Screen>>

(* One key, one statement.  Its acknowledgement may be lost.                 *)
Put(c, i) ==
    LET k == Order[i] IN
    /\ Turn(c, i)
    /\ IF HasTable(SettingsTable) /\ k \in Fields
       THEN /\ stored' = [stored EXCEPT ![k] = RowOf(calls[c].form[k])]
            /\ \/ calls' = [calls EXCEPT ![c].done = i]
               \/ Answer(c, "error", NoRows)
       ELSE Answer(c, "error", NoRows) /\ UNCHANGED stored
    /\ UNCHANGED <<startupVars, Screen>>

(* The read of get_settings, and the one set_settings ends with.             *)
Get(c) ==
    /\ \/ calls[c].pc = "read"
       \/ calls[c].pc = "write" /\ Pending(calls[c]) = {}
    /\ IF HasTable(SettingsTable)
       THEN Answer(c, "ok", Visible(stored))
       ELSE Answer(c, "error", NoRows)
    /\ UNCHANGED <<startupVars, stored, Screen>>

(* An await fails with nothing written by it.                                *)
Fail(c) ==
    /\ calls[c].pc \in {"read", "write"}
    /\ Answer(c, "error", NoRows)
    /\ UNCHANGED <<startupVars, stored, Screen>>

(* An answer sets the form, an error leaves it as the user sees it.          *)
Deliver(c) ==
    LET taken == calls[c].heard /\ calls[c].reply = "ok" IN
    /\ calls[c].pc = "replied"
    /\ calls' = [calls EXCEPT ![c] = Idle]
    /\ form' = IF taken THEN FormOf(calls[c].answer) ELSE form
    /\ typed' = IF taken THEN {} ELSE typed
    /\ UNCHANGED <<startupVars, stored, mounted, crossed>>

Crash ==
    /\ Restart
    /\ mounted' = FALSE
    /\ form' = EmptyForm
    /\ calls' = [c \in Calls |-> Idle]
    /\ typed' = {}
    /\ crossed' = FALSE
    /\ UNCHANGED stored

Start ==
    /\ StartupStep
    /\ UNCHANGED <<stored, calls, Screen>>

SettingsNext ==
    \/ \E c \in Calls :
          \/ Mount(c) \/ Save(c)
          \/ Enter(c) \/ Get(c) \/ Fail(c) \/ Deliver(c)
          \/ \E i \in DOMAIN Order : Put(c, i)
    \/ \E k \in Fields, text \in Texts \union {Blank} : Type(k, text)
    \/ Unmount \/ Crash \/ Start

SettingsSpec == SettingsInit /\ [][SettingsNext]_settingsVars

-----------------------------------------------------------------------------
(* Properties. *)

(* The form has a path, if blank, and no entry that has no input of its own. *)
Form == {f \in [Keys -> Texts \union {Blank, None}] :
            f[Vault] # None /\ \A k \in Keys \ Fields : f[k] = None}
Rows == [Keys -> Texts \union {None}]

(* Every row, field and call record has its type.                            *)
SettingsTypeOK ==
    /\ pool \in {"connecting", "migrating", "managed", "offline"}
    /\ schema \in 0..Migrations
    /\ stored \in Rows
    /\ mounted \in BOOLEAN /\ crossed \in BOOLEAN
    /\ form \in Form
    /\ typed \subseteq Fields
    /\ calls \in [Calls ->
          [op : {"none", "load", "save"},
           pc : {"idle", "sent", "read", "write", "replied"},
           form : Form, done : 0..Len(Order),
           reply : {"none", "ok", "error"}, answer : Rows,
           heard : BOOLEAN, typed : SUBSET Fields, was : Rows]]

(* A save changes only what the user edited: positions and the path stay as  *)
(* stored when the form never loaded (the pool was not managed yet, the read *)
(* failed), when an earlier save failed half way and is repeated, and across *)
(* restarts - unless commands crossed (Settings.tsx save, application/       *)
(* settings.rs apply).                                                       *)
OnlyTypedChanges ==
    [][\A k \in Keys :
          stored'[k] # stored[k] =>
             \/ crossed
             \/ \E c \in InFlight : calls[c].op = "save" /\ k \in calls[c].typed
      ]_stored

(* The store after a save has passed the first n keys of the order.          *)
AfterFirst(n, call) ==
    [k \in Keys |->
        IF Writes(call.form, k) /\ \E i \in 1..n : Order[i] = k
        THEN RowOf(call.form[k]) ELSE call.was[k]]

(* Without a transaction a save still never leaves holes: whatever fails, it *)
(* has written a first part of its keys in their order and nothing else, at  *)
(* most one of them unacknowledged; and one answered "saved" has written     *)
(* them all, in a migrated database, and shows the user what is stored.      *)
SavesApplyInOrder ==
    \A c \in InFlight :
        LET call == calls[c] IN
        call.op = "save" /\ ~crossed =>
            /\ \/ stored = AfterFirst(call.done, call)
               \/ \E n \in Pending(call) :
                     /\ \A i \in Pending(call) : n <= i
                     /\ stored = AfterFirst(n, call)
            /\ call.reply = "ok" =>
                  /\ HasTable(SettingsTable)
                  /\ stored = AfterFirst(Len(Order), call)
                  /\ call.answer = Visible(stored)
=============================================================================
