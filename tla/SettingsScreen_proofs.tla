----------------------- MODULE SettingsScreen_proofs -----------------------
(* Proofs about SettingsScreen, for any tracks, any texts, any number of     *)
(* migrations and any number of commands.                                    *)
EXTENDS SettingsScreen, SequenceTheorems, TLAPS

SettingsCall ==
    [op : {"none", "load", "save"},
     pc : {"idle", "sent", "read", "write", "replied"},
     form : Form, done : 0..Len(Order),
     reply : {"none", "ok", "error"}, answer : Rows,
     heard : BOOLEAN, typed : SUBSET Fields, was : Rows]

(* What a form would write and the user did not edit is what is stored.      *)
Faithful(f, edited) ==
    \A k \in Keys : Writes(f, k) /\ k \notin edited => RowOf(f[k]) = stored[k]

(* How far a save has come, and that its answer shows the store.             *)
SaveOK(call) ==
    /\ Faithful(call.form, call.typed)
    /\ mounted => call.typed \subseteq typed
    /\ call.reply # "error" => stored = AfterFirst(call.done, call)
    /\ call.reply = "error" =>
          \/ stored = AfterFirst(call.done, call)
          \/ \E n \in Pending(call) :
                /\ \A i \in Pending(call) : n <= i
                /\ stored = AfterFirst(n, call)
    /\ call.reply = "ok" => Pending(call) = {}

(* Which steps of a command go with which, whatever crosses it.              *)
CallOK(call) ==
    /\ call.heard => mounted
    /\ call.pc = "read" => call.op = "load"
    /\ call.pc = "write" => call.op = "save"
    /\ call.pc \in {"sent", "read", "write"} => call.reply = "none"
    /\ call.pc # "idle" => call.op # "none"
    /\ call.reply = "ok" =>
          HasTable(SettingsTable) /\ \E rows \in Rows : call.answer = Visible(rows)

(* Commands that did not cross: there is one at a time, and screen, command  *)
(* and store differ only in what the user edited.                            *)
Orderly ==
    /\ \A c, d \in InFlight : c = d
    /\ Faithful(form, typed)
    /\ \A c \in InFlight :
          /\ calls[c].op = "save" => SaveOK(calls[c])
          /\ calls[c].reply = "ok" => calls[c].answer = Visible(stored)

(* It is inductive: the types, an unmounted form that is empty, what each    *)
(* save still has to write (CallOK) and, until two commands cross, that form *)
(* and store differ in what was typed and nothing else (Orderly).            *)
SettingsInv ==
    /\ SettingsTypeOK
    /\ ~mounted => form = EmptyForm
    /\ \A c \in Calls : CallOK(calls[c])
    /\ ~crossed => Orderly

-----------------------------------------------------------------------------
(* Small facts. *)

(* The order of the keys is a sequence, headed by the vault path.            *)
LEMMA OrderFacts ==
    /\ Len(Order) \in Nat
    /\ DOMAIN Order = 1..Len(Order)
    /\ Order[1] = Vault /\ 1 \in DOMAIN Order
    /\ Vault \in Keys /\ Fields \subseteq Keys
    /\ \A i \in DOMAIN Order : Order[i] \in Keys
  <1> DEFINE names == {Entries[i] : i \in DOMAIN Entries}
             all == names \union {Vault}
  <1>1. /\ Entries \in Seq(all) /\ <<Vault>> \in Seq(all)
        /\ Order = <<Vault>> \o Entries
    <2>1. Entries \in Seq(names) /\ names \subseteq all
      BY EntriesAssumption
    <2> HIDE DEF names
    <2> QED
      BY <2>1 DEF Order
  <1>2. /\ Order \in Seq(all) /\ Len(Order) = 1 + Len(Entries)
        /\ Order[1] = Vault
        /\ \A i \in 1..Len(Entries) : Order[i + 1] = Entries[i]
    <2> HIDE DEF all
    <2> QED
      BY <1>1
  <1>3. Len(Entries) \in Nat /\ DOMAIN Entries = 1..Len(Entries)
    BY <1>1
  <1>4. /\ Len(Order) \in Nat /\ DOMAIN Order = 1..Len(Order)
        /\ 1 \in DOMAIN Order
    BY <1>2, <1>3
  <1>5. \A i \in DOMAIN Order : Order[i] \in Keys
    BY DEF Keys
  <1>6. Vault \in Keys
    BY <1>2, <1>4, <1>5
  <1>7. ASSUME NEW k \in Known PROVE k \in Keys
    <2>1. PICK i \in DOMAIN Entries : Entries[i] = k
      BY EntriesAssumption
    <2>2. i + 1 \in DOMAIN Order /\ Order[i + 1] = k
      BY <2>1, <1>2, <1>3, <1>4
    <2> QED
      BY <2>2, <1>5
  <1> QED
    BY <1>2, <1>4, <1>5, <1>6, <1>7 DEF Fields

(* The constant records are typed, and an empty form writes nothing.         *)
LEMMA Constants ==
    /\ EmptyForm \in Form /\ NoRows \in Rows /\ Idle \in SettingsCall
    /\ \A k \in Keys : ~Writes(EmptyForm, k)
  <1>1. EmptyForm \in Form
    BY OrderFacts DEF EmptyForm, Form, Fields, Blank, None, Vault
  <1>2. NoRows \in Rows
    BY DEF NoRows, Rows
  <1>3. Idle \in SettingsCall
    BY <1>1, <1>2, OrderFacts DEF Idle, SettingsCall
  <1> QED
    BY <1>1, <1>2, <1>3 DEF Writes, EmptyForm

(* The text of a row is never blank, and an answer makes a form of its rows. *)
LEMMA AnswerMakesForm ==
    ASSUME NEW rows \in Rows
    PROVE  /\ Visible(rows) \in Rows
           /\ FormOf(Visible(rows)) \in Form
           /\ \A k \in Keys : Writes(FormOf(Visible(rows)), k)
                 => RowOf(FormOf(Visible(rows))[k]) = rows[k]
  <1>1. Visible(rows) \in Rows
    BY DEF Visible, Rows
  <1>2. \A k \in Keys : rows[k] \in Texts \union {None}
    BY DEF Rows
  <1> DEFINE f == FormOf(Visible(rows))
  <1>3. f \in [Keys -> Texts \union {Blank, None}]
    BY <1>1, OrderFacts DEF FormOf, Rows
  <1>4. \A k \in Keys :
            f[k] = IF k = Vault THEN IF rows[k] = None THEN Blank ELSE rows[k]
                   ELSE IF k \in Fields THEN rows[k] ELSE None
    BY <1>1, OrderFacts DEF FormOf, Visible, Rows, Fields
  <1>5. f \in Form
    BY <1>2, <1>3, <1>4, OrderFacts, TextsAssumption
       DEF Form, Fields, Blank, None
  <1>6. ASSUME NEW k \in Keys, Writes(f, k) PROVE RowOf(f[k]) = rows[k]
    BY <1>2, <1>4, <1>6, TextsAssumption DEF Writes, RowOf, Blank, None
  <1> QED
    BY <1>1, <1>5, <1>6

(* What a text leaves is a row.                                              *)
LEMMA RowIsTyped ==
    ASSUME NEW f \in Form, NEW k \in Keys
    PROVE  RowOf(f[k]) \in Texts \union {None}
  BY DEF Form, RowOf

(* A save that has nothing pending has passed the whole order.               *)
LEMMA NothingPending ==
    ASSUME NEW call \in SettingsCall, Pending(call) = {}
    PROVE  AfterFirst(call.done, call) = AfterFirst(Len(Order), call)
  <1>1. call.done \in 0..Len(Order)
    BY DEF SettingsCall
  <1>2. ASSUME NEW k \in Keys, Writes(call.form, k),
               NEW i \in 1..Len(Order), Order[i] = k
        PROVE  i <= call.done
    BY <1>1, <1>2, OrderFacts DEF Pending
  <1>3. ASSUME NEW k \in Keys
        PROVE  (Writes(call.form, k) /\ \E i \in 1..call.done : Order[i] = k)
               <=> (Writes(call.form, k) /\ \E i \in 1..Len(Order) : Order[i] = k)
    BY <1>1, <1>2, OrderFacts
  <1> QED
    BY <1>3 DEF AfterFirst

(* Whether a save is heard makes no difference to how far it has come.       *)
LEMMA SameSave ==
    ASSUME NEW a, NEW b, SaveOK(a),
           b.form = a.form, b.done = a.done, b.reply = a.reply,
           b.typed = a.typed, b.was = a.was
    PROVE  SaveOK(b)
  <1>1. /\ \A n : AfterFirst(n, b) = AfterFirst(n, a)
        /\ Pending(b) = Pending(a)
    BY DEF AfterFirst, Pending
  <1> QED
    BY <1>1 DEF SaveOK

(* The statement of the first pending key takes the store one key further.   *)
LEMMA OneKeyFurther ==
    ASSUME NEW call \in SettingsCall, NEW i \in Pending(call),
           \A j \in Pending(call) : i <= j,
           stored = AfterFirst(call.done, call)
    PROVE  [stored EXCEPT ![Order[i]] = RowOf(call.form[Order[i]])]
              = AfterFirst(i, call)
  <1>1. /\ call.done \in 0..Len(Order) /\ i \in 1..Len(Order) /\ i > call.done
        /\ Writes(call.form, Order[i]) /\ Order[i] \in Keys
    BY OrderFacts DEF SettingsCall, Pending
  <1>2. ASSUME NEW j \in 1..i, Writes(call.form, Order[j])
        PROVE  j <= call.done \/ j = i
    BY <1>1, <1>2, OrderFacts DEF Pending
  <1>3. ASSUME NEW k \in Keys
        PROVE  (Writes(call.form, k) /\ \E j \in 1..i : Order[j] = k)
               <=> (\/ k = Order[i]
                    \/ Writes(call.form, k)
                          /\ \E j \in 1..call.done : Order[j] = k)
    BY <1>1, <1>2, OrderFacts
  <1> QED
    BY <1>1, <1>3 DEF AfterFirst

-----------------------------------------------------------------------------
(* The invariant is kept. *)

(* It holds when the application starts ...                                  *)
LEMMA SettingsBegin == SettingsInit => SettingsInv
  <1> SUFFICES ASSUME SettingsInit PROVE SettingsInv
    OBVIOUS
  <1>1. SettingsTypeOK
    BY Constants, MigrationsAssumption
       DEF SettingsInit, StartupInit, SettingsTypeOK, Rows, SettingsCall
  <1>2. \A c \in Calls : CallOK(calls[c]) /\ c \notin InFlight
    BY DEF SettingsInit, CallOK, Idle, InFlight
  <1>3. Orderly
    <2>1. InFlight = {}
      BY <1>2 DEF InFlight
    <2>2. Faithful(form, typed)
      BY Constants DEF SettingsInit, Faithful
    <2> QED
      BY <2>1, <2>2 DEF Orderly
  <1> QED
    BY <1>1, <1>2, <1>3 DEF SettingsInv, SettingsInit

(* One command moves on and nothing else does.                               *)
LEMMA OneCallMoves ==
    ASSUME SettingsInv, NEW c \in Calls, NEW call,
           calls' = [calls EXCEPT ![c] = call], call \in SettingsCall,
           CallOK(call), UNCHANGED <<startupVars, stored, Screen>>,
           calls[c].pc # "idle",
           ~crossed => /\ call.op = "save" => SaveOK(call)
                       /\ call.reply = "ok" => call.answer = Visible(stored)
    PROVE  SettingsInv'
  <1>1. SettingsTypeOK'
    BY DEF SettingsInv, SettingsTypeOK, SettingsCall, startupVars, Screen
  <1>2. \A d \in Calls : calls'[d] = IF d = c THEN call ELSE calls[d]
    BY DEF SettingsInv, SettingsTypeOK
  <1>3. \A d \in Calls : CallOK(calls[d])'
    BY <1>2 DEF SettingsInv, CallOK, Screen, startupVars, HasTable
  <1>4. InFlight' \subseteq InFlight
    BY <1>2 DEF InFlight
  <1>5. ASSUME ~crossed PROVE Orderly'
    <2>1. \A d, e \in InFlight' : d = e
      BY <1>4, <1>5 DEF SettingsInv, Orderly
    <2>2. Faithful(form, typed)'
      BY <1>5 DEF SettingsInv, Orderly, Faithful, Screen
    <2>3. ASSUME NEW d \in InFlight'
          PROVE  /\ calls'[d].op = "save" => SaveOK(calls[d])'
                 /\ calls'[d].reply = "ok" => calls'[d].answer = Visible(stored')
      <3>1. /\ calls'[d].op = "save" => SaveOK(calls'[d])
            /\ calls'[d].reply = "ok" => calls'[d].answer = Visible(stored)
        BY <1>2, <1>4, <1>5, <2>3 DEF SettingsInv, Orderly, InFlight
      <3> QED
        BY <3>1 DEF SaveOK, Faithful, Screen
    <2> QED
      BY <2>1, <2>2, <2>3 DEF Orderly
  <1> QED
    BY <1>1, <1>3, <1>5 DEF SettingsInv, Screen

(* A command fails, or is refused, with nothing written by its last step.    *)
LEMMA SettingsRefused ==
    ASSUME SettingsInv, NEW c \in Calls, calls[c].pc \in {"sent", "read", "write"},
           Answer(c, "error", NoRows), UNCHANGED <<startupVars, stored, Screen>>
    PROVE  SettingsInv'
  <1> DEFINE call == [calls[c] EXCEPT !.pc = "replied", !.reply = "error",
                                      !.answer = NoRows]
  <1>1. calls' = [calls EXCEPT ![c] = call] /\ calls[c] \in SettingsCall
    BY DEF Answer, SettingsInv, SettingsTypeOK, SettingsCall
  <1>2. call \in SettingsCall /\ CallOK(call)
    BY <1>1, Constants DEF SettingsCall, CallOK, SettingsInv
  <1>3. ASSUME ~crossed, call.op = "save" PROVE SaveOK(call)
    <2>1. c \in InFlight /\ SaveOK(calls[c]) /\ calls[c].reply # "error"
      BY <1>1, <1>3 DEF SettingsInv, Orderly, InFlight, CallOK, SettingsCall
    <2>2. AfterFirst(call.done, call) = AfterFirst(calls[c].done, calls[c])
      BY <1>1 DEF AfterFirst, SettingsCall
    <2> QED
      BY <1>1, <2>1, <2>2 DEF SaveOK, SettingsCall
  <1> QED
    BY <1>1, <1>2, <1>3, OneCallMoves DEF SettingsCall

(* The handler is entered.                                                   *)
LEMMA SettingsEnter ==
    ASSUME SettingsInv, NEW c \in Calls, Enter(c)
    PROVE  SettingsInv'
  <1>1. CASE pool # "managed"
    BY <1>1, SettingsRefused DEF Enter
  <1>2. CASE pool = "managed"
    <2> DEFINE step == IF calls[c].op = "load" THEN "read" ELSE "write"
               call == [calls[c] EXCEPT !.pc = step]
    <2>1. /\ calls' = [calls EXCEPT ![c] = call] /\ calls[c] \in SettingsCall
          /\ calls[c].pc = "sent"
      BY <1>2 DEF Enter, SettingsInv, SettingsTypeOK, SettingsCall
    <2>2. call \in SettingsCall /\ CallOK(call) /\ call.reply = "none"
      BY <2>1 DEF SettingsCall, CallOK, SettingsInv
    <2>3. ASSUME ~crossed, call.op = "save" PROVE SaveOK(call)
      <3>1. c \in InFlight /\ SaveOK(calls[c])
        BY <2>1, <2>3 DEF SettingsInv, Orderly, InFlight, SettingsCall
      <3>2. AfterFirst(call.done, call) = AfterFirst(calls[c].done, calls[c])
        BY <2>1 DEF AfterFirst, SettingsCall
      <3> QED
        BY <2>1, <2>2, <3>1, <3>2 DEF SaveOK, SettingsCall
    <2> QED
      BY <2>1, <2>2, <2>3, OneCallMoves DEF Enter, SettingsCall
  <1> QED
    BY <1>1, <1>2

(* The read: the answer is the store, and a save has written all it had to.  *)
LEMMA SettingsGet ==
    ASSUME SettingsInv, NEW c \in Calls, Get(c)
    PROVE  SettingsInv'
  <1>1. CASE ~HasTable(SettingsTable)
    BY <1>1, SettingsRefused DEF Get
  <1>2. CASE HasTable(SettingsTable)
    <2> DEFINE call == [calls[c] EXCEPT !.pc = "replied", !.reply = "ok",
                                        !.answer = Visible(stored)]
    <2>1. /\ calls' = [calls EXCEPT ![c] = call] /\ calls[c] \in SettingsCall
          /\ calls[c].pc \in {"read", "write"}
          /\ calls[c].pc = "write" => Pending(calls[c]) = {}
      BY <1>2 DEF Get, Answer, SettingsInv, SettingsTypeOK, SettingsCall
    <2>2. stored \in Rows /\ Visible(stored) \in Rows
      BY AnswerMakesForm DEF SettingsInv, SettingsTypeOK
    <2>3. call \in SettingsCall /\ CallOK(call)
      BY <1>2, <2>1, <2>2 DEF SettingsCall, CallOK, SettingsInv
    <2>4. ASSUME ~crossed, call.op = "save" PROVE SaveOK(call)
      <3>1. /\ c \in InFlight /\ SaveOK(calls[c]) /\ calls[c].reply = "none"
            /\ calls[c].pc = "write"
        BY <2>1, <2>4 DEF SettingsInv, Orderly, InFlight, CallOK, SettingsCall, Get
      <3>2. /\ AfterFirst(call.done, call) = AfterFirst(calls[c].done, calls[c])
            /\ Pending(call) = Pending(calls[c])
        BY <2>1 DEF AfterFirst, Pending, SettingsCall
      <3> QED
        BY <2>1, <3>1, <3>2 DEF SaveOK, SettingsCall
    <2> QED
      BY <2>1, <2>3, <2>4, OneCallMoves DEF Get, SettingsCall
  <1> QED
    BY <1>1, <1>2

(* A statement: the store is one key further, whatever becomes of its        *)
(* acknowledgement, and if nothing crossed only at a key the user edited.    *)
LEMMA SettingsPut ==
    ASSUME SettingsInv, NEW c \in Calls, NEW i \in DOMAIN Order, Put(c, i)
    PROVE  SettingsInv'
  <1> DEFINE k == Order[i]
             row == RowOf(calls[c].form[k])
  <1>1. /\ calls[c] \in SettingsCall /\ calls[c].pc = "write"
        /\ calls[c].op = "save" /\ calls[c].reply = "none" /\ c \in InFlight
        /\ i \in Pending(calls[c]) /\ \A j \in Pending(calls[c]) : i <= j
        /\ k \in Keys /\ Writes(calls[c].form, k) /\ i \in 1..Len(Order)
        /\ UNCHANGED <<startupVars, Screen>>
    BY OrderFacts DEF Put, Turn, SettingsInv, SettingsTypeOK, SettingsCall,
                      CallOK, InFlight, Pending
  <1>2. CASE ~(HasTable(SettingsTable) /\ k \in Fields)
    BY <1>1, <1>2, SettingsRefused DEF Put
  <1>3. CASE HasTable(SettingsTable) /\ k \in Fields
    <2> DEFINE done == [calls[c] EXCEPT !.done = i]
               lost == [calls[c] EXCEPT !.pc = "replied", !.reply = "error",
                                        !.answer = NoRows]
    <2>1. PICK call \in {done, lost} : calls' = [calls EXCEPT ![c] = call]
      BY <1>1, <1>3 DEF Put, Answer
    <2>2. /\ call \in SettingsCall /\ call.op = "save" /\ call.form = calls[c].form
          /\ call.typed = calls[c].typed /\ call.was = calls[c].was
          /\ call.heard = calls[c].heard
          /\ \/ call.pc = "write" /\ call.done = i /\ call.reply = "none"
             \/ /\ call.pc = "replied" /\ call.done = calls[c].done
                /\ call.reply = "error"
      <3>1. CASE call = done
        <4>1. i \in 0..Len(Order)
          BY <1>1, OrderFacts
        <4> QED
          BY <1>1, <3>1, <4>1 DEF SettingsCall
      <3>2. CASE call = lost
        BY <1>1, <3>2, Constants DEF SettingsCall
      <3> QED
        BY <2>1, <3>1, <3>2
    <2>3. CallOK(call)
      <3>1. calls[c].heard => mounted
        BY DEF SettingsInv, CallOK
      <3> QED
        BY <2>2, <3>1 DEF CallOK
    <2> HIDE DEF done, lost
    <2>4. /\ stored' = [stored EXCEPT ![k] = row] /\ stored \in Rows
          /\ stored' \in Rows
      <3>1. row \in Texts \union {None}
        BY <1>1, RowIsTyped DEF SettingsCall
      <3> QED
        BY <1>1, <1>3, <3>1 DEF Put, SettingsInv, SettingsTypeOK, Rows
    <2>5. \A d \in Calls : calls'[d] = IF d = c THEN call ELSE calls[d]
      BY <2>1 DEF SettingsInv, SettingsTypeOK
    <2>6. SettingsTypeOK'
      BY <1>1, <2>1, <2>2, <2>4
         DEF SettingsInv, SettingsTypeOK, SettingsCall, startupVars, Screen
    <2>7. \A d \in Calls : CallOK(calls[d])'
      BY <1>1, <2>3, <2>5
         DEF SettingsInv, CallOK, Screen, startupVars, HasTable
    <2>8. ASSUME ~crossed PROVE Orderly'
      <3>1. InFlight' = {c} /\ InFlight = {c}
        <4>1. InFlight = {c}
          BY <1>1, <2>8 DEF SettingsInv, Orderly
        <4> QED
          BY <4>1, <2>2, <2>5 DEF InFlight
      <3>2. /\ SaveOK(calls[c]) /\ Faithful(form, typed)
            /\ ~mounted => form = EmptyForm
        BY <1>1, <2>8 DEF SettingsInv, Orderly
      <3>3. /\ \A j \in Keys \ {k} : stored'[j] = stored[j]
            /\ stored'[k] = row
            /\ k \notin calls[c].typed => stored' = stored
        BY <1>1, <2>4, <3>2 DEF SaveOK, Faithful, Rows
      <3>4. Faithful(form, typed)'
        <4>1. CASE mounted
          BY <1>1, <3>2, <3>3, <4>1 DEF Faithful, SaveOK, Screen
        <4>2. CASE ~mounted
          BY <1>1, <3>2, <4>2, Constants DEF Faithful, Screen
        <4> QED
          BY <4>1, <4>2
      <3>5. Faithful(call.form, call.typed)'
        BY <2>2, <3>2, <3>3 DEF Faithful, SaveOK
      <3>6. stored' = AfterFirst(i, calls[c])
        BY <1>1, <2>4, <3>2, OneKeyFurther DEF SaveOK
      <3>7. /\ AfterFirst(i, call) = AfterFirst(i, calls[c])
            /\ AfterFirst(call.done, call) = AfterFirst(call.done, calls[c])
            /\ call.done = calls[c].done => Pending(call) = Pending(calls[c])
        BY <2>2 DEF AfterFirst, Pending
      <3>8. SaveOK(call)'
        BY <1>1, <2>2, <3>2, <3>5, <3>6, <3>7
           DEF SaveOK, Screen
      <3> QED
        BY <1>1, <2>2, <2>5, <3>1, <3>4, <3>8 DEF Orderly
    <2> QED
      BY <1>1, <2>6, <2>7, <2>8 DEF SettingsInv, Screen
  <1> QED
    BY <1>2, <1>3

(* An answer becomes the form only if it is the store's.                     *)
LEMMA SettingsDeliver ==
    ASSUME SettingsInv, NEW c \in Calls, Deliver(c)
    PROVE  SettingsInv'
  <1> DEFINE taken == calls[c].heard /\ calls[c].reply = "ok"
  <1>1. /\ calls[c] \in SettingsCall /\ c \in InFlight
        /\ calls' = [calls EXCEPT ![c] = Idle]
        /\ \A d \in Calls : calls'[d] = IF d = c THEN Idle ELSE calls[d]
        /\ UNCHANGED <<startupVars, stored, mounted, crossed>>
    BY DEF Deliver, SettingsInv, SettingsTypeOK, SettingsCall, InFlight
  <1>2. CallOK(calls[c]) /\ stored \in Rows
    BY DEF SettingsInv, SettingsTypeOK
  <1>3. ASSUME taken PROVE FormOf(calls[c].answer) \in Form /\ mounted
    BY <1>2, <1>3, AnswerMakesForm DEF CallOK
  <1>4. SettingsTypeOK'
    <2>1. form' \in Form /\ typed' \subseteq Fields
      BY <1>3 DEF Deliver, SettingsInv, SettingsTypeOK
    <2> QED
      BY <1>1, <2>1, Constants
         DEF SettingsInv, SettingsTypeOK, SettingsCall, startupVars
  <1>5. ~mounted' => form' = EmptyForm
    BY <1>1, <1>3 DEF Deliver, SettingsInv
  <1>6. \A d \in Calls : CallOK(calls[d])'
    BY <1>1 DEF SettingsInv, CallOK, startupVars, HasTable, Idle
  <1>7. ASSUME ~crossed PROVE Orderly'
    <2>1. InFlight' = {}
      <3>1. InFlight = {c}
        BY <1>1, <1>7 DEF SettingsInv, Orderly
      <3> QED
        BY <1>1, <3>1 DEF InFlight, Idle
    <2>2. Faithful(form, typed)'
      <3>1. CASE taken
        <4>1. form' = FormOf(Visible(stored))
          BY <1>1, <1>7, <3>1 DEF Deliver, SettingsInv, Orderly
        <4> QED
          BY <1>1, <1>2, <4>1, AnswerMakesForm DEF Faithful
      <3>2. CASE ~taken
        BY <1>1, <1>7, <3>2 DEF Deliver, SettingsInv, Orderly, Faithful
      <3> QED
        BY <3>1, <3>2
    <2> QED
      BY <2>1, <2>2 DEF Orderly
  <1> QED
    BY <1>1, <1>4, <1>5, <1>6, <1>7 DEF SettingsInv

(* The screen is opened.                                                     *)
LEMMA SettingsMount ==
    ASSUME SettingsInv, NEW c \in Calls, Mount(c)
    PROVE  SettingsInv'
  <1> DEFINE call == [Idle EXCEPT !.op = "load", !.pc = "sent", !.heard = TRUE]
  <1>1. /\ calls' = [calls EXCEPT ![c] = call]
        /\ \A d \in Calls : calls'[d] = IF d = c THEN call ELSE calls[d]
        /\ calls[c].pc = "idle" /\ mounted' = TRUE /\ ~mounted
        /\ UNCHANGED <<startupVars, stored, form, typed>>
        /\ crossed' = (InFlight # {}) /\ form = EmptyForm
    BY DEF Mount, SettingsInv, SettingsTypeOK
  <1>2. call \in SettingsCall /\ call.reply = "none" /\ call.op = "load"
        /\ call.pc = "sent"
    BY Constants DEF SettingsCall, Idle
  <1>3. SettingsTypeOK'
    BY <1>1, <1>2 DEF SettingsInv, SettingsTypeOK, SettingsCall, startupVars
  <1>4. \A d \in Calls : CallOK(calls[d])'
    BY <1>1, <1>2 DEF SettingsInv, CallOK, startupVars, HasTable
  <1>5. ASSUME ~crossed' PROVE Orderly'
    <2>1. InFlight' = {c}
      BY <1>1, <1>2, <1>5 DEF InFlight
    <2>2. Faithful(form, typed)'
      BY <1>1, Constants DEF Faithful
    <2> QED
      BY <1>1, <1>2, <2>1, <2>2 DEF Orderly
  <1> QED
    BY <1>1, <1>3, <1>4, <1>5 DEF SettingsInv

(* The screen is left: a command goes on, unheard.                           *)
LEMMA SettingsUnmount ==
    ASSUME SettingsInv, Unmount
    PROVE  SettingsInv'
  <1>1. /\ \A d \in Calls : calls'[d] = [calls[d] EXCEPT !.heard = FALSE]
        /\ calls' = [d \in Calls |-> [calls[d] EXCEPT !.heard = FALSE]]
        /\ mounted' = FALSE /\ form' = EmptyForm /\ typed' = {}
        /\ UNCHANGED <<startupVars, stored, crossed>>
        /\ \A d \in Calls : calls[d] \in SettingsCall
    BY DEF Unmount, SettingsInv, SettingsTypeOK, SettingsCall
  <1>2. ASSUME NEW d \in Calls
        PROVE  /\ calls'[d] \in SettingsCall /\ calls'[d].heard = FALSE
               /\ calls'[d].op = calls[d].op /\ calls'[d].pc = calls[d].pc
               /\ calls'[d].form = calls[d].form
               /\ calls'[d].done = calls[d].done
               /\ calls'[d].reply = calls[d].reply
               /\ calls'[d].answer = calls[d].answer
               /\ calls'[d].typed = calls[d].typed
               /\ calls'[d].was = calls[d].was
    BY <1>1 DEF SettingsCall
  <1>3. SettingsTypeOK'
    <2>1. calls' \in [Calls -> SettingsCall]
      BY <1>1, <1>2
    <2> QED
      BY <1>1, <2>1, Constants
         DEF SettingsInv, SettingsTypeOK, SettingsCall, startupVars
  <1>4. ASSUME NEW d \in Calls PROVE CallOK(calls[d])'
    <2>1. CallOK(calls[d])
      BY DEF SettingsInv
    <2> QED
      BY <1>1, <1>2, <2>1 DEF CallOK, startupVars, HasTable
  <1>5. ASSUME ~crossed PROVE Orderly'
    <2>1. InFlight' = InFlight
      BY <1>2 DEF InFlight
    <2>2. Faithful(form, typed)'
      BY <1>1, Constants DEF Faithful
    <2>3. ASSUME NEW d \in InFlight, calls[d].op = "save" PROVE SaveOK(calls[d])'
      <3>1. SaveOK(calls[d]) /\ d \in Calls
        BY <1>5, <2>3 DEF SettingsInv, Orderly, InFlight
      <3>2. SaveOK(calls'[d])
        BY <1>2, <3>1, SameSave
      <3> QED
        BY <1>1, <3>2 DEF SaveOK, Faithful
    <2>4. ASSUME NEW d \in InFlight, calls'[d].reply = "ok"
          PROVE  calls'[d].answer = Visible(stored')
      <3>1. d \in Calls
        BY DEF InFlight
      <3>2. calls[d].reply = "ok" /\ calls'[d].answer = calls[d].answer
        BY <1>2, <2>4, <3>1
      <3>3. calls[d].answer = Visible(stored)
        BY <1>5, <3>2 DEF SettingsInv, Orderly
      <3> QED
        BY <1>1, <3>2, <3>3
    <2>5. \A d \in InFlight : calls'[d].op = calls[d].op
      BY <1>2 DEF InFlight
    <2>6. \A d, e \in InFlight : d = e
      BY <1>5 DEF SettingsInv, Orderly
    <2> QED
      BY <2>1, <2>2, <2>3, <2>4, <2>5, <2>6 DEF Orderly
  <1> QED
    BY <1>1, <1>3, <1>4, <1>5 DEF SettingsInv

(* The user edits a field.                                                   *)
LEMMA SettingsType ==
    ASSUME SettingsInv, NEW k \in Fields, NEW text \in Texts \union {Blank},
           Type(k, text)
    PROVE  SettingsInv'
  <1>1. /\ form' = [form EXCEPT ![k] = text] /\ typed' = typed \union {k}
        /\ UNCHANGED <<startupVars, stored, mounted, calls, crossed>>
        /\ mounted /\ form \in Form /\ typed \subseteq Fields
    BY DEF Type, SettingsInv, SettingsTypeOK
  <1>2. form' \in Form
    BY <1>1, OrderFacts, TextsAssumption DEF Form, Fields, Blank, None
  <1>3. SettingsTypeOK'
    BY <1>1, <1>2 DEF SettingsInv, SettingsTypeOK, startupVars
  <1>4. \A d \in Calls : CallOK(calls[d])'
    BY <1>1 DEF SettingsInv, CallOK, startupVars, HasTable
  <1>5. ASSUME ~crossed PROVE Orderly'
    <2>1. \A j \in Keys \ {k} : form'[j] = form[j]
      BY <1>1 DEF Form
    <2>2. Faithful(form, typed)'
      BY <1>1, <1>5, <2>1 DEF SettingsInv, Orderly, Faithful, Writes
    <2>3. \A c \in InFlight : SaveOK(calls[c]) => SaveOK(calls[c])'
      BY <1>1 DEF SaveOK, Faithful
    <2> QED
      BY <1>1, <1>5, <2>2, <2>3 DEF SettingsInv, Orderly, InFlight
  <1> QED
    BY <1>1, <1>3, <1>4, <1>5 DEF SettingsInv

(* A save sets out from the store as it is, with what the form shows.        *)
LEMMA SettingsSave ==
    ASSUME SettingsInv, NEW c \in Calls, Save(c)
    PROVE  SettingsInv'
  <1> DEFINE call == [Idle EXCEPT !.op = "save", !.pc = "sent", !.form = form,
                                  !.heard = TRUE, !.typed = typed, !.was = stored]
  <1>1. /\ calls' = [calls EXCEPT ![c] = call]
        /\ \A d \in Calls : calls'[d] = IF d = c THEN call ELSE calls[d]
        /\ calls[c].pc = "idle" /\ mounted
        /\ UNCHANGED <<startupVars, stored, mounted, form, typed>>
        /\ crossed' = (crossed \/ InFlight # {})
        /\ form \in Form /\ typed \subseteq Fields /\ stored \in Rows
    BY DEF Save, SettingsInv, SettingsTypeOK
  <1>2. /\ call \in SettingsCall /\ call.reply = "none" /\ call.op = "save"
        /\ call.pc = "sent" /\ call.form = form /\ call.typed = typed
        /\ call.was = stored /\ call.done = 0
    BY <1>1, Constants, OrderFacts DEF SettingsCall, Idle
  <1> HIDE DEF call
  <1>3. SettingsTypeOK'
    BY <1>1, <1>2 DEF SettingsInv, SettingsTypeOK, SettingsCall, startupVars
  <1>4. \A d \in Calls : CallOK(calls[d])'
    BY <1>1, <1>2 DEF SettingsInv, CallOK, startupVars, HasTable
  <1>5. ASSUME ~crossed' PROVE Orderly'
    <2>1. InFlight' = {c}
      BY <1>1, <1>2, <1>5 DEF InFlight
    <2>2. Faithful(form, typed)
      BY <1>1, <1>5 DEF SettingsInv, Orderly
    <2>3. stored = AfterFirst(0, call)
      BY <1>1, <1>2 DEF AfterFirst, Rows
    <2>4. SaveOK(call)
      BY <1>2, <2>2, <2>3 DEF SaveOK
    <2>5. Faithful(form, typed)' /\ SaveOK(calls[c])'
      BY <1>1, <2>2, <2>4 DEF Faithful, SaveOK
    <2> QED
      BY <1>1, <1>2, <2>1, <2>5 DEF Orderly
  <1> QED
    BY <1>1, <1>3, <1>4, <1>5 DEF SettingsInv

(* A restart leaves the store, the startup task moves only the pool and the  *)
(* migrations, of which none is ever taken back.                             *)
LEMMA SettingsEnvironment ==
    ASSUME SettingsInv, Crash \/ Start
    PROVE  SettingsInv'
  <1>1. CASE Crash
    <2>1. /\ \A d \in Calls : calls'[d] = Idle
          /\ form' = EmptyForm /\ mounted' = FALSE
      BY <1>1 DEF Crash
    <2>2. SettingsTypeOK'
      BY <1>1, Constants
         DEF Crash, Restart, SettingsInv, SettingsTypeOK, SettingsCall
    <2>3. \A d \in Calls : CallOK(calls[d])'
      BY <2>1 DEF CallOK, Idle
    <2>4. Orderly'
      <3>1. InFlight' = {}
        BY <2>1 DEF InFlight, Idle
      <3>2. Faithful(form, typed)'
        BY <2>1, Constants DEF Faithful
      <3> QED
        BY <3>1, <3>2 DEF Orderly
    <2> QED
      BY <2>1, <2>2, <2>3, <2>4 DEF SettingsInv
  <1>2. CASE Start
    <2>1. /\ UNCHANGED <<stored, calls, mounted, form, typed, crossed>>
          /\ pool' \in {"connecting", "migrating", "managed", "offline"}
          /\ schema' \in 0..Migrations /\ schema <= schema' /\ schema \in Int
      BY <1>2, MigrationsAssumption
         DEF Start, StartupStep, Connect, Unreachable, Migrate, Manage, Screen,
             SettingsInv, SettingsTypeOK
    <2>2. SettingsTypeOK'
      BY <2>1 DEF SettingsInv, SettingsTypeOK
    <2>3. \A d \in Calls : CallOK(calls[d])'
      BY <2>1 DEF SettingsInv, CallOK, HasTable, SettingsTable
    <2>4. Orderly => Orderly'
      BY <2>1 DEF Orderly, Faithful, SaveOK, InFlight
    <2> QED
      BY <2>1, <2>2, <2>3, <2>4 DEF SettingsInv
  <1> QED
    BY <1>1, <1>2

(* ... and every step keeps it.                                              *)
LEMMA SettingsStep == SettingsInv /\ [SettingsNext]_settingsVars => SettingsInv'
  <1> SUFFICES ASSUME SettingsInv, [SettingsNext]_settingsVars
               PROVE  SettingsInv'
    OBVIOUS
  <1>1. CASE UNCHANGED settingsVars
    BY <1>1 DEF settingsVars, SettingsInv, SettingsTypeOK, CallOK, HasTable,
                Orderly, Faithful, SaveOK, InFlight
  <1>2. ASSUME NEW c \in Calls, Fail(c) PROVE SettingsInv'
    BY <1>2, SettingsRefused DEF Fail
  <1> QED
    BY <1>1, <1>2, SettingsMount, SettingsUnmount, SettingsType, SettingsSave,
       SettingsEnter, SettingsPut, SettingsGet, SettingsDeliver,
       SettingsEnvironment DEF SettingsNext

-----------------------------------------------------------------------------
(* Theorems. *)

(* What is said about the settings holds in every reachable state.           *)
THEOREM SettingsInvariant == SettingsSpec => []SettingsInv
  BY SettingsBegin, SettingsStep, PTL DEF SettingsSpec

(* Type correctness of store, form and commands.                             *)
THEOREM SettingsTypes == SettingsSpec => []SettingsTypeOK
  <1>1. SettingsInv => SettingsTypeOK
    BY DEF SettingsInv
  <1> QED
    BY <1>1, SettingsInvariant, PTL

(* A save has always written a first part of its keys, and all of them when  *)
(* it is answered "saved" (application/settings.rs apply, settings_pg.rs).   *)
THEOREM SavesInOrder == SettingsSpec => []SavesApplyInOrder
  <1>1. SettingsInv => SavesApplyInOrder
    <2> SUFFICES ASSUME SettingsInv, NEW c \in InFlight,
                        calls[c].op = "save", ~crossed
                 PROVE  LET call == calls[c] IN
                        /\ \/ stored = AfterFirst(call.done, call)
                           \/ \E n \in Pending(call) :
                                 /\ \A i \in Pending(call) : n <= i
                                 /\ stored = AfterFirst(n, call)
                        /\ call.reply = "ok" =>
                              /\ HasTable(SettingsTable)
                              /\ stored = AfterFirst(Len(Order), call)
                              /\ call.answer = Visible(stored)
      BY DEF SavesApplyInOrder
    <2>1. /\ SaveOK(calls[c]) /\ c \in Calls /\ CallOK(calls[c])
          /\ calls[c] \in SettingsCall
          /\ calls[c].reply = "ok" => calls[c].answer = Visible(stored)
      BY DEF SettingsInv, Orderly, InFlight, SettingsTypeOK, SettingsCall
    <2> QED
      BY <2>1, NothingPending DEF SaveOK, CallOK
  <1> QED
    BY <1>1, SettingsInvariant, PTL

(* Whatever is left half done, repeated or restarted: a row changes only by  *)
(* a save whose user edited that field (Settings.tsx save).                  *)
THEOREM OnlyEditsChange == SettingsSpec => OnlyTypedChanges
  <1>1. SettingsInv /\ [SettingsNext]_settingsVars
        => [\A k \in Keys :
               stored'[k] # stored[k] =>
                  \/ crossed
                  \/ \E c \in InFlight :
                        calls[c].op = "save" /\ k \in calls[c].typed]_stored
    <2> SUFFICES ASSUME SettingsInv, [SettingsNext]_settingsVars, ~crossed,
                        NEW k \in Keys, stored'[k] # stored[k]
                 PROVE  \E c \in InFlight :
                           calls[c].op = "save" /\ k \in calls[c].typed
      OBVIOUS
    <2>1. PICK c \in Calls, i \in DOMAIN Order : Put(c, i)
      BY DEF SettingsNext, settingsVars, Mount, Save, Enter, Get, Fail, Deliver,
             Type, Unmount, Crash, Start
    <2>2. /\ c \in InFlight /\ calls[c].op = "save" /\ SaveOK(calls[c])
          /\ Writes(calls[c].form, Order[i]) /\ Order[i] \in Keys
      BY <2>1, OrderFacts
         DEF Put, Turn, InFlight, SettingsInv, CallOK, Orderly, Pending
    <2>3. /\ k = Order[i]
          /\ stored'[k] = RowOf(calls[c].form[k])
      BY <2>1, <2>2 DEF Put, SettingsInv, SettingsTypeOK, Rows
    <2> QED
      BY <2>2, <2>3 DEF SaveOK, Faithful
  <1> QED
    BY <1>1, SettingsInvariant, PTL DEF SettingsSpec, OnlyTypedChanges
=============================================================================
