------------------------ MODULE MemoriaReview_proofs -------------------------
(* Proofs about MemoriaReview, for every set of cards and grades, finitely   *)
(* many command slots, every batch limit and every bound.                    *)
EXTENDS MemoriaReview, FiniteSetTheorems, TLAPS

ReviewCall ==
    [op : {"none", "list", "grade"}, pc : {"idle", "read", "write", "replied"},
     at : Time, card : Cards \union {Null}, grade : GradeNames, seen : Card,
     screen : Sitting, batch : Seq(Cards), reply : {"none", "ok", "error"},
     heard : BOOLEAN]

(* A batch a screen may show: within the limit, no card twice, each kept.    *)
BatchOK(batch) ==
    /\ Len(batch) <= Limit
    /\ \A i, j \in DOMAIN batch : batch[i] = batch[j] => i = j
    /\ \A i \in DOMAIN batch : cards[batch[i]].curation = "kept"

ScreenOK(screen) ==
    screen # NoSitting =>
        screen.index \in DOMAIN screen.batch /\ BatchOK(screen.batch)

(* What an unfinished command carries from its earlier step: a grade its     *)
(* card, and past the gate a kept one with what was logged of it by then.    *)
CarriesOK(call) ==
    /\ BatchOK(call.batch)
    /\ ScreenOK(call.screen)
    /\ call.pc # "idle" => call.op # "none"
    /\ call.pc = "replied" => call.reply # "none"
    /\ call.op = "grade" /\ call.pc \in {"read", "write"} =>
          call.card \in Cards /\ call.grade \in Grades
    /\ call.op = "grade" /\ call.pc = "write" =>
          /\ cards[call.card].curation = "kept"
          /\ call.seen.reps <= Cardinality(ReviewsOf(call.card))

(* A card new exactly when it has no review, else set by one of them, with   *)
(* at most as many repetitions as reviews.                                   *)
CardOK(k) ==
    /\ cards[k].state = "new" <=> ReviewsOf(k) = {}
    /\ cards[k].state = "new" => cards[k].last = Null /\ cards[k].reps = 0
    /\ cards[k].state # "new" =>
          /\ cards[k].reps \in 1..Cardinality(ReviewsOf(k))
          /\ \E r \in ReviewsOf(k) :
                r.at = cards[k].last /\ r.due = cards[k].due

TypesInv ==
    /\ cards \in [Cards -> Card]
    /\ reviews \subseteq Review /\ IsFiniteSet(reviews)
    /\ calls \in [Calls -> ReviewCall]
    /\ sitting \in Sitting
    /\ clock \in Time
    /\ crossed \subseteq Cards

(* The inductive invariant: CardReflectsAReview is not inductive alone, as a *)
(* grade writes what an earlier read returned.                               *)
ReviewInv ==
    /\ TypesInv
    /\ \A k \in Cards : CardOK(k)
    /\ \A r \in reviews : cards[r.card].curation = "kept"
    /\ ScreenOK(sitting)
    /\ \A c \in Calls : CarriesOK(calls[c])

-----------------------------------------------------------------------------
(* Small facts. *)

(* The constant records are typed, and nothing is a fit batch.               *)
LEMMA Constants ==
    /\ Idle \in ReviewCall /\ NoSitting \in Sitting /\ Unseen \in Card
    /\ \A b : b = <<>> => BatchOK(b)
    /\ ScreenOK(NoSitting)
    /\ Null \notin Time /\ Time \subseteq Int /\ Later \subseteq Int
  <1>1. Unseen \in Card
    BY DEF Unseen, Card, FsrsState
  <1>2. NoSitting \in Sitting
    BY DEF NoSitting, Sitting
  <1>3. Idle \in ReviewCall
    BY <1>1, <1>2, BoundsAssumption DEF Idle, ReviewCall, Time, GradeNames
  <1>4. \A b : b = <<>> => BatchOK(b)
    BY BoundsAssumption DEF BatchOK
  <1>5. ScreenOK(NoSitting)
    BY DEF ScreenOK
  <1>6. Null \notin Time /\ Time \subseteq Int /\ Later \subseteq Int
    BY BoundsAssumption DEF Null, Time, Later
  <1> QED
    BY <1>1, <1>2, <1>3, <1>4, <1>5, <1>6

(* A card has finitely many reviews, and each is a row of the table.         *)
LEMMA CountedReviews ==
    ASSUME TypesInv, NEW k \in Cards
    PROVE  IsFiniteSet(ReviewsOf(k)) /\ Cardinality(ReviewsOf(k)) \in Nat
  <1>1. ReviewsOf(k) \subseteq reviews
    BY DEF ReviewsOf
  <1> QED
    BY <1>1, FS_Subset, FS_CardinalityType DEF TypesInv

(* What a grade may make of a card: never new again, one repetition more,    *)
(* reviewed now and due later.                                               *)
LEMMA ScheduleFacts ==
    ASSUME NEW seen \in Card, NEW grade \in GradeNames, NEW now \in Time,
           NEW next \in Schedule(seen, grade, now)
    PROVE  /\ next \in Card
           /\ next.state # "new" /\ next.last = now
           /\ next.reps = seen.reps + 1 /\ next.due \in Later
           /\ next.state = NextState(seen.state, grade)
           /\ next.lapses = IF Lapsed(seen.state, grade) THEN seen.lapses + 1
                                                         ELSE seen.lapses
  <1>1. PICK ahead \in 1..MaxInterval :
            next = [seen EXCEPT !.state = NextState(seen.state, grade),
                       !.due = now + ahead, !.last = now, !.reps = @ + 1,
                       !.lapses = IF Lapsed(seen.state, grade) THEN @ + 1 ELSE @]
    BY DEF Schedule
  <1>2. /\ NextState(seen.state, grade) \in FsrsState
        /\ NextState(seen.state, grade) # "new"
    <2>1. seen.state \in FsrsState
      BY DEF Card
    <2> QED
      BY <2>1 DEF FsrsState, NextState, GradeNames
  <1>3. now + ahead \in Later
    BY BoundsAssumption DEF Time, Later
  <1>4. seen.reps \in Nat /\ seen.lapses \in Nat
    BY DEF Card
  <1>5. PICK state, lapses :
            /\ state = NextState(seen.state, grade)
            /\ lapses = IF Lapsed(seen.state, grade) THEN seen.lapses + 1
                                                     ELSE seen.lapses
    OBVIOUS
  <1>6. /\ state \in FsrsState /\ state # "new" /\ lapses \in Nat
        /\ seen.reps + 1 \in Nat
    BY <1>2, <1>4, <1>5
  <1>7. next = [seen EXCEPT !.state = state, !.due = now + ahead,
                  !.last = now, !.reps = seen.reps + 1, !.lapses = lapses]
    BY <1>1, <1>5, Zenon
  <1>8. next = [curation |-> seen.curation, state |-> state,
                due |-> now + ahead, last |-> now, reps |-> seen.reps + 1,
                lapses |-> lapses]
    BY <1>7 DEF Card
  <1>9. seen.curation \in {"draft", "kept", "killed"}
    BY DEF Card
  <1> QED
    BY <1>3, <1>5, <1>6, <1>8, <1>9 DEF Card

(* A step that leaves the tables alone keeps the invariant if the commands   *)
(* and the sitting stay in order.                                            *)
LEMMA QuietStep ==
    ASSUME ReviewInv, UNCHANGED <<cards, reviews>>,
           clock' \in Time, crossed' \subseteq Cards,
           calls' \in [Calls -> ReviewCall], sitting' \in Sitting,
           ScreenOK(sitting'), \A c \in Calls : CarriesOK(calls'[c])
    PROVE  ReviewInv'
  <1>1. TypesInv'
    BY DEF ReviewInv, TypesInv
  <1>2. \A k \in Cards : CardOK(k)'
    BY DEF ReviewInv, CardOK, ReviewsOf
  <1>3. ScreenOK(sitting)'
    BY DEF ScreenOK, BatchOK
  <1>4. \A c \in Calls : CarriesOK(calls[c])'
    BY DEF CarriesOK, ScreenOK, BatchOK, ReviewsOf
  <1> QED
    BY <1>1, <1>2, <1>3, <1>4 DEF ReviewInv

(* Putting one call in order keeps the calls in order.                       *)
LEMMA OneCall ==
    ASSUME ReviewInv, NEW c \in Calls, NEW call \in ReviewCall, CarriesOK(call),
           calls' = [calls EXCEPT ![c] = call]
    PROVE  /\ calls' \in [Calls -> ReviewCall]
           /\ \A d \in Calls : CarriesOK(calls'[d])
  <1>1. calls' \in [Calls -> ReviewCall]
    BY DEF ReviewInv, TypesInv
  <1>2. \A d \in Calls : calls'[d] = IF d = c THEN call ELSE calls[d]
    BY DEF ReviewInv, TypesInv
  <1> QED
    BY <1>1, <1>2 DEF ReviewInv

(* The record of an answered command is in order.                            *)
LEMMA RepliedOK ==
    ASSUME ReviewInv, NEW c \in Calls, NEW reply \in {"ok", "error"},
           NEW batch \in Seq(Cards), BatchOK(batch), calls[c].pc # "idle"
    PROVE  /\ Replied(calls[c], reply, batch) \in ReviewCall
           /\ CarriesOK(Replied(calls[c], reply, batch))
  <1>1. calls[c] \in ReviewCall /\ CarriesOK(calls[c])
    BY DEF ReviewInv, TypesInv
  <1>2. Replied(calls[c], reply, batch) \in ReviewCall
    BY <1>1, Constants DEF Replied, ReviewCall
  <1>3. CarriesOK(Replied(calls[c], reply, batch))
    BY <1>1, Constants DEF Replied, ReviewCall, CarriesOK
  <1> QED
    BY <1>2, <1>3

(* Answering a command keeps the calls in order.                             *)
LEMMA AnswerOK ==
    ASSUME ReviewInv, NEW c \in Calls, NEW reply \in {"ok", "error"},
           Answer(c, reply), calls[c].pc # "idle"
    PROVE  /\ calls' \in [Calls -> ReviewCall]
           /\ \A d \in Calls : CarriesOK(calls'[d])
  <1>1. /\ Replied(calls[c], reply, <<>>) \in ReviewCall
        /\ CarriesOK(Replied(calls[c], reply, <<>>))
    <2>1. <<>> \in Seq(Cards) /\ BatchOK(<<>>)
      BY Constants
    <2> QED
      BY <2>1, RepliedOK
  <1> QED
    BY <1>1, OneCall DEF Answer

-----------------------------------------------------------------------------
(* The steps. *)

(* The initial state: new cards, no reviews, nothing on the screen.          *)
LEMMA ReviewInit == Init => ReviewInv
  <1> SUFFICES ASSUME Init PROVE ReviewInv
    OBVIOUS
  <1>1. \A k \in Cards :
           cards[k] \in Card /\ cards[k].state = "new"
           /\ cards[k].last = Null /\ cards[k].reps = 0
    <2> SUFFICES ASSUME NEW k \in Cards
                 PROVE  /\ cards[k] \in Card /\ cards[k].state = "new"
                        /\ cards[k].last = Null /\ cards[k].reps = 0
      OBVIOUS
    <2>1. cards[k] \in {[Unseen EXCEPT !.curation = "kept", !.due = 0],
                       [Unseen EXCEPT !.curation = "kept"],
                       [Unseen EXCEPT !.curation = "killed", !.due = 0]}
      BY DEF Init
    <2> QED
      BY <2>1, Constants DEF Card, Unseen
  <1>2. TypesInv
    <2>1. cards \in [Cards -> Card]
      BY <1>1 DEF Init
    <2>2. 0 \in Time
      BY BoundsAssumption DEF Time
    <2> QED
      BY <2>1, <2>2, Constants, FS_EmptySet DEF Init, TypesInv
  <1>3. \A k \in Cards : CardOK(k)
    BY <1>1 DEF Init, CardOK, ReviewsOf
  <1>4. \A c \in Calls : CarriesOK(calls[c])
    BY Constants DEF Init, CarriesOK, Idle
  <1>5. ScreenOK(sitting) /\ reviews = {}
    BY Constants DEF Init
  <1> QED
    BY <1>2, <1>3, <1>4, <1>5 DEF ReviewInv

(* The batch query gives a batch a screen may show.                          *)
LEMMA BatchIsOK ==
    ASSUME ReviewInv, NEW now \in Time,
           NEW batch \in [1..BatchSize(now) -> DueSet(now)],
           DueBatch(batch, now)
    PROVE  batch \in Seq(Cards) /\ BatchOK(batch)
  <1>1. IsFiniteSet(DueSet(now)) /\ Cardinality(DueSet(now)) \in Nat
    BY CardsAssumption, FS_Subset, FS_CardinalityType DEF DueSet
  <1>2. BatchSize(now) \in Nat /\ BatchSize(now) <= Limit
    BY <1>1, BoundsAssumption DEF BatchSize
  <1>3. \A i \in DOMAIN batch :
           batch[i] \in Cards /\ cards[batch[i]].curation = "kept"
    BY DEF DueSet, Due
  <1>4. batch \in [1..BatchSize(now) -> Cards]
    BY <1>3
  <1>5. batch \in Seq(Cards) /\ Len(batch) = BatchSize(now)
    BY <1>2, <1>4
  <1>6. \A k \in Cards : ~Before(k, k)
    <2> SUFFICES ASSUME NEW k \in Cards PROVE ~Before(k, k)
      OBVIOUS
    <2>1. k \in Int /\ cards[k].due \in Int
      <3>1. cards[k].due \in Later \union {0, Null}
        BY DEF ReviewInv, TypesInv, Card
      <3> QED
        BY <3>1, CardsAssumption, BoundsAssumption DEF Null, Later
    <2> QED
      BY <2>1 DEF Before
  <1>7. ASSUME NEW i \in DOMAIN batch, NEW j \in DOMAIN batch,
               batch[i] = batch[j]
        PROVE  i = j
    <2>1. i \in Int /\ j \in Int
      BY <1>2
    <2>2. ~(i < j) /\ ~(j < i)
      BY <1>3, <1>6, <1>7 DEF DueBatch
    <2> QED
      BY <2>1, <2>2
  <1> QED
    BY <1>2, <1>3, <1>5, <1>7 DEF BatchOK

(* Moving on keeps a screen in order: past the last card the sitting ends.   *)
LEMMA AdvancedOK ==
    ASSUME NEW screen \in Sitting, ScreenOK(screen)
    PROVE  Advanced(screen) \in Sitting /\ ScreenOK(Advanced(screen))
  <1>1. CASE screen.index < Len(screen.batch)
    <2> DEFINE next == [batch |-> screen.batch, index |-> screen.index + 1,
                        revealed |-> FALSE]
    <2>1. Advanced(screen) = next
      <3>1. Advanced(screen) = [screen EXCEPT !.index = screen.index + 1,
                                              !.revealed = FALSE]
        BY <1>1 DEF Advanced
      <3> QED
        BY <3>1 DEF Sitting
    <2>2. /\ screen.batch \in Seq(Cards) /\ screen.index \in Nat
          /\ Len(screen.batch) \in Nat
          /\ DOMAIN screen.batch = 1..Len(screen.batch)
      BY DEF Sitting
    <2>4. screen # NoSitting
      BY <1>1 DEF NoSitting
    <2>5. BatchOK(screen.batch)
      BY <2>4 DEF ScreenOK
    <2>6. next.index \in DOMAIN next.batch /\ next.batch = screen.batch
      BY <1>1, <2>2
    <2>7. next \in Sitting
      BY <2>2 DEF Sitting
    <2> QED
      BY <2>1, <2>5, <2>6, <2>7 DEF ScreenOK
  <1>2. CASE ~(screen.index < Len(screen.batch))
    BY <1>2, Constants DEF Advanced
  <1> QED
    BY <1>1, <1>2

(* An answer that reaches the screen, early, late or unheard.                *)
LEMMA ReviewDeliver ==
    ASSUME ReviewInv, NEW c \in Calls, Deliver(c)
    PROVE  ReviewInv'
  <1> DEFINE call == calls[c]
  <1>1. call \in ReviewCall /\ CarriesOK(call)
    BY DEF ReviewInv, TypesInv
  <1>2. CarriesOK(Idle)
    BY Constants DEF CarriesOK, Idle
  <1>3. sitting' \in Sitting /\ ScreenOK(sitting')
    <2>1. CASE ~call.heard \/ call.reply = "error"
      <3>1. sitting' = sitting
        BY <2>1 DEF Deliver
      <3> QED
        BY <3>1 DEF ReviewInv, TypesInv
    <2>2. CASE /\ ~(~call.heard \/ call.reply = "error")
               /\ call.op = "list" /\ call.reply = "ok"
      <3> DEFINE open == [batch |-> call.batch, index |-> 1, revealed |-> FALSE]
      <3>1. sitting' = IF call.batch = <<>> THEN sitting ELSE open
        BY <2>2 DEF Deliver
      <3>2. call.batch \in Seq(Cards) /\ BatchOK(call.batch)
        BY <1>1 DEF CarriesOK, ReviewCall
      <3>3. ASSUME call.batch # <<>>
            PROVE  open \in Sitting /\ ScreenOK(open)
        BY <3>2, <3>3 DEF Sitting, ScreenOK
      <3> QED
        BY <3>1, <3>3 DEF ReviewInv, TypesInv
    <2>3. CASE /\ ~(~call.heard \/ call.reply = "error")
               /\ call.op = "grade" /\ call.reply = "ok"
      <3>1. sitting' = Advanced(call.screen)
        BY <2>3 DEF Deliver
      <3>2. call.screen \in Sitting /\ ScreenOK(call.screen)
        BY <1>1 DEF CarriesOK, ReviewCall
      <3> QED
        BY <3>1, <3>2, AdvancedOK
    <2>4. call.op \in {"list", "grade"} /\ call.reply \in {"ok", "error"}
      BY <1>1 DEF Deliver, CarriesOK, ReviewCall
    <2> QED
      BY <2>1, <2>2, <2>3, <2>4
  <1>4. /\ calls' \in [Calls -> ReviewCall]
        /\ \A d \in Calls : CarriesOK(calls'[d])
    BY <1>2, Constants, OneCall DEF Deliver
  <1> QED
    BY <1>3, <1>4, QuietStep DEF Deliver, Tables, ReviewInv, TypesInv

(* Every step except a grade's transaction leaves the tables alone.          *)
LEMMA ReviewQuiet ==
    ASSUME ReviewInv, NEW c \in Calls,
           \/ StartReview(c) \/ ListDue(c) \/ GradeRead(c) \/ GradeClash(c)
           \/ Fail(c) \/ \E grade \in Grades : Grade(c, grade)
    PROVE  ReviewInv'
  <1>1. /\ calls[c] \in ReviewCall /\ CarriesOK(calls[c])
        /\ sitting \in Sitting /\ ScreenOK(sitting) /\ clock \in Time
    BY DEF ReviewInv, TypesInv
  <1> SUFFICES /\ calls' \in [Calls -> ReviewCall]
               /\ \A d \in Calls : CarriesOK(calls'[d])
               /\ crossed' \subseteq Cards
    BY QuietStep, <1>1
       DEF StartReview, ListDue, GradeRead, GradeClash, Fail, Grade, Tables,
           ReviewInv, TypesInv
  <1>2. crossed \subseteq Cards
    BY DEF ReviewInv, TypesInv
  <1>3. CASE StartReview(c)
    <2> DEFINE call == [Idle EXCEPT !.op = "list", !.pc = "read", !.at = clock,
                                    !.heard = TRUE]
    <2>1. call \in ReviewCall
      BY <1>1, Constants DEF ReviewCall, Idle
    <2>2. CarriesOK(call)
      BY Constants DEF CarriesOK, Idle
    <2>3. calls' = [calls EXCEPT ![c] = call]
      BY <1>3 DEF StartReview
    <2> HIDE DEF call
    <2> QED
      BY <1>2, <1>3, <2>1, <2>2, <2>3, OneCall DEF StartReview
  <1>4. CASE ListDue(c)
    <2>1. PICK batch \in [1..BatchSize(calls[c].at) -> DueSet(calls[c].at)] :
              /\ DueBatch(batch, calls[c].at)
              /\ calls' = [calls EXCEPT ![c] = Replied(calls[c], "ok", batch)]
      BY <1>4 DEF ListDue
    <2>2. calls[c].at \in Time /\ calls[c].pc # "idle"
      BY <1>1, <1>4 DEF ReviewCall, ListDue, At
    <2>3. batch \in Seq(Cards) /\ BatchOK(batch)
      BY <2>1, <2>2, BatchIsOK
    <2>4. /\ Replied(calls[c], "ok", batch) \in ReviewCall
          /\ CarriesOK(Replied(calls[c], "ok", batch))
      BY <2>2, <2>3, RepliedOK
    <2> QED
      BY <1>2, <1>4, <2>1, <2>4, OneCall DEF ListDue
  <1>5. CASE GradeRead(c)
    <2> DEFINE k == calls[c].card
    <2>1. k \in Cards /\ calls[c].op = "grade" /\ calls[c].pc = "read"
      BY <1>1, <1>5 DEF GradeRead, At, CarriesOK
    <2>2. CASE Reviewable(k)
      <3> DEFINE call == [calls[c] EXCEPT !.pc = "write", !.seen = cards[k]]
      <3>1. cards[k] \in Card
        BY <2>1 DEF ReviewInv, TypesInv
      <3>2. call \in ReviewCall
        BY <1>1, <3>1 DEF ReviewCall
      <3>3. /\ call.pc = "write" /\ call.seen = cards[k] /\ call.card = k
            /\ call.batch = calls[c].batch /\ call.screen = calls[c].screen
            /\ call.op = "grade" /\ call.grade = calls[c].grade
        BY <1>1, <2>1 DEF ReviewCall
      <3>4. cards[k].reps <= Cardinality(ReviewsOf(k))
        <4>1. Cardinality(ReviewsOf(k)) \in Nat /\ CardOK(k)
          BY <2>1, CountedReviews DEF ReviewInv
        <4> QED
          BY <4>1 DEF CardOK
      <3>5. CarriesOK(call)
        BY <1>1, <2>1, <2>2, <3>3, <3>4 DEF CarriesOK, Reviewable
      <3>6. calls' = [calls EXCEPT ![c] = call]
        BY <1>5, <2>2 DEF GradeRead
      <3> HIDE DEF call
      <3> QED
        BY <1>2, <1>5, <3>2, <3>5, <3>6, OneCall DEF GradeRead
    <2>3. CASE ~Reviewable(k)
      BY <1>2, <1>5, <2>1, <2>3, AnswerOK DEF GradeRead
    <2> QED
      BY <2>2, <2>3
  <1>6. CASE GradeClash(c) \/ Fail(c)
    <2>1. Answer(c, "error") /\ calls[c].pc # "idle" /\ crossed' = crossed
      BY <1>6 DEF GradeClash, Fail, At
    <2> QED
      BY <1>2, <2>1, AnswerOK
  <1>7. ASSUME NEW grade \in Grades, Grade(c, grade)
        PROVE  /\ calls' \in [Calls -> ReviewCall]
               /\ \A d \in Calls : CarriesOK(calls'[d])
               /\ crossed' \subseteq Cards
    <2> DEFINE k == sitting.batch[sitting.index]
               call == [Idle EXCEPT !.op = "grade", !.pc = "read", !.at = clock,
                                    !.card = k, !.grade = grade,
                                    !.screen = sitting, !.heard = TRUE]
    <2>1. k \in Cards
      <3>1. sitting # NoSitting
        BY <1>7 DEF Grade
      <3>2. /\ sitting.index \in DOMAIN sitting.batch
            /\ sitting.batch \in Seq(Cards)
        BY <1>1, <3>1 DEF ScreenOK, Sitting
      <3> QED
        BY <3>2
    <2>2. grade \in GradeNames
      BY GradesAssumption
    <2>3. call \in ReviewCall
      BY <1>1, <2>1, <2>2, Constants DEF ReviewCall, Idle
    <2>4. CarriesOK(call)
      BY <1>1, <2>1, Constants DEF CarriesOK, Idle
    <2>5. calls' = [calls EXCEPT ![c] = call]
      BY <1>7 DEF Grade
    <2>6. crossed' \subseteq Cards
      BY <1>2, <1>7, <2>1 DEF Grade
    <2> HIDE DEF call
    <2> QED
      BY <2>3, <2>4, <2>5, <2>6, OneCall
  <1> QED
    BY <1>3, <1>4, <1>5, <1>6, <1>7

(* Turning a card, leaving the screen, a crash and the clock.                *)
LEMMA ReviewEnvironment ==
    ASSUME ReviewInv, Reveal \/ Unmount \/ Crash \/ Tick
    PROVE  ReviewInv'
  <1>1. CASE Reveal
    <2>1. /\ sitting \in Sitting /\ ScreenOK(sitting) /\ sitting # NoSitting
          /\ sitting' = [sitting EXCEPT !.revealed = TRUE]
      BY <1>1 DEF Reveal, ReviewInv, TypesInv
    <2>2. sitting' \in Sitting /\ ScreenOK(sitting')
      BY <2>1 DEF Sitting, ScreenOK
    <2> QED
      BY <1>1, <2>2, QuietStep DEF Reveal, Tables, ReviewInv, TypesInv
  <1>2. CASE Unmount
    <2>1. ASSUME NEW c \in Calls
          PROVE  calls'[c] \in ReviewCall /\ CarriesOK(calls'[c])
      <3>1. calls[c] \in ReviewCall /\ CarriesOK(calls[c])
        BY DEF ReviewInv, TypesInv
      <3>2. calls'[c] = [calls[c] EXCEPT !.heard = FALSE, !.screen = NoSitting]
        BY <1>2 DEF Unmount
      <3> QED
        BY <3>1, <3>2, Constants DEF ReviewCall, CarriesOK
    <2>2. calls' \in [Calls -> ReviewCall]
      BY <1>2, <2>1 DEF Unmount
    <2> QED
      BY <1>2, <2>1, <2>2, QuietStep, Constants
         DEF Unmount, Tables, ReviewInv, TypesInv
  <1>3. CASE Crash
    <2>1. CarriesOK(Idle)
      BY Constants DEF CarriesOK, Idle
    <2>2. /\ calls' \in [Calls -> ReviewCall]
          /\ \A c \in Calls : CarriesOK(calls'[c])
      BY <1>3, <2>1, Constants DEF Crash
    <2> QED
      BY <1>3, <2>2, QuietStep, Constants DEF Crash, Tables, ReviewInv, TypesInv
  <1>4. CASE Tick
    <2>1. clock' \in Time
      BY <1>4, BoundsAssumption DEF Tick, ReviewInv, TypesInv, Time
    <2> QED
      BY <1>4, <2>1, QuietStep DEF Tick, Tables, ReviewInv, TypesInv
  <1> QED
    BY <1>1, <1>2, <1>3, <1>4

(* What one grade's transaction does to the tables.                          *)
LEMMA GradeWrites ==
    ASSUME ReviewInv, NEW c \in Calls, GradeWrite(c)
    PROVE  \E k \in Cards, row \in Review, next \in Card :
              /\ cards' = [cards EXCEPT ![k] = next]
              /\ reviews' = reviews \union {row} /\ row \notin reviews
              /\ k = calls[c].card /\ row.card = k
              /\ cards[k].curation = "kept" /\ next.curation = "kept"
              /\ next.state # "new"
              /\ next.reps = calls[c].seen.reps + 1
              /\ calls[c].seen.reps \in 0..Cardinality(ReviewsOf(k))
              /\ next.last = row.at /\ next.due = row.due
              /\ next.last # cards[k].last
              /\ row.at = calls[c].at /\ row.before = calls[c].seen.state
              /\ next.state = NextState(calls[c].seen.state, row.grade)
              /\ next.lapses = IF Lapsed(calls[c].seen.state, row.grade)
                               THEN calls[c].seen.lapses + 1
                               ELSE calls[c].seen.lapses
  <1> DEFINE k == calls[c].card
             now == calls[c].at
             seen == calls[c].seen
             grade == calls[c].grade
  <1>1. calls[c] \in ReviewCall /\ CarriesOK(calls[c]) /\ At(c, "grade", "write")
    BY DEF GradeWrite, ReviewInv, TypesInv
  <1>2. /\ k \in Cards /\ now \in Time /\ seen \in Card
        /\ grade \in Grades /\ grade \in GradeNames
        /\ seen.state \in FsrsState /\ seen.reps \in Nat
        /\ cards[k].curation = "kept"
        /\ seen.reps <= Cardinality(ReviewsOf(k))
    BY <1>1 DEF ReviewCall, CarriesOK, At, Card
  <1>3. PICK next \in Schedule(seen, grade, now) :
            /\ cards' = [cards EXCEPT ![k] =
                   [next EXCEPT !.curation = cards[k].curation]]
            /\ reviews' = reviews \union
                   {[card |-> k, at |-> now, due |-> next.due,
                     grade |-> grade, before |-> seen.state]}
    BY DEF GradeWrite
  <1>4. /\ next \in Card /\ next.state # "new" /\ next.last = now
        /\ next.reps = seen.reps + 1 /\ next.due \in Later
        /\ next.state = NextState(seen.state, grade)
        /\ next.lapses = IF Lapsed(seen.state, grade) THEN seen.lapses + 1
                                                      ELSE seen.lapses
    BY <1>2, ScheduleFacts
  <1> DEFINE row == [card |-> k, at |-> now, due |-> next.due,
                     grade |-> grade, before |-> seen.state]
             written == [next EXCEPT !.curation = cards[k].curation]
  <1>5. /\ row \in Review /\ row.card = k /\ row.at = now
        /\ row.due = next.due /\ row.grade = grade /\ row.before = seen.state
    BY <1>2, <1>4 DEF Review
  <1>6. \A r \in reviews : ~(r.card = k /\ r.at = now)
    BY DEF GradeWrite, Taken
  <1>7. /\ written \in Card /\ written.state = next.state
        /\ written.last = now /\ written.reps = seen.reps + 1
        /\ written.due = next.due /\ written.curation = "kept"
        /\ written.lapses = next.lapses
    BY <1>2, <1>4 DEF Card
  <1>8. now # cards[k].last
    <2>1. CardOK(k)
      BY <1>2 DEF ReviewInv
    <2>2. CASE cards[k].state = "new"
      BY <1>2, <2>1, <2>2, Constants DEF CardOK
    <2>3. CASE cards[k].state # "new"
      BY <1>6, <2>1, <2>3 DEF CardOK, ReviewsOf
    <2> QED
      BY <2>2, <2>3
  <1>9. seen.reps \in 0..Cardinality(ReviewsOf(k))
    <2>1. Cardinality(ReviewsOf(k)) \in Nat
      BY <1>2, CountedReviews DEF ReviewInv
    <2> QED
      BY <1>2, <2>1
  <1>10. row \notin reviews
    BY <1>5, <1>6
  <1>11. cards' = [cards EXCEPT ![k] = written] /\ reviews' = reviews \union {row}
    BY <1>3
  <1> HIDE DEF row, written
  <1> QED
    BY <1>2, <1>4, <1>5, <1>7, <1>8, <1>9, <1>10, <1>11

(* A grade's transaction keeps the two tables telling one story.             *)
LEMMA ReviewGradeWrite ==
    ASSUME ReviewInv, NEW c \in Calls, GradeWrite(c)
    PROVE  ReviewInv'
  <1>1. PICK k \in Cards, row \in Review, next \in Card :
            /\ cards' = [cards EXCEPT ![k] = next]
            /\ reviews' = reviews \union {row} /\ row \notin reviews
            /\ k = calls[c].card /\ row.card = k
            /\ cards[k].curation = "kept" /\ next.curation = "kept"
            /\ next.state # "new"
            /\ next.reps = calls[c].seen.reps + 1
            /\ calls[c].seen.reps \in 0..Cardinality(ReviewsOf(k))
            /\ next.last = row.at /\ next.due = row.due
            /\ next.last # cards[k].last
    BY GradeWrites
  <1>2. /\ cards \in [Cards -> Card] /\ reviews \subseteq Review
        /\ IsFiniteSet(reviews) /\ TypesInv
    BY DEF ReviewInv, TypesInv
  <1>3. /\ calls' \in [Calls -> ReviewCall]
        /\ \A d \in Calls : CarriesOK(calls'[d])
    <2>1. PICK reply \in {"ok", "error"} : Answer(c, reply)
      BY DEF GradeWrite
    <2>2. calls[c].pc # "idle"
      BY DEF GradeWrite, At
    <2> QED
      BY <2>1, <2>2, AnswerOK
  <1>4. \A j \in Cards : cards'[j] = IF j = k THEN next ELSE cards[j]
    BY <1>1, <1>2
  <1>5. \A j \in Cards : cards'[j].curation = cards[j].curation
    BY <1>1, <1>4
  <1>6. /\ ReviewsOf(k)' = ReviewsOf(k) \union {row} /\ row \notin ReviewsOf(k)
        /\ \A j \in Cards : j # k => ReviewsOf(j)' = ReviewsOf(j)
    BY <1>1 DEF ReviewsOf
  <1>7. /\ Cardinality(ReviewsOf(k)) \in Nat
        /\ Cardinality(ReviewsOf(k)') = Cardinality(ReviewsOf(k)) + 1
    BY <1>2, <1>6, CountedReviews, FS_AddElement
  <1>8. \A j \in Cards :
           /\ Cardinality(ReviewsOf(j)) \in Nat
           /\ Cardinality(ReviewsOf(j)') \in Nat
           /\ Cardinality(ReviewsOf(j)) <= Cardinality(ReviewsOf(j)')
    <2> SUFFICES ASSUME NEW j \in Cards
                 PROVE  /\ Cardinality(ReviewsOf(j)) \in Nat
                        /\ Cardinality(ReviewsOf(j)') \in Nat
                        /\ Cardinality(ReviewsOf(j))
                              <= Cardinality(ReviewsOf(j)')
      OBVIOUS
    <2>1. Cardinality(ReviewsOf(j)) \in Nat
      BY <1>2, CountedReviews
    <2> QED
      BY <1>6, <1>7, <2>1
  <1>9. TypesInv'
    <2>1. IsFiniteSet(reviews')
      BY <1>1, <1>2, FS_AddElement
    <2> QED
      BY <1>1, <1>2, <1>3, <2>1 DEF GradeWrite, TypesInv
  <1>10. \A j \in Cards : CardOK(j)'
    <2> SUFFICES ASSUME NEW j \in Cards PROVE CardOK(j)'
      OBVIOUS
    <2>1. CASE j # k
      <3>1. cards'[j] = cards[j] /\ ReviewsOf(j)' = ReviewsOf(j) /\ CardOK(j)
        BY <1>4, <1>6, <2>1 DEF ReviewInv
      <3> QED
        BY <3>1 DEF CardOK
    <2>2. CASE j = k
      <3>1. cards'[j] = next /\ row \in ReviewsOf(j)'
        BY <1>4, <1>6, <2>2
      <3>2. next.reps \in 1..Cardinality(ReviewsOf(j)')
        BY <1>1, <1>7, <2>2
      <3> QED
        BY <1>1, <3>1, <3>2 DEF CardOK
    <2> QED
      BY <2>1, <2>2
  <1>11. \A r \in reviews' : cards'[r.card].curation = "kept"
    BY <1>1, <1>2, <1>4, <1>5 DEF ReviewInv, Review
  <1>12. ASSUME NEW batch \in Seq(Cards), BatchOK(batch)
         PROVE  /\ \A i \in DOMAIN batch : cards'[batch[i]].curation = "kept"
                /\ Len(batch) <= Limit
                /\ \A i, j \in DOMAIN batch : batch[i] = batch[j] => i = j
    BY <1>5, <1>12 DEF BatchOK
  <1>13. ScreenOK(sitting)'
    <2>1. sitting' = sitting /\ sitting \in Sitting /\ ScreenOK(sitting)
      BY DEF GradeWrite, ReviewInv, TypesInv
    <2>2. sitting.batch \in Seq(Cards)
      BY <2>1 DEF Sitting
    <2> QED
      BY <1>12, <2>1, <2>2 DEF ScreenOK, BatchOK
  <1>14. ASSUME NEW d \in Calls PROVE CarriesOK(calls[d])'
    <2>1. calls'[d] \in ReviewCall /\ CarriesOK(calls'[d])
      BY <1>3
    <2>2. calls'[d].batch \in Seq(Cards) /\ calls'[d].screen.batch \in Seq(Cards)
      BY <2>1 DEF ReviewCall, Sitting
    <2>3. /\ BatchOK(calls[d].batch)' /\ ScreenOK(calls[d].screen)'
      BY <1>12, <2>1, <2>2 DEF CarriesOK, ScreenOK, BatchOK
    <2>4. ASSUME calls'[d].op = "grade", calls'[d].pc = "write"
          PROVE  /\ cards'[calls'[d].card].curation = "kept"
                 /\ calls'[d].seen.reps
                       <= Cardinality(ReviewsOf(calls[d].card)')
      <3>1. PICK j \in Cards : j = calls'[d].card
        BY <2>1, <2>4 DEF CarriesOK
      <3>2. /\ cards[j].curation = "kept"
            /\ calls'[d].seen.reps <= Cardinality(ReviewsOf(j))
            /\ calls'[d].seen.reps \in Nat
        BY <2>1, <2>4, <3>1 DEF CarriesOK, ReviewCall, Card
      <3>3. calls'[d].seen.reps <= Cardinality(ReviewsOf(j)')
        BY <1>8, <3>2
      <3>4. ReviewsOf(j)' = ReviewsOf(calls[d].card)'
        BY <3>1 DEF ReviewsOf
      <3> QED
        BY <1>5, <3>1, <3>2, <3>3, <3>4
    <2> QED
      BY <2>1, <2>3, <2>4 DEF CarriesOK
  <1> QED
    BY <1>9, <1>10, <1>11, <1>13, <1>14 DEF ReviewInv

(* Every step keeps the invariant.                                           *)
LEMMA ReviewNext == ReviewInv /\ [Next]_reviewVars => ReviewInv'
  <1> SUFFICES ASSUME ReviewInv, [Next]_reviewVars PROVE ReviewInv'
    OBVIOUS
  <1>1. CASE UNCHANGED reviewVars
    BY <1>1, QuietStep DEF reviewVars, ReviewInv, TypesInv
  <1> QED
    BY <1>1, ReviewQuiet, ReviewDeliver, ReviewGradeWrite, ReviewEnvironment
       DEF Next

(* The inductive invariant of the review: types, the two tables telling one  *)
(* story, every screen and answer in order, whatever grades, answers, exits  *)
(* and crashes come in which order.                                          *)
THEOREM ReviewInvariant == Spec => []ReviewInv
  BY ReviewInit, ReviewNext, PTL DEF Spec

(* Type correctness of the review.                                           *)
THEOREM ReviewTypes == Spec => []TypeOK
  <1>1. ReviewInv => TypeOK
    BY DEF ReviewInv, TypesInv, TypeOK, ReviewCall, CarriesOK
  <1> QED
    BY <1>1, ReviewInvariant, PTL

(* A card's scheduling state is the outcome of one of its logged reviews and *)
(* counts at most as many as were logged (card_pg.rs apply_review).          *)
THEOREM CardsReflectReviews == Spec => []CardReflectsAReview
  <1>1. ReviewInv => CardReflectsAReview
    BY DEF ReviewInv, CardOK, CardReflectsAReview
  <1> QED
    BY <1>1, ReviewInvariant, PTL

(* Only kept cards have reviews or reach the screen (application/review.rs). *)
THEOREM CurationGate == Spec => []OnlyKeptCardsReviewed
  <1>1. ReviewInv => OnlyKeptCardsReviewed
    BY DEF ReviewInv, ScreenOK, BatchOK, NoSitting, OnlyKeptCardsReviewed
  <1> QED
    BY <1>1, ReviewInvariant, PTL

(* An open sitting has a card to show, of a batch within the limit that      *)
(* holds no card twice (Home.tsx grade, startReview).                        *)
THEOREM SittingAlwaysShows == Spec => []SittingShowsACard
  <1>1. ReviewInv => SittingShowsACard
    BY DEF ReviewInv, ScreenOK, BatchOK, SittingShowsACard
  <1> QED
    BY <1>1, ReviewInvariant, PTL

(* A card moves exactly when a review row of it is added, to what that row   *)
(* says (card_pg.rs apply_review's transaction).                             *)
THEOREM GradesAtomic == Spec => GradesAreAtomic
  <1>1. ReviewInv /\ [Next]_reviewVars =>
           [/\ reviews \subseteq reviews'
            /\ \A k \in Cards :
                  cards'[k] # cards[k] <=>
                     \E r \in reviews' \ reviews :
                         r.card = k /\ cards'[k].last = r.at /\ cards'[k].due = r.due
           ]_<<cards, reviews>>
    <2> SUFFICES ASSUME ReviewInv, [Next]_reviewVars,
                        ~UNCHANGED <<cards, reviews>>
                 PROVE  /\ reviews \subseteq reviews'
                        /\ \A j \in Cards :
                              cards'[j] # cards[j] <=>
                                 \E r \in reviews' \ reviews :
                                     /\ r.card = j /\ cards'[j].last = r.at
                                     /\ cards'[j].due = r.due
      OBVIOUS
    <2>1. PICK c \in Calls : GradeWrite(c)
      BY DEF Next, StartReview, ListDue, Grade, GradeRead, GradeClash, Fail,
             Deliver, Reveal, Unmount, Crash, Tick, Tables, reviewVars
    <2>2. PICK k \in Cards, row \in Review, next \in Card :
              /\ cards' = [cards EXCEPT ![k] = next]
              /\ reviews' = reviews \union {row} /\ row \notin reviews
              /\ row.card = k
              /\ next.last = row.at /\ next.due = row.due
              /\ next.last # cards[k].last
      BY <2>1, GradeWrites
    <2>3. \A j \in Cards : cards'[j] = IF j = k THEN next ELSE cards[j]
      BY <2>2 DEF ReviewInv, TypesInv
    <2> QED
      BY <2>2, <2>3
  <1> QED
    BY <1>1, ReviewInvariant, PTL DEF Spec, GradesAreAtomic

-----------------------------------------------------------------------------
(* Replaying a log.  The library's induction over the naturals cannot be     *)
(* used, its least-element principle can: a recursion that went wrong        *)
(* somewhere would have gone wrong first somewhere.                          *)

(* Every set of naturals with an element has a least one.                    *)
LEMMA LeastNumber ==
    ASSUME NEW T \in SUBSET Nat, T # {}
    PROVE  \E m \in T : \A n \in T : m <= n
  <1>1. IsWellFoundedOn({ss \in Nat \X Nat : ss[1] < ss[2]}, Nat)
    BY NatLessThanWellFounded, Zenon DEF OpToRel
  <1>2. PICK m \in T :
            \A n \in T : ~(<<n, m>> \in {ss \in Nat \X Nat : ss[1] < ss[2]})
    BY <1>1, WFMin, Zenon
  <1>3. ASSUME NEW n \in Nat, n < m
        PROVE  <<n, m>> \in {ss \in Nat \X Nat : ss[1] < ss[2]}
    <2>1. <<n, m>> \in Nat \X Nat /\ <<n, m>>[1] = n /\ <<n, m>>[2] = m
      OBVIOUS
    <2> QED
      BY <1>3, <2>1, Zenon
  <1>4. \A n \in T : ~(n < m)
    BY <1>2, <1>3, Zenon
  <1> QED
    BY <1>4

(* The rows at an instant, and the instants of a replay.                     *)
RowsAt(rows, t) == {r \in rows : r.at = t}
End == MaxTime + 1

(* What the recursion of Replay asks of its solution, up to instant n.       *)
Solves(rows, n, f) ==
    f = [t \in 0..n |->
            IF t = 0 THEN Blank
            ELSE Resumed(f[t - 1], {r \in rows : r.at = t - 1})]

(* The recursion has a solution up to every instant: the least one without   *)
(* would follow an instant whose solution extends to it.                     *)
LEMMA Solvable ==
    ASSUME NEW rows, NEW n \in Nat
    PROVE  \E f : Solves(rows, n, f)
  <1> DEFINE T == {m \in Nat : ~\E f : Solves(rows, m, f)}
  <1>1. SUFFICES ASSUME T # {} PROVE FALSE
    OBVIOUS
  <1>2. PICK m \in T : \A j \in T : m <= j
    <2>1. T \in SUBSET Nat
      OBVIOUS
    <2> HIDE DEF T
    <2> QED
      BY <1>1, <2>1, LeastNumber
  <1>3. m \in Nat /\ ~\E f : Solves(rows, m, f)
    BY <1>2
  <1>4. m # 0
    <2> DEFINE f == [t \in 0..0 |-> Blank]
    <2>1. Solves(rows, 0, f)
      BY DEF Solves
    <2> QED
      BY <1>3, <2>1
  <1>5. PICK f : Solves(rows, m - 1, f)
    <2>1. m - 1 \in Nat /\ m - 1 \notin T
      BY <1>2, <1>3, <1>4
    <2> QED
      BY <2>1
  <1> DEFINE g == [t \in 0..m |->
                     IF t = m THEN Resumed(f[m - 1], RowsAt(rows, m - 1))
                     ELSE f[t]]
  <1>6. \A t \in 0..(m - 1) :
           f[t] = IF t = 0 THEN Blank ELSE Resumed(f[t - 1], RowsAt(rows, t - 1))
    <2>1. f = [t \in 0..(m - 1) |->
                 IF t = 0 THEN Blank
                 ELSE Resumed(f[t - 1], RowsAt(rows, t - 1))]
      BY <1>5, Zenon DEF Solves, RowsAt
    <2> DEFINE F(t) == IF t = 0 THEN Blank
                       ELSE Resumed(f[t - 1], RowsAt(rows, t - 1))
    <2>2. f = [t \in 0..(m - 1) |-> F(t)]
      BY <2>1, Zenon
    <2> HIDE DEF F
    <2>3. \A t \in 0..(m - 1) : f[t] = F(t)
      BY <2>2, Zenon
    <2> QED
      BY <2>3, Zenon DEF F
  <1>7. \A t \in 0..m :
           g[t] = IF t = 0 THEN Blank ELSE Resumed(g[t - 1], RowsAt(rows, t - 1))
    <2> SUFFICES ASSUME NEW t \in 0..m
                 PROVE  g[t] = IF t = 0 THEN Blank
                               ELSE Resumed(g[t - 1], RowsAt(rows, t - 1))
      OBVIOUS
    <2>1. CASE t = m
      <3>1. g[t] = Resumed(f[m - 1], RowsAt(rows, m - 1))
        BY <2>1
      <3>2. g[m - 1] = f[m - 1]
        BY <1>3, <1>4
      <3> HIDE DEF g
      <3> QED
        BY <1>4, <2>1, <3>1, <3>2
    <2>2. CASE t # m
      <3>1. t \in 0..(m - 1) /\ g[t] = f[t]
        BY <1>3, <2>2
      <3>2. t # 0 => g[t - 1] = f[t - 1]
        BY <1>3, <3>1
      <3> HIDE DEF g
      <3> QED
        BY <1>6, <3>1, <3>2
    <2> QED
      BY <2>1, <2>2
  <1>8. Solves(rows, m, g)
    <2> DEFINE G(t) == IF t = 0 THEN Blank
                       ELSE Resumed(g[t - 1], RowsAt(rows, t - 1))
    <2>1. \A t \in 0..m : g[t] = G(t)
      BY <1>7, Zenon DEF G
    <2>2. g = [t \in 0..m |-> g[t]]
      BY Zenon
    <2> HIDE DEF g, G
    <2>3. g = [t \in 0..m |-> G(t)]
      BY <2>1, <2>2, Zenon
    <2> QED
      BY <2>3, Zenon DEF G, Solves, RowsAt
  <1> QED
    BY <1>3, <1>8

(* Replay starts blank and takes the rows of one instant after another.      *)
LEMMA ReplaySteps ==
    ASSUME NEW rows
    PROVE  /\ Replay(rows)[0] = Blank
           /\ \A t \in 0..MaxTime :
                 Replay(rows)[t + 1] = Resumed(Replay(rows)[t], RowsAt(rows, t))
  <1>1. Replay(rows) = CHOOSE f : Solves(rows, End, f)
    BY Zenon DEF Replay, Solves, End
  <1>2. PICK f : f = Replay(rows)
    OBVIOUS
  <1>3. Solves(rows, End, f)
    <2>1. End \in Nat
      BY BoundsAssumption DEF End
    <2>2. \E h : Solves(rows, End, h)
      BY <2>1, Solvable
    <2> QED
      BY <1>1, <1>2, <2>2, Zenon
  <1> DEFINE F(t) == IF t = 0 THEN Blank
                     ELSE Resumed(f[t - 1], RowsAt(rows, t - 1))
  <1>4. f = [t \in 0..End |-> F(t)]
    BY <1>3, Zenon DEF Solves, RowsAt
  <1> HIDE DEF F
  <1>5. \A t \in 0..End : f[t] = F(t)
    BY <1>4, Zenon
  <1>6. f[0] = Blank
    BY <1>5, BoundsAssumption DEF F, End
  <1>7. ASSUME NEW t \in 0..MaxTime
        PROVE  f[t + 1] = Resumed(f[t], RowsAt(rows, t))
    <2>1. t + 1 \in 0..End /\ t + 1 # 0 /\ (t + 1) - 1 = t
      BY BoundsAssumption DEF End
    <2> QED
      BY <1>5, <2>1 DEF F
  <1> QED
    BY <1>2, <1>6, <1>7

(* Rows from n on do not show in a replay up to n.                           *)
LEMMA ReplayAgrees ==
    ASSUME NEW rows, NEW more, NEW n \in 0..End,
           \A t \in 0..MaxTime : t < n => RowsAt(rows, t) = RowsAt(more, t)
    PROVE  \A t \in 0..n : Replay(more)[t] = Replay(rows)[t]
  <1> DEFINE T == {t \in 0..n : Replay(more)[t] # Replay(rows)[t]}
  <1>1. SUFFICES ASSUME T # {} PROVE FALSE
    OBVIOUS
  <1>2. PICK m \in T : \A j \in T : m <= j
    <2>1. T \in SUBSET Nat
      OBVIOUS
    <2> HIDE DEF T
    <2> QED
      BY <1>1, <2>1, LeastNumber
  <1>3. m \in 0..n /\ Replay(more)[m] # Replay(rows)[m]
    BY <1>2
  <1>4. m # 0
    BY <1>3, ReplaySteps
  <1>5. PICK t \in 0..MaxTime : m = t + 1
    <2>1. m - 1 \in 0..MaxTime /\ m = (m - 1) + 1
      BY <1>3, <1>4, BoundsAssumption DEF End
    <2> QED
      BY <2>1
  <1>6. t < n /\ t \in 0..n /\ t < m
    BY <1>3, <1>5, BoundsAssumption DEF End
  <1>7. Replay(more)[t] = Replay(rows)[t]
    <2>1. t \notin T
      BY <1>2, <1>3, <1>6
    <2> QED
      BY <1>6, <2>1
  <1>8. RowsAt(rows, t) = RowsAt(more, t)
    BY <1>6
  <1>9. /\ Replay(more)[m] = Resumed(Replay(more)[t], RowsAt(more, t))
        /\ Replay(rows)[m] = Resumed(Replay(rows)[t], RowsAt(rows, t))
    BY <1>5, ReplaySteps
  <1> QED
    BY <1>3, <1>7, <1>8, <1>9, Zenon

(* Without rows from n on a replay stays where it is.                        *)
LEMMA ReplayRests ==
    ASSUME NEW rows, NEW n \in 0..End,
           \A t \in 0..MaxTime : n <= t => RowsAt(rows, t) = {}
    PROVE  \A t \in n..End : Replay(rows)[t] = Replay(rows)[n]
  <1> DEFINE T == {t \in n..End : Replay(rows)[t] # Replay(rows)[n]}
  <1>1. SUFFICES ASSUME T # {} PROVE FALSE
    OBVIOUS
  <1>2. PICK m \in T : \A j \in T : m <= j
    <2>1. T \in SUBSET Nat
      BY BoundsAssumption DEF End
    <2> HIDE DEF T
    <2> QED
      BY <1>1, <2>1, LeastNumber
  <1>3. m \in n..End /\ Replay(rows)[m] # Replay(rows)[n]
    BY <1>2
  <1>4. m # n
    BY <1>3
  <1>5. PICK t \in 0..MaxTime : m = t + 1
    <2>1. m - 1 \in 0..MaxTime /\ m = (m - 1) + 1
      BY <1>3, <1>4, BoundsAssumption DEF End
    <2> QED
      BY <2>1
  <1>6. n <= t /\ t \in n..End /\ t < m
    BY <1>3, <1>4, <1>5, BoundsAssumption DEF End
  <1>7. Replay(rows)[t] = Replay(rows)[n]
    <2>1. t \notin T
      BY <1>2, <1>3, <1>6, BoundsAssumption DEF End
    <2> QED
      BY <1>6, <2>1
  <1>8. Replay(rows)[m] = Resumed(Replay(rows)[t], RowsAt(rows, t))
    BY <1>5, ReplaySteps
  <1>9. Replay(rows)[m] = Replay(rows)[t]
    BY <1>6, <1>8 DEF Resumed
  <1> QED
    BY <1>3, <1>7, <1>9

-----------------------------------------------------------------------------
(* Cards whose grades never crossed: a step keeps the story of their log. *)

(* The log of a card tells its whole story.                                  *)
Told(k) ==
    LET card == Replay(ReviewsOf(k)) IN
    /\ card[End] = [state |-> cards[k].state, reps |-> cards[k].reps,
                    lapses |-> cards[k].lapses]
    /\ \A r \in ReviewsOf(k) :
          r.before = card[r.at].state /\ r.at <= cards[k].last

(* No more than one grade of the card is in flight, it came after the last   *)
(* one, and what it read of the card still holds.                            *)
Alone(k) ==
    /\ cards[k].last <= clock
    /\ \A c \in GradesInFlight(k) :
          /\ \A d \in GradesInFlight(k) : c = d
          /\ cards[k].last <= calls[c].at /\ calls[c].at <= clock
          /\ calls[c].pc = "write" => calls[c].seen = cards[k]

(* The inductive invariant, on top of ReviewInv.                             *)
UncrossedInv == \A k \in Cards \ crossed : Told(k) /\ Alone(k)

(* Initially nothing is logged, and the replay of nothing is blank.          *)
LEMMA UncrossedInit == Init => UncrossedInv
  <1> SUFFICES ASSUME Init, NEW k \in Cards PROVE Told(k) /\ Alone(k)
    BY DEF UncrossedInv
  <1>1. /\ cards[k].state = "new" /\ cards[k].reps = 0 /\ cards[k].lapses = 0
        /\ cards[k].last = -1
    <2>1. cards[k] \in {[Unseen EXCEPT !.curation = "kept", !.due = 0],
                       [Unseen EXCEPT !.curation = "kept"],
                       [Unseen EXCEPT !.curation = "killed", !.due = 0]}
      BY DEF Init
    <2> QED
      BY <2>1 DEF Unseen, Null
  <1>2. ReviewsOf(k) = {}
    BY DEF Init, ReviewsOf
  <1>3. Replay({})[End] = Blank
    <2>1. \A t \in 0..MaxTime : RowsAt({}, t) = {}
      BY DEF RowsAt
    <2>2. 0 \in 0..End /\ End \in 0..End
      BY BoundsAssumption DEF End
    <2>3. Replay({})[End] = Replay({})[0]
      BY <2>1, <2>2, ReplayRests
    <2> QED
      BY <2>3, ReplaySteps
  <1>4. Told(k)
    BY <1>1, <1>2, <1>3 DEF Told, Blank
  <1>5. GradesInFlight(k) = {} /\ clock = 0
    BY DEF Init, GradesInFlight, Idle
  <1> QED
    BY <1>1, <1>4, <1>5 DEF Alone

(* A step that leaves the tables alone, adds no grade in flight and keeps    *)
(* what those in flight know.                                                *)
LEMMA UncrossedQuiet ==
    ASSUME ReviewInv, UncrossedInv, UNCHANGED <<cards, reviews>>,
           crossed \subseteq crossed', clock' \in Time, clock <= clock',
           NEW k \in Cards \ crossed',
           \A c \in GradesInFlight(k)' :
              /\ c \in GradesInFlight(k) /\ calls'[c].at = calls[c].at
              /\ calls'[c].pc = "write" =>
                    \/ calls'[c].seen = cards[k]
                    \/ calls[c].pc = "write" /\ calls'[c].seen = calls[c].seen
    PROVE  Told(k)' /\ Alone(k)'
  <1>1. k \in Cards \ crossed /\ Told(k) /\ Alone(k)
    BY DEF UncrossedInv
  <1>2. Told(k)'
    BY <1>1 DEF Told, ReviewsOf
  <1>3. /\ cards[k].last \in Int /\ clock \in Int /\ clock' \in Int
    BY <1>1, Constants DEF ReviewInv, TypesInv, Card, Null
  <1>4. cards'[k].last <= clock'
    BY <1>1, <1>3 DEF Alone
  <1>5. ASSUME NEW c \in GradesInFlight(k)'
        PROVE  /\ \A d \in GradesInFlight(k)' : c = d
               /\ cards'[k].last <= calls'[c].at /\ calls'[c].at <= clock'
               /\ calls'[c].pc = "write" => calls'[c].seen = cards'[k]
    <2>1. c \in GradesInFlight(k) /\ c \in Calls
      BY DEF GradesInFlight
    <2>2. calls[c].at \in Int
      BY <2>1, Constants DEF ReviewInv, TypesInv, ReviewCall
    <2>3. /\ cards[k].last <= calls[c].at /\ calls[c].at <= clock
          /\ calls[c].pc = "write" => calls[c].seen = cards[k]
          /\ \A d \in GradesInFlight(k) : c = d
      BY <1>1, <2>1 DEF Alone
    <2> QED
      BY <1>3, <2>1, <2>2, <2>3
  <1> QED
    BY <1>2, <1>4, <1>5 DEF Alone

(* Putting another call in the place of one.                                 *)
LEMMA Replaced ==
    ASSUME ReviewInv, NEW c \in Calls, NEW call,
           calls' = [calls EXCEPT ![c] = call]
    PROVE  /\ \A d \in Calls : calls'[d] = IF d = c THEN call ELSE calls[d]
           /\ ~(call.op = "grade" /\ call.pc \in {"read", "write"}) =>
                 \A k \in Cards :
                    \A d \in GradesInFlight(k)' :
                       d \in GradesInFlight(k) /\ calls'[d] = calls[d]
  <1>1. \A d \in Calls : calls'[d] = IF d = c THEN call ELSE calls[d]
    BY DEF ReviewInv, TypesInv
  <1> QED
    BY <1>1 DEF GradesInFlight

(* The steps that neither start a grade nor write one.                       *)
LEMMA UncrossedOthers ==
    ASSUME ReviewInv, UncrossedInv,
           \/ \E c \in Calls :
                 \/ StartReview(c) \/ ListDue(c) \/ GradeRead(c)
                 \/ GradeClash(c) \/ Fail(c) \/ Deliver(c)
           \/ Reveal \/ Unmount \/ Crash \/ Tick
    PROVE  UncrossedInv'
  <1>1. /\ UNCHANGED <<cards, reviews, crossed>>
        /\ clock' \in Time /\ clock <= clock'
    <2>1. clock \in Time /\ clock \in Int
      BY Constants DEF ReviewInv, TypesInv
    <2>2. clock' = clock \/ Tick
      BY DEF StartReview, ListDue, GradeRead, GradeClash, Fail, Deliver,
             Reveal, Unmount, Crash
    <2>3. clock' \in Time /\ clock <= clock'
      BY <2>1, <2>2, BoundsAssumption DEF Tick, Time
    <2> QED
      BY <2>3 DEF StartReview, ListDue, GradeRead, GradeClash, Fail, Deliver,
                  Reveal, Unmount, Crash, Tick, Tables, Answer
  <1> SUFFICES ASSUME NEW k \in Cards \ crossed', NEW d \in GradesInFlight(k)'
               PROVE  /\ d \in GradesInFlight(k) /\ calls'[d].at = calls[d].at
                      /\ calls'[d].pc = "write" =>
                            \/ calls'[d].seen = cards[k]
                            \/ /\ calls[d].pc = "write"
                               /\ calls'[d].seen = calls[d].seen
    BY <1>1, UncrossedQuiet DEF UncrossedInv
  <1> DEFINE Kept == d \in GradesInFlight(k) /\ calls'[d] = calls[d]
             Aware == /\ d \in GradesInFlight(k) /\ calls'[d].at = calls[d].at
                      /\ calls'[d].pc = "write" =>
                            \/ calls'[d].seen = cards[k]
                            \/ /\ calls[d].pc = "write"
                               /\ calls'[d].seen = calls[d].seen
  <1>2. ASSUME Kept PROVE Aware
    BY <1>2
  <1>3. d \in Calls
    BY DEF GradesInFlight
  <1>4. ASSUME NEW c \in Calls,
               StartReview(c)
        PROVE  Aware
    <2> DEFINE call == [Idle EXCEPT !.op = "list", !.pc = "read", !.at = clock,
                                    !.heard = TRUE]
    <2>1. calls' = [calls EXCEPT ![c] = call] /\ call.op = "list"
      BY <1>4 DEF StartReview, Idle
    <2> HIDE DEF call
    <2> QED
      BY <1>2, <2>1, Replaced
  <1>5. ASSUME NEW c \in Calls, NEW reply, NEW batch,
               calls' = [calls EXCEPT ![c] = Replied(calls[c], reply, batch)]
        PROVE  Kept
    <2>1. Replied(calls[c], reply, batch).pc = "replied"
      BY DEF Replied, Idle
    <2> QED
      BY <1>5, <2>1, Replaced
  <1>6. ASSUME NEW c \in Calls,
               ListDue(c)
        PROVE  Aware
    <2>1. PICK batch : calls' = [calls EXCEPT ![c] =
                                    Replied(calls[c], "ok", batch)]
      BY <1>6 DEF ListDue
    <2> QED
      BY <1>2, <1>5, <2>1
  <1>7. ASSUME NEW c \in Calls,
               \/ GradeClash(c) \/ Fail(c)
               \/ GradeRead(c) /\ ~Reviewable(calls[c].card)
        PROVE  Aware
    <2>1. calls' = [calls EXCEPT ![c] = Replied(calls[c], "error", <<>>)]
      BY <1>7 DEF GradeClash, Fail, GradeRead, Answer
    <2> QED
      BY <1>2, <1>5, <2>1
  <1>8. ASSUME NEW c \in Calls,
               GradeRead(c) /\ Reviewable(calls[c].card)
        PROVE  Aware
    <2> DEFINE call == [calls[c] EXCEPT !.pc = "write",
                                        !.seen = cards[calls[c].card]]
    <2>1. calls' = [calls EXCEPT ![c] = call]
      BY <1>8 DEF GradeRead
    <2>2. calls[c] \in ReviewCall /\ At(c, "grade", "read")
      BY <1>8 DEF GradeRead, ReviewInv, TypesInv
    <2>3. /\ call.op = "grade" /\ call.card = calls[c].card
          /\ call.at = calls[c].at /\ call.seen = cards[calls[c].card]
      BY <2>2 DEF ReviewCall, At
    <2> HIDE DEF call
    <2>4. \A e \in Calls : calls'[e] = IF e = c THEN call ELSE calls[e]
      BY <2>1, Replaced
    <2>5. CASE d # c
      BY <1>2, <1>3, <2>4, <2>5 DEF GradesInFlight
    <2>6. CASE d = c
      <3>1. calls'[d] = call /\ calls'[d].card = k
        BY <1>3, <2>4, <2>6 DEF GradesInFlight
      <3> QED
        BY <1>3, <2>2, <2>3, <2>6, <3>1 DEF GradesInFlight, At
    <2> QED
      BY <2>5, <2>6
  <1>9. ASSUME NEW c \in Calls,
               Deliver(c)
        PROVE  Aware
    <2>1. calls' = [calls EXCEPT ![c] = Idle] /\ Idle.op = "none"
      BY <1>9 DEF Deliver, Idle
    <2> QED
      BY <1>2, <2>1, Replaced
  <1>10. ASSUME Reveal \/ Tick PROVE Aware
    <2>1. calls' = calls
      BY <1>10 DEF Reveal, Tick
    <2> QED
      BY <1>2, <2>1 DEF GradesInFlight
  <1>11. ASSUME Unmount PROVE Aware
    <2>1. calls'[d] = [calls[d] EXCEPT !.heard = FALSE, !.screen = NoSitting]
      BY <1>3, <1>11 DEF Unmount
    <2>2. calls[d] \in ReviewCall
      BY <1>3 DEF ReviewInv, TypesInv
    <2>3. /\ calls'[d].op = calls[d].op /\ calls'[d].pc = calls[d].pc
          /\ calls'[d].card = calls[d].card /\ calls'[d].at = calls[d].at
          /\ calls'[d].seen = calls[d].seen
      BY <2>1, <2>2 DEF ReviewCall
    <2>4. d \in GradesInFlight(k)
      BY <1>3, <2>3, Zenon DEF GradesInFlight
    <2> QED
      BY <2>3, <2>4, Zenon
  <1>12. ASSUME Crash PROVE Aware
    BY <1>3, <1>12 DEF Crash, GradesInFlight, Idle
  <1> HIDE DEF Aware
  <1>13. Aware
    BY <1>4, <1>6, <1>7, <1>8, <1>9, <1>10, <1>11, <1>12, Zenon
  <1> QED
    BY <1>13 DEF Aware

(* The button of a card: the grade is alone, or the cards crossed.           *)
LEMMA UncrossedGrade ==
    ASSUME ReviewInv, UncrossedInv, NEW c \in Calls, NEW grade \in Grades,
           Grade(c, grade)
    PROVE  UncrossedInv'
  <1> DEFINE j == sitting.batch[sitting.index]
             call == [Idle EXCEPT !.op = "grade", !.pc = "read", !.at = clock,
                                  !.card = j, !.grade = grade,
                                  !.screen = sitting, !.heard = TRUE]
  <1>1. /\ UNCHANGED <<cards, reviews, clock>>
        /\ calls' = [calls EXCEPT ![c] = call]
        /\ crossed' = IF GradesInFlight(j) = {} THEN crossed
                      ELSE crossed \union {j}
    BY DEF Grade, Tables
  <1>2. /\ call.op = "grade" /\ call.pc = "read" /\ call.card = j
        /\ call.at = clock
    BY DEF Idle
  <1>3. \A d \in Calls : calls'[d] = IF d = c THEN call ELSE calls[d]
    BY <1>1, Replaced
  <1>4. crossed \subseteq crossed' /\ clock \in Time /\ clock \in Int
    BY <1>1, Constants DEF ReviewInv, TypesInv
  <1> HIDE DEF call
  <1> SUFFICES ASSUME NEW k \in Cards \ crossed' PROVE Told(k)' /\ Alone(k)'
    BY DEF UncrossedInv
  <1>5. k \in Cards \ crossed /\ Told(k) /\ Alone(k)
    BY <1>4 DEF UncrossedInv
  <1>6. CASE k # j
    <2>1. ASSUME NEW d \in GradesInFlight(k)'
          PROVE  d \in GradesInFlight(k) /\ calls'[d] = calls[d]
      BY <1>2, <1>3, <1>6 DEF GradesInFlight
    <2> QED
      BY <1>1, <1>4, <2>1, UncrossedQuiet
  <1>7. CASE k = j
    <2>1. GradesInFlight(j) = {}
      BY <1>1, <1>7
    <2>2. ASSUME NEW d \in GradesInFlight(k)' PROVE d = c
      BY <1>3, <1>7, <2>1 DEF GradesInFlight
    <2>3. Told(k)'
      BY <1>1, <1>5 DEF Told, ReviewsOf
    <2>4. cards[k].last <= clock
      BY <1>5 DEF Alone
    <2>5. calls'[c] = call
      BY <1>3
    <2>6. Alone(k)'
      BY <1>1, <1>2, <1>4, <2>2, <2>4, <2>5 DEF Alone
    <2> QED
      BY <2>3, <2>6
  <1> QED
    BY <1>6, <1>7

(* One more row, later than all, resumes the replay of the others.           *)
LEMMA ReplayOneMore ==
    ASSUME NEW rows, NEW row, NEW now \in Time, row.at = now,
           \A r \in rows : r.at \in Int /\ r.at < now
    PROVE  /\ \A t \in 0..now : Replay(rows \union {row})[t] = Replay(rows)[t]
           /\ Replay(rows)[now] = Replay(rows)[End]
           /\ Replay(rows \union {row})[End] = Resumed(Replay(rows)[End], {row})
  <1> DEFINE more == rows \union {row}
  <1>1. /\ now \in 0..End /\ now \in Nat /\ now <= MaxTime /\ End \in Nat
        /\ End = MaxTime + 1 /\ MaxTime \in Nat /\ now + 1 \in 0..End
    BY BoundsAssumption DEF Time, End
  <1>2. \A t \in 0..MaxTime : t < now => RowsAt(rows, t) = RowsAt(more, t)
    BY <1>1 DEF RowsAt
  <1>3. \A t \in 0..MaxTime : now <= t => RowsAt(rows, t) = {}
    BY <1>1 DEF RowsAt
  <1>4. \A t \in 0..MaxTime : now + 1 <= t => RowsAt(more, t) = {}
    BY <1>1 DEF RowsAt
  <1>5. RowsAt(more, now) = {row}
    BY <1>1 DEF RowsAt
  <1> HIDE DEF more
  <1>6. \A t \in 0..now : Replay(more)[t] = Replay(rows)[t]
    BY <1>1, <1>2, ReplayAgrees
  <1>7. Replay(rows)[End] = Replay(rows)[now]
    <2>1. End \in now..End
      BY <1>1
    <2> QED
      BY <1>1, <1>3, <2>1, ReplayRests
  <1>8. Replay(more)[End] = Replay(more)[now + 1]
    <2>1. End \in (now + 1)..End
      BY <1>1
    <2> QED
      BY <1>1, <1>4, <2>1, ReplayRests
  <1>9. Replay(more)[now + 1] = Resumed(Replay(more)[now], {row})
    <2>1. now \in 0..MaxTime
      BY <1>1
    <2> QED
      BY <1>5, <2>1, ReplaySteps
  <1>10. Replay(more)[now] = Replay(rows)[now]
    BY <1>1, <1>6
  <1> QED
    BY <1>6, <1>7, <1>8, <1>9, <1>10 DEF more

(* The transaction of an uncrossed grade adds one row, the last.             *)
LEMMA UncrossedWrite ==
    ASSUME ReviewInv, UncrossedInv, NEW c \in Calls, GradeWrite(c)
    PROVE  UncrossedInv'
  <1>1. PICK j \in Cards, row \in Review, next \in Card :
            /\ cards' = [cards EXCEPT ![j] = next]
            /\ reviews' = reviews \union {row} /\ row \notin reviews
            /\ j = calls[c].card /\ row.card = j
            /\ next.last = row.at /\ next.last # cards[j].last
            /\ row.at = calls[c].at
            /\ row.before = calls[c].seen.state
            /\ next.state = NextState(calls[c].seen.state, row.grade)
            /\ next.reps = calls[c].seen.reps + 1
            /\ next.lapses = IF Lapsed(calls[c].seen.state, row.grade)
                             THEN calls[c].seen.lapses + 1
                             ELSE calls[c].seen.lapses
    BY GradeWrites
  <1>2. PICK reply \in {"ok", "error"} :
            calls' = [calls EXCEPT ![c] = Replied(calls[c], reply, <<>>)]
    BY DEF GradeWrite, Answer
  <1>3. crossed' = crossed /\ clock' = clock
    BY DEF GradeWrite
  <1>4. \A k \in Cards : \A d \in GradesInFlight(k)' :
           /\ d \in GradesInFlight(k) /\ d # c /\ calls'[d] = calls[d]
    <2>1. Replied(calls[c], reply, <<>>).pc = "replied"
      BY DEF Replied, Idle
    <2>2. calls'[c].pc = "replied"
      <3>1. calls \in [Calls -> ReviewCall]
        BY DEF ReviewInv, TypesInv
      <3> QED
        BY <1>2, <2>1, <3>1
    <2> QED
      BY <1>2, <2>1, <2>2, Replaced DEF GradesInFlight
  <1>5. \A k \in Cards : cards'[k] = IF k = j THEN next ELSE cards[k]
    BY <1>1 DEF ReviewInv, TypesInv
  <1> SUFFICES ASSUME NEW k \in Cards \ crossed PROVE Told(k)' /\ Alone(k)'
    BY <1>3 DEF UncrossedInv
  <1>6. Told(k) /\ Alone(k)
    BY DEF UncrossedInv
  <1>7. CASE k # j
    <2>1. cards'[k] = cards[k] /\ ReviewsOf(k)' = ReviewsOf(k)
      BY <1>1, <1>5, <1>7 DEF ReviewsOf
    <2>2. Told(k)'
      BY <1>6, <2>1 DEF Told
    <2>3. Alone(k)'
      BY <1>3, <1>4, <1>6, <2>1 DEF Alone
    <2> QED
      BY <2>2, <2>3
  <1>8. CASE k = j
    <2> DEFINE rows == ReviewsOf(k)
    <2>1. c \in GradesInFlight(k) /\ calls[c].pc = "write"
      BY <1>1, <1>8 DEF GradesInFlight, GradeWrite, At
    <2>2. GradesInFlight(k)' = {}
      BY <1>4, <1>6, <2>1 DEF Alone
    <2>3. /\ cards[k].last <= calls[c].at /\ calls[c].at <= clock
          /\ calls[c].seen = cards[k]
      BY <1>6, <2>1 DEF Alone
    <2>4. row.at \in Time /\ row.at \in Int /\ cards[k].last \in Int
      <3>1. row.at \in Time
        BY DEF Review
      <3>2. cards[k].last \in Time \union {Null}
        BY DEF ReviewInv, TypesInv, Card
      <3> QED
        BY <3>1, <3>2, BoundsAssumption DEF Null, Time
    <2>5. cards[k].last < row.at /\ row.at <= clock
      BY <1>1, <1>8, <2>3, <2>4
    <2>6. \A r \in rows : r.at \in Int /\ r.at < row.at
      <3>1. \A r \in rows : r.at \in Int
        BY Constants DEF ReviewsOf, Review, ReviewInv, TypesInv
      <3>2. \A r \in rows : r.at <= cards[k].last
        BY <1>6 DEF Told
      <3> QED
        BY <2>4, <2>5, <3>1, <3>2
    <2>7. ReviewsOf(k)' = rows \union {row} /\ cards'[k] = next
      BY <1>1, <1>5, <1>8 DEF ReviewsOf
    <2>8. /\ \A t \in 0..row.at : Replay(rows \union {row})[t] = Replay(rows)[t]
          /\ Replay(rows)[row.at] = Replay(rows)[End]
          /\ Replay(rows \union {row})[End] = Resumed(Replay(rows)[End], {row})
      BY <2>4, <2>6, ReplayOneMore
    <2>9. Replay(rows)[End] = [state |-> cards[k].state, reps |-> cards[k].reps,
                               lapses |-> cards[k].lapses]
      BY <1>6 DEF Told
    <2>10. PICK card : card = Replay(rows)[End]
      OBVIOUS
    <2>11. /\ card.state = cards[k].state /\ card.reps = cards[k].reps
           /\ card.lapses = cards[k].lapses
      BY <2>9, <2>10
    <2>12. Resumed(card, {row}) =
              [state |-> NextState(card.state, row.grade),
               reps |-> card.reps + 1,
               lapses |-> IF Lapsed(card.state, row.grade)
                          THEN card.lapses + 1 ELSE card.lapses]
      <3>1. (CHOOSE r \in {row} : TRUE) = row /\ {row} # {}
        OBVIOUS
      <3> QED
        BY <3>1, Zenon DEF Resumed
    <2>13. Replay(rows \union {row})[End] =
              [state |-> next.state, reps |-> next.reps, lapses |-> next.lapses]
      BY <1>1, <2>3, <2>8, <2>10, <2>11, <2>12, Zenon
    <2>14. ASSUME NEW r \in rows \union {row}
           PROVE  /\ r.before = Replay(rows \union {row})[r.at].state
                  /\ r.at <= next.last
      <3>1. CASE r = row
        <4>1. row.at \in 0..row.at
          BY <2>4, BoundsAssumption DEF Time
        <4>2. Replay(rows \union {row})[row.at] = card
          BY <2>8, <2>10, <4>1
        <4> QED
          BY <1>1, <2>3, <2>4, <2>11, <3>1, <4>2
      <3>2. CASE r \in rows
        <4>1. r.at \in 0..row.at /\ r.at <= row.at
          <5>1. r.at \in Time
            BY <3>2 DEF ReviewsOf, Review, ReviewInv, TypesInv
          <5> QED
            BY <2>4, <2>6, <3>2, <5>1, BoundsAssumption DEF Time
        <4>2. r.before = Replay(rows)[r.at].state
          BY <1>6, <3>2 DEF Told
        <4> QED
          BY <1>1, <2>8, <4>1, <4>2
      <3> QED
        BY <3>1, <3>2
    <2>15. Told(k)'
      BY <2>7, <2>13, <2>14 DEF Told
    <2>16. Alone(k)'
      BY <1>1, <1>3, <2>2, <2>5, <2>7 DEF Alone
    <2> QED
      BY <2>15, <2>16
  <1> QED
    BY <1>7, <1>8

(* Every step keeps the stories of the uncrossed cards.                      *)
LEMMA UncrossedNext ==
    ReviewInv /\ UncrossedInv /\ [Next]_reviewVars => UncrossedInv'
  <1> SUFFICES ASSUME ReviewInv, UncrossedInv, [Next]_reviewVars
               PROVE  UncrossedInv'
    OBVIOUS
  <1>1. CASE UNCHANGED reviewVars
    BY <1>1 DEF reviewVars, UncrossedInv, Told, Alone, ReviewsOf, GradesInFlight
  <1> QED
    <2>1. \A c \in Calls : GradeWrite(c) => UncrossedInv'
      BY UncrossedWrite
    <2>2. \A c \in Calls : \A grade \in Grades :
             Grade(c, grade) => UncrossedInv'
      BY UncrossedGrade
    <2> QED
      BY <1>1, <2>1, <2>2, UncrossedOthers DEF Next

(* A card whose grades never crossed is what its log replays to, and each    *)
(* row notes the state the rows before it lead to (FsrsScheduler::replay,    *)
(* application/review.rs grade_card).                                        *)
THEOREM LogTellsAll == Spec => []UncrossedGradesAllCount
  <1>1. UncrossedInv => UncrossedGradesAllCount
    BY DEF UncrossedInv, Told, UncrossedGradesAllCount, End
  <1>2. Spec => []UncrossedInv
    BY UncrossedInit, UncrossedNext, ReviewInvariant, PTL DEF Spec
  <1> QED
    BY <1>1, <1>2, PTL
=============================================================================
