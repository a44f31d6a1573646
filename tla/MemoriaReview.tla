--------------------------- MODULE MemoriaReview ---------------------------
(* A review sitting: the Memoria block of the Home screen fetches a batch of *)
(* due cards and grades them one by one, each grade being read, scheduled    *)
(* and written back by the grade_card command.                               *)
(*                                                                           *)
(* Between the read of the card and the transaction that writes it another   *)
(* grade may run; between a click and its answer the screen may move on, as  *)
(* the buttons are not disabled while a command is in flight.                *)
EXTENDS Integers, Sequences, FiniteSets

CONSTANTS
    Cards,          \* card ids
    Calls,          \* command slots
    Grades,         \* the ratings the user gives, among GradeNames
    Limit,          \* the batch limit in force (1..100 after the clamp)
    MaxTime,        \* bound: the clock stops here
    MaxInterval     \* bound: how far ahead a grade schedules

GradeNames == {"again", "hard", "good", "easy"}

ASSUME CardsAssumption == Cards \subseteq Nat /\ IsFiniteSet(Cards)
ASSUME CallsAssumption == IsFiniteSet(Calls)
ASSUME GradesAssumption == Grades \subseteq GradeNames
ASSUME BoundsAssumption ==
    MaxTime \in Nat /\ MaxInterval \in Nat \ {0} /\ Limit \in 1..100

VARIABLES
    cards,          \* table cards
    reviews,        \* table reviews, a set of rows keyed by card and instant
    calls,          \* the command each slot is running
    sitting,        \* the review state of the mounted Home screen
    clock,
    crossed         \* history: cards whose grades were in flight together

reviewVars == <<cards, reviews, calls, sitting, clock, crossed>>

Null == -1          \* SQL NULL in due and last_review_at

Time == 0..MaxTime
Later == 1..(MaxTime + MaxInterval)
FsrsState == {"new", "learning", "review", "relearning"}

Card == [curation : {"draft", "kept", "killed"}, state : FsrsState,
         due : Later \union {0, Null}, last : Time \union {Null},
         reps : Nat, lapses : Nat]

(* A row of reviews: rating, state_before, and the due time that its         *)
(* scheduled_days promise.                                                   *)
Review == [card : Cards, at : Time, due : Later,
           grade : Grades, before : FsrsState]

NoSitting == [batch |-> <<>>, index |-> 0, revealed |-> FALSE]

Unseen == [curation |-> "draft", state |-> "new", due |-> Null, last |-> Null,
           reps |-> 0, lapses |-> 0]

Idle == [op |-> "none", pc |-> "idle", at |-> 0, card |-> Null,
         grade |-> "again", seen |-> Unseen, screen |-> NoSitting,
         batch |-> <<>>, reply |-> "none", heard |-> FALSE]

-----------------------------------------------------------------------------
(* The scheduler (rs-fsrs). *)

NextState(state, grade) ==
    CASE state = "new" -> IF grade = "easy" THEN "review" ELSE "learning"
      [] state \in {"learning", "relearning"} ->
            IF grade \in {"good", "easy"} THEN "review" ELSE state
      [] state = "review" -> IF grade = "again" THEN "relearning" ELSE "review"

Lapsed(state, grade) == state = "review" /\ grade = "again"

(* Mutants of the scheduler: repetitions not counted, ... *)
ScheduleUncounted(seen, grade, now) ==
    {[seen EXCEPT !.state = NextState(seen.state, grade), !.due = now + ahead,
                  !.last = now] : ahead \in 1..MaxInterval}

(* ... or no due time written back. *)
ScheduleUndue(seen, grade, now) ==
    {[seen EXCEPT !.state = NextState(seen.state, grade), !.due = Null,
                  !.last = now, !.reps = @ + 1]}

(* Every card state one grade at now may lead to.                            *)
Schedule(seen, grade, now) ==
    {[seen EXCEPT !.state = NextState(seen.state, grade),
                  !.due = now + ahead,
                  !.last = now,
                  !.reps = @ + 1,
                  !.lapses = IF Lapsed(seen.state, grade) THEN @ + 1 ELSE @] :
        ahead \in 1..MaxInterval}

Blank == [state |-> "new", reps |-> 0, lapses |-> 0]

(* A card after the row found at an instant, if there is one.                *)
Resumed(card, found) ==
    IF found = {} THEN card
    ELSE LET r == CHOOSE r \in found : TRUE IN
         [state |-> NextState(card.state, r.grade),
          reps |-> card.reps + 1,
          lapses |-> IF Lapsed(card.state, r.grade) THEN card.lapses + 1
                                                    ELSE card.lapses]

(* FsrsScheduler::replay: a review history, here the rows of one card, gives *)
(* the card's state back.  Replay(rows)[t] has the rows before time t in it. *)
Replay(rows) ==
    LET after[t \in 0..(MaxTime + 1)] ==
        IF t = 0 THEN Blank
        ELSE Resumed(after[t - 1], {r \in rows : r.at = t - 1})
    IN  after

-----------------------------------------------------------------------------
(* The batch: kept, due, oldest due first, ties by id, at most Limit.        *)

(* Mutant: the batch query without the curation gate. *)
DueUncurated(k, now) == cards[k].due # Null /\ cards[k].due <= now

Due(k, now) ==
    cards[k].curation = "kept" /\ cards[k].due # Null /\ cards[k].due <= now

DueSet(now) == {k \in Cards : Due(k, now)}

Before(j, k) ==
    cards[j].due < cards[k].due \/ (cards[j].due = cards[k].due /\ j < k)

(* ORDER BY due, id LIMIT: as many due cards as fit, in order, and no due    *)
(* card left out is before one of them.                                      *)
BatchSize(now) ==
    IF Cardinality(DueSet(now)) < Limit THEN Cardinality(DueSet(now)) ELSE Limit

DueBatch(batch, now) ==
    /\ \A i, j \in DOMAIN batch : i < j => Before(batch[i], batch[j])
    /\ \A k \in DueSet(now) :
          \/ \E i \in DOMAIN batch : batch[i] = k
          \/ \A i \in DOMAIN batch : Before(batch[i], k)

-----------------------------------------------------------------------------

Init ==
    /\ cards \in [Cards ->
          {[Unseen EXCEPT !.curation = "kept", !.due = 0],
           [Unseen EXCEPT !.curation = "kept"],
           [Unseen EXCEPT !.curation = "killed", !.due = 0]}]
    /\ reviews = {}
    /\ calls = [c \in Calls |-> Idle]
    /\ sitting = NoSitting
    /\ clock = 0
    /\ crossed = {}

At(c, op, pc) == calls[c].op = op /\ calls[c].pc = pc

(* The reply, with what the screen still needs to take it.                   *)
Replied(call, reply, batch) ==
    [Idle EXCEPT !.op = call.op, !.pc = "replied", !.reply = reply,
                 !.batch = batch, !.screen = call.screen, !.heard = call.heard]

Answer(c, reply) ==
    calls' = [calls EXCEPT ![c] = Replied(@, reply, <<>>)]

Tables == <<cards, reviews>>

(* "Review now" is offered while no sitting is open.                         *)
StartReview(c) ==
    /\ calls[c].pc = "idle"
    /\ sitting = NoSitting
    /\ calls' = [calls EXCEPT ![c] =
           [Idle EXCEPT !.op = "list", !.pc = "read", !.at = clock,
                        !.heard = TRUE]]
    /\ UNCHANGED <<Tables, sitting, clock, crossed>>

ListDue(c) ==
    /\ At(c, "list", "read")
    /\ \E batch \in [1..BatchSize(calls[c].at) -> DueSet(calls[c].at)] :
          /\ DueBatch(batch, calls[c].at)
          /\ calls' = [calls EXCEPT ![c] = Replied(@, "ok", batch)]
    /\ UNCHANGED <<Tables, sitting, clock, crossed>>

Reveal ==
    /\ sitting # NoSitting /\ ~sitting.revealed
    /\ sitting' = [sitting EXCEPT !.revealed = TRUE]
    /\ UNCHANGED <<Tables, calls, clock, crossed>>

GradesInFlight(k) ==
    {c \in Calls :
        calls[c].op = "grade" /\ calls[c].card = k /\ calls[c].pc \in {"read", "write"}}

(* A grade button: the handler keeps the sitting it was rendered with.       *)
Grade(c, grade) ==
    LET k == sitting.batch[sitting.index] IN
    /\ calls[c].pc = "idle"
    /\ sitting # NoSitting /\ sitting.revealed
    /\ calls' = [calls EXCEPT ![c] =
           [Idle EXCEPT !.op = "grade", !.pc = "read", !.at = clock,
                        !.card = k, !.grade = grade, !.screen = sitting,
                        !.heard = TRUE]]
    /\ crossed' = IF GradesInFlight(k) = {} THEN crossed ELSE crossed \union {k}
    /\ UNCHANGED <<Tables, sitting, clock>>

(* grade_card reads the card and refuses what is not kept.                   *)
Reviewable(k) == cards[k].curation = "kept"

GradeRead(c) ==
    /\ At(c, "grade", "read")
    /\ IF Reviewable(calls[c].card)
       THEN calls' = [calls EXCEPT ![c] =
                [@ EXCEPT !.pc = "write", !.seen = cards[calls[c].card]]]
       ELSE Answer(c, "error")
    /\ UNCHANGED <<Tables, sitting, clock, crossed>>

(* Mutant: reviews without its UNIQUE constraint. *)
NeverTaken(k, now) == FALSE

(* UNIQUE (card_id, reviewed_at)                                             *)
Taken(k, now) == \E r \in reviews : r.card = k /\ r.at = now

GradeClash(c) ==
    /\ At(c, "grade", "write")
    /\ Taken(calls[c].card, calls[c].at)
    /\ Answer(c, "error")
    /\ UNCHANGED <<Tables, sitting, clock, crossed>>

(* Mutant: the card is updated, its review row is not inserted. *)
GradeUnlogged(c) ==
    /\ At(c, "grade", "write")
    /\ \E next \in Schedule(calls[c].seen, calls[c].grade, calls[c].at) :
          cards' = [cards EXCEPT ![calls[c].card] = next]
    /\ Answer(c, "ok")
    /\ UNCHANGED <<reviews, sitting, clock, crossed>>

(* apply_review: the review row and the whole scheduling state of the card,  *)
(* as computed from the card that was read; the acknowledgement may be lost. *)
GradeWrite(c) ==
    LET k == calls[c].card
        now == calls[c].at
        seen == calls[c].seen
    IN  /\ At(c, "grade", "write")
        /\ ~Taken(k, now)
        /\ \E next \in Schedule(seen, calls[c].grade, now) :
              /\ cards' = [cards EXCEPT ![k] =
                     [next EXCEPT !.curation = cards[k].curation]]
              /\ reviews' = reviews \union
                     {[card |-> k, at |-> now, due |-> next.due,
                       grade |-> calls[c].grade, before |-> seen.state]}
        /\ Answer(c, "ok") \/ Answer(c, "error")
        /\ UNCHANGED <<sitting, clock, crossed>>

Fail(c) ==
    /\ calls[c].pc \in {"read", "write"}
    /\ Answer(c, "error")
    /\ UNCHANGED <<Tables, sitting, clock, crossed>>

(* Mutant: one past the end. *)
AdvancedTooFar(screen) ==
    IF screen.index <= Len(screen.batch)
    THEN [screen EXCEPT !.index = @ + 1, !.revealed = FALSE]
    ELSE NoSitting

(* The screen takes an answer: an error leaves the sitting as it is, a batch *)
(* opens a sitting, a grade moves on from the card it was given on.          *)
Advanced(screen) ==
    IF screen.index < Len(screen.batch)
    THEN [screen EXCEPT !.index = @ + 1, !.revealed = FALSE]
    ELSE NoSitting

Deliver(c) ==
    LET call == calls[c] IN
    /\ call.pc = "replied"
    /\ calls' = [calls EXCEPT ![c] = Idle]
    /\ sitting' =
          CASE ~call.heard \/ call.reply = "error" -> sitting
            [] call.heard /\ call.reply = "ok" /\ call.op = "list" ->
                  IF call.batch = <<>> THEN sitting
                  ELSE [batch |-> call.batch, index |-> 1, revealed |-> FALSE]
            [] call.heard /\ call.reply = "ok" /\ call.op = "grade" ->
                  Advanced(call.screen)
    /\ UNCHANGED <<Tables, clock, crossed>>

(* Leaving the Home screen drops its state; answers still due go unheard.    *)
Unmount ==
    /\ sitting' = NoSitting
    /\ calls' = [c \in Calls |-> 
           [calls[c] EXCEPT !.heard = FALSE, !.screen = NoSitting]]
    /\ UNCHANGED <<Tables, clock, crossed>>

Crash ==
    /\ sitting' = NoSitting
    /\ calls' = [c \in Calls |-> Idle]
    /\ UNCHANGED <<Tables, clock, crossed>>

Tick ==
    /\ clock < MaxTime
    /\ clock' = clock + 1
    /\ UNCHANGED <<Tables, calls, sitting, crossed>>

Next ==
    \/ \E c \in Calls :
          \/ StartReview(c) \/ ListDue(c)
          \/ \E grade \in Grades : Grade(c, grade)
          \/ GradeRead(c) \/ GradeClash(c) \/ GradeWrite(c)
          \/ Fail(c) \/ Deliver(c)
    \/ Reveal \/ Unmount \/ Crash \/ Tick

Spec == Init /\ [][Next]_reviewVars

-----------------------------------------------------------------------------
(* Properties. *)

Sitting == [batch : Seq(Cards), index : Nat, revealed : BOOLEAN]

(* Every row, call record and the sitting has its type.                      *)
TypeOK ==
    /\ cards \in [Cards -> Card]
    /\ reviews \subseteq Review
    /\ sitting \in Sitting
    /\ clock \in Time
    /\ crossed \subseteq Cards
    /\ \A c \in Calls :
          /\ calls[c].seen \in Card /\ calls[c].screen \in Sitting
          /\ calls[c].op = "grade" /\ calls[c].pc \in {"read", "write"}
             => calls[c].card \in Cards

ReviewsOf(k) == {r \in reviews : r.card = k}

(* The card moves and its review row appears in one step, and a row never    *)
(* disappears: a rejected or failed grade leaves no trace, an applied one    *)
(* both (card_pg.rs apply_review).                                           *)
GradesAreAtomic ==
    [][/\ reviews \subseteq reviews'
       /\ \A k \in Cards :
             cards'[k] # cards[k] <=>
                \E r \in reviews' \ reviews :
                    r.card = k /\ cards'[k].last = r.at /\ cards'[k].due = r.due
      ]_<<cards, reviews>>

(* A card's scheduling state is the outcome of one of its logged reviews,    *)
(* also when grades of the card crossed and one of them was overwritten; it  *)
(* never claims more repetitions than were logged, nor fewer than one.       *)
CardReflectsAReview ==
    \A k \in Cards :
        /\ cards[k].state = "new" <=> ReviewsOf(k) = {}
        /\ cards[k].state # "new" =>
              /\ cards[k].reps \in 1..Cardinality(ReviewsOf(k))
              /\ \E r \in ReviewsOf(k) :
                    r.at = cards[k].last /\ r.due = cards[k].due

(* As long as no two grades of a card were in flight together, the log tells *)
(* the whole story, also across lost answers, retries, unmounts and crashes: *)
(* replaying it, as FsrsScheduler::replay would, gives the card, every row   *)
(* notes the state its predecessors lead to, and the last row set the card.  *)
UncrossedGradesAllCount ==
    \A k \in Cards \ crossed :
        LET card == Replay(ReviewsOf(k)) IN
        /\ card[MaxTime + 1] = [state |-> cards[k].state,
                                reps |-> cards[k].reps,
                                lapses |-> cards[k].lapses]
        /\ \A r \in ReviewsOf(k) :
              /\ r.before = card[r.at].state
              /\ r.at <= cards[k].last

(* The curation gate: no review row exists for a card that is not kept, and  *)
(* none reaches the screen (card_pg.rs WHERE clauses, application/review.rs  *)
(* grade_card).                                                              *)
OnlyKeptCardsReviewed ==
    /\ \A r \in reviews : cards[r.card].curation = "kept"
    /\ \A i \in DOMAIN sitting.batch : cards[sitting.batch[i]].curation = "kept"

(* A sitting always has a card to show: answers that arrive late, in any     *)
(* order and for an earlier card, never move the index past the batch, nor   *)
(* leave an open sitting without cards (Home.tsx grade and startReview).     *)
SittingShowsACard ==
    sitting # NoSitting =>
        /\ sitting.index \in DOMAIN sitting.batch
        /\ Len(sitting.batch) <= Limit
        /\ \A i, j \in DOMAIN sitting.batch :
              sitting.batch[i] = sitting.batch[j] => i = j

(* The documented promise (specs/memoria-slice/requirements.md:12): the same *)
(* grade applied twice (stale UI, retry) does not double-apply.  A card was  *)
(* offered because it was due; a second row that is not due yet is the same  *)
(* showing of the card graded twice.                                         *)
NoDoubleApply ==
    \A r, q \in reviews :
        r.card = q.card /\ r.at < q.at => r.due <= q.at
=============================================================================
