------------------------- MODULE HomeScreen_proofs -------------------------
(* Proofs about HomeScreen: whatever the user clicks, the screen drives the  *)
(* study loop by StudyLoop's own steps, so what is proved of the loop holds  *)
(* under the screen; and the screen is never left waiting.                   *)
EXTENDS HomeScreen, StudyLoop_proofs

(* A step of the screen is a step of the study loop, or leaves it alone.     *)
LEMMA HomeStepIsStudyStep == [HomeNext]_homeVars => [Next]_studyVars
  <1> SUFFICES ASSUME [HomeNext]_homeVars PROVE [Next]_studyVars
    OBVIOUS
  <1>1. ASSUME NEW c \in Calls, NEW l \in Loads, Mount(c, l)
        PROVE  Next
    BY <1>1 DEF Mount, Next, User
  <1>2. ASSUME NEW c \in Calls, NEW k \in Chunks,
               ClickStart(c, k) \/ ClickComplete(c, k) \/ ClickStop(c)
        PROVE  Next
    BY <1>2 DEF ClickStart, ClickComplete, ClickStop, Next, User
  <1>3. ASSUME NEW c \in Calls, ClickStop(c)
        PROVE  Next
    BY <1>3 DEF ClickStop, Next, User
  <1>4. ASSUME NEW c \in Calls, Proceed(c) \/ ProceedFails(c) \/ Deliver(c)
        PROVE  Next
    BY <1>4 DEF Proceed, ProceedFails, Deliver, Next
  <1>5. ASSUME NEW l \in Loads, LoadRead(l) \/ LoadFails(l) \/ LoadDelivered(l)
        PROVE  UNCHANGED studyVars
    BY <1>5 DEF LoadRead, LoadFails, LoadDelivered
  <1>6. CASE ReviewEnds \/ Unmount
    BY <1>6 DEF ReviewEnds, Unmount
  <1>7. CASE HomeCrash \/ HomeTick
    BY <1>7 DEF HomeCrash, HomeTick, Next
  <1>8. CASE UNCHANGED homeVars
    BY <1>8 DEF homeVars
  <1> QED
    BY <1>1, <1>2, <1>3, <1>4, <1>5, <1>6, <1>7, <1>8 DEF HomeNext

(* The tables the screen starts on: an indexed vault, no session yet.        *)
LEMMA HomeTablesInit == HomeInit => TablesInv
  <1> SUFFICES ASSUME HomeInit PROVE TablesInv
    OBVIOUS
  <1>1. Idle \in Call
    BY ZeroIsTime DEF Idle, Call, Op, Reply, Null
  <1>2. TypeOK
    BY <1>1, ZeroIsTime DEF HomeInit, TypeOK, Status
  <1>3. CallsOK
    BY DEF HomeInit, CallsOK, Idle, At
  <1>4. StagesMatchSessions /\ StudiedChunkKeepsProgress
    BY DEF HomeInit, StagesMatchSessions, StudiedChunkKeepsProgress
  <1> QED
    BY <1>2, <1>3, <1>4 DEF TablesInv

(* The invariant of the study tables holds under every use of the screen     *)
(* (Home.tsx over application/session.rs and session_pg.rs).                 *)
THEOREM HomeKeepsTables == HomeSpec => []TablesInv
  BY HomeTablesInit, HomeStepIsStudyStep, TablesNext, PTL DEF HomeSpec

(* However it is clicked, the screen never leaves a session without its      *)
(* stage row, which open_session would not find.                             *)
THEOREM HomeKeepsStages == HomeSpec => []StagesMatchSessions
  <1>1. TablesInv => StagesMatchSessions
    BY DEF TablesInv
  <1> QED
    BY <1>1, HomeKeepsTables, PTL

-----------------------------------------------------------------------------

(* As much of the types as the rest needs: the screen is a record of its     *)
(* five fields and loads has a record per slot.                              *)
ScreenShape ==
    /\ screen = [shown |-> screen.shown, loaded |-> screen.loaded,
                 items |-> screen.items, active |-> screen.active,
                 error |-> screen.error]
    /\ loads = [l \in Loads |-> loads[l]]

LoadingInv == ScreenShape /\ LoadingIsUnderWay

(* Opening a load makes one be under way.                                    *)
LEMMA LoadLoads ==
    ASSUME ScreenShape, NEW l \in Loads, Load(l)
    PROVE  Loading' # {} /\ loads' = [m \in Loads |-> loads'[m]]
  <1>1. loads'[l] = [NoLoad EXCEPT !.pc = "sent", !.at = clock]
    BY DEF Load, ScreenShape
  <1>2. loads'[l].pc = "sent"
    BY <1>1 DEF NoLoad
  <1>3. loads' = [m \in Loads |-> loads'[m]]
    BY DEF Load, ScreenShape
  <1> QED
    BY <1>2, <1>3 DEF Loading

(* A step that keeps the loads, and changes of the screen at most the        *)
(* session it believes in, keeps the invariant.                              *)
LEMMA BeliefKeepsLoading ==
    ASSUME LoadingInv, UNCHANGED loads, NEW s,
           screen' \in {screen, [screen EXCEPT !.active = s]}
    PROVE  LoadingInv'
  BY DEF LoadingInv, ScreenShape, LoadingIsUnderWay, Loading

(* A first render, or any other load begun, leaves a load under way.         *)
LEMMA MountKeepsLoading ==
    ASSUME LoadingInv, NEW c \in Calls, NEW l \in Loads, Mount(c, l)
    PROVE  LoadingInv'
  <1>1. screen' = [shown |-> TRUE, loaded |-> FALSE, items |-> {},
                   active |-> Null, error |-> FALSE]
    BY DEF Mount, Unmounted
  <1> QED
    BY <1>1, LoadLoads DEF Mount, LoadingInv, ScreenShape, LoadingIsUnderWay

(* An answer to a command shows a result or asks for a fresh queue.          *)
LEMMA DeliverKeepsLoading ==
    ASSUME LoadingInv, NEW c \in Calls, Deliver(c)
    PROVE  LoadingInv'
  <1>1. screen' \in {screen, [screen EXCEPT !.active = Believed(c)]}
    BY DEF Deliver
  <1>2. ASSUME NEW l \in Loads, Load(l) PROVE LoadingInv'
    BY <1>1, <1>2, LoadLoads DEF LoadingInv, ScreenShape, LoadingIsUnderWay
  <1> QED
    BY <1>1, <1>2, BeliefKeepsLoading DEF Deliver, Reload

(* So does the end of a review.                                              *)
LEMMA ReviewKeepsLoading ==
    ASSUME LoadingInv, ReviewEnds
    PROVE  LoadingInv'
  BY LoadLoads DEF ReviewEnds, Reload, LoadingInv, ScreenShape,
                   LoadingIsUnderWay

(* An answer read or an error met is still on its way to the screen.         *)
LEMMA ReadKeepsLoading ==
    ASSUME LoadingInv, NEW l \in Loads, LoadRead(l) \/ LoadFails(l)
    PROVE  LoadingInv'
  <1>1. loads' = [m \in Loads |-> loads'[m]] /\ loads'[l].pc # "idle"
    <2>1. CASE LoadRead(l)
      BY <2>1 DEF LoadRead, LoadingInv, ScreenShape
    <2>2. CASE LoadFails(l)
      BY <2>2 DEF LoadFails, NoLoad, LoadingInv, ScreenShape
    <2> QED
      BY <2>1, <2>2
  <1>2. l \in Loading'
    BY <1>1 DEF Loading
  <1> QED
    BY <1>1, <1>2 DEF LoadRead, LoadFails, LoadingInv, ScreenShape,
                      LoadingIsUnderWay

(* The last load may end: it leaves a list or an error.                      *)
LEMMA DeliveryShowsSomething ==
    ASSUME LoadingInv, NEW l \in Loads, LoadDelivered(l)
    PROVE  LoadingInv'
  <1>1. loads' = [m \in Loads |-> loads'[m]]
    BY DEF LoadDelivered, LoadingInv, ScreenShape
  <1>2. CASE loads[l].pc = "error"
    BY <1>1, <1>2 DEF LoadDelivered, LoadingInv, ScreenShape, LoadingIsUnderWay
  <1>3. CASE loads[l].pc # "error"
    BY <1>1, <1>3 DEF LoadDelivered, LoadingInv, ScreenShape, LoadingIsUnderWay
  <1> QED
    BY <1>2, <1>3

(* A screen that is left has nothing to wait for.                            *)
LEMMA LeaveEndsLoading ==
    ASSUME Leave PROVE LoadingInv'
  BY DEF Leave, Unmounted, LoadingInv, ScreenShape, LoadingIsUnderWay

(* The screen never says Loading with nothing on its way, whatever failed,   *)
(* was left behind or answered in another order (Home.tsx loadQueue).        *)
THEOREM NeverLeftWaiting == HomeSpec => []LoadingIsUnderWay
  <1>1. HomeInit => LoadingInv
    BY DEF HomeInit, Unmounted, LoadingInv, ScreenShape, LoadingIsUnderWay
  <1>2. LoadingInv /\ [HomeNext]_homeVars => LoadingInv'
    <2> SUFFICES ASSUME LoadingInv, [HomeNext]_homeVars PROVE LoadingInv'
      OBVIOUS
    <2>1. ASSUME NEW c \in Calls, NEW k \in Chunks,
                 ClickStart(c, k) \/ ClickComplete(c, k)
          PROVE  LoadingInv'
      BY <2>1, BeliefKeepsLoading DEF ClickStart, ClickComplete, Click
    <2>2. ASSUME NEW c \in Calls,
                 ClickStop(c) \/ Proceed(c) \/ ProceedFails(c)
          PROVE  LoadingInv'
      BY <2>2, BeliefKeepsLoading DEF ClickStop, Click, Proceed, ProceedFails
    <2>3. CASE HomeTick \/ UNCHANGED homeVars
      BY <2>3, BeliefKeepsLoading DEF HomeTick, homeVars
    <2>4. CASE Unmount \/ HomeCrash
      BY <2>4, LeaveEndsLoading DEF Unmount, HomeCrash
    <2> QED
      BY <2>1, <2>2, <2>3, <2>4, MountKeepsLoading, DeliverKeepsLoading,
         ReviewKeepsLoading, ReadKeepsLoading, DeliveryShowsSomething
         DEF HomeNext
  <1>3. LoadingInv => LoadingIsUnderWay
    BY DEF LoadingInv
  <1> QED
    BY <1>1, <1>2, <1>3, PTL DEF HomeSpec

-----------------------------------------------------------------------------
(* What the queue lists. *)

(* What is proved of the rules, as the screen uses them.                     *)
Proved == INSTANCE DailyQueue_proofs WITH
    Overrides <- {}, position <- [t \in {Track[k] : k \in Chunks} |-> 0],
    query <- [pc |-> "idle", now |-> 0, past |-> {}, rows |-> <<>>,
              answer |-> <<>>]

(* The assumptions of those proofs hold.                                     *)
LEMMA RulesApply ==
    /\ Proved!ChunksAssumption
    /\ Proved!TracksAssumption
    /\ Proved!OverridesAssumption
    /\ Proved!UniqueOrd
    /\ Proved!TimeAssumption
  <1>1. Proved!ChunksAssumption
    BY RulesAssumption
       DEF Rules!Range, Proved!Range, Rules!IsFiniteSet, Proved!IsFiniteSet
  <1>2. Proved!TracksAssumption
    BY RulesAssumption
       DEF Rules!Range, Proved!Range, Rules!IsInjective, Proved!IsInjective
  <1>3. Proved!OverridesAssumption /\ Proved!UniqueOrd /\ Proved!TimeAssumption
    BY RulesAssumption
  <1> QED
    BY <1>1, <1>2, <1>3

(* It is the same rules, however they are reached.                           *)
LEMMA SameRules ==
    ASSUME NEW rows, NEW t, NEW now
    PROVE  Rules!TrackItems(rows, t, 0, now) =
             Proved!TrackItems(rows, t, 0, now)
  BY Zenon DEF
     Rules!TrackItems, Rules!Eligible, Rules!Candidates, Rules!Open,
     Rules!StaleItems, Rules!CurrentItem, Rules!NextItem, Rules!IsStale,
     Rules!OlderThan, Rules!Earlier, Rules!InOrder, Rules!AtMostOne,
     Rules!Before, Rules!Cardinality,
     Proved!TrackItems, Proved!Eligible, Proved!Candidates, Proved!Open,
     Proved!StaleItems, Proved!CurrentItem, Proved!NextItem, Proved!IsStale,
     Proved!OlderThan, Proved!Earlier, Proved!InOrder, Proved!AtMostOne,
     Proved!Before, Proved!Cardinality

(* The rows of an indexed vault: none is absent.                             *)
IndexedRow == [status : {"queued", "in_progress", "done"}, updatedAt : Time]

(* What is in progress and was touched after all else that is.               *)
Freshest(rows, k) ==
    /\ rows[k].status = "in_progress"
    /\ \A j \in Chunks \ {k} :
          rows[j].status = "in_progress"
          => rows[j].updatedAt < rows[k].updatedAt

(* The elements of a sequence over a set are in it.                          *)
LEMMA SequenceElements ==
    ASSUME NEW T, NEW s \in Seq(T) PROVE \A i \in DOMAIN s : s[i] \in T
  OBVIOUS

(* The queue lists chunks, and above all the one touched last.               *)
LEMMA ListedAre ==
    ASSUME NEW rows \in [Chunks -> IndexedRow], NEW now
    PROVE  /\ Listed(rows, now) \subseteq Chunks
           /\ \A k \in Chunks : Freshest(rows, k) => k \in Listed(rows, now)
  <1>1. Chunks \subseteq Nat \ {0}
    BY RulesApply
  <1>2. rows \in [Chunks -> Proved!Row]
    BY DEF IndexedRow, Time, Proved!Row, Proved!Time
  <1> DEFINE elig(t) == Proved!Eligible(Proved!Candidates(rows, t), 0)
             items(t) == Rules!TrackItems(rows, t, 0, now)
             shown(t) == {items(t)[i].chunk : i \in DOMAIN items(t)}
             stale(t) == Proved!StaleOf(rows, elig(t), now)
             fresh(t) == Proved!FreshOf(rows, elig(t), now)
  <1>3. ASSUME NEW t
        PROVE  Proved!ItemsAre(items(t), rows, elig(t), now)
    BY <1>2, RulesApply, SameRules, Proved!TrackItemsAre
  <1>5. Listed(rows, now) = UNION {shown(t) : t \in Rules!Tracks}
    BY DEF Listed
  <1> HIDE DEF items, elig
  <1>4. ASSUME NEW t
        PROVE  /\ shown(t) \subseteq Chunks
               /\ stale(t) \subseteq shown(t)
               /\ Proved!Range(Proved!CurrentItem(rows, elig(t), now))
                  \subseteq shown(t)
    <2>1. /\ items(t) \in Seq([chunk : Chunks, stale : BOOLEAN])
          /\ Proved!ChunksOf(items(t)) = stale(t)
              \union Proved!Range(Proved!CurrentItem(rows, elig(t), now))
              \union Proved!Range(Proved!NextItem(rows, elig(t)))
      BY <1>3, Zenon DEF Proved!ItemsAre
    <2>2. Proved!ChunksOf(items(t)) = shown(t)
      BY DEF Proved!ChunksOf
    <2>3. \A i \in DOMAIN items(t) : items(t)[i].chunk \in Chunks
      <3>1. \A i \in DOMAIN items(t) :
                items(t)[i] \in [chunk : Chunks, stale : BOOLEAN]
        BY <2>1, SequenceElements, Zenon
      <3> QED
        BY <3>1, Zenon
    <2> QED
      BY <2>1, <2>2, <2>3
  <1> HIDE DEF shown
  <1>6. ASSUME NEW k \in Chunks, Freshest(rows, k)
        PROVE  k \in shown(Track[k]) /\ Track[k] \in Rules!Tracks
    <2> DEFINE t == Track[k]
    <2>4. t \in Rules!Tracks
      BY DEF Rules!Tracks
    <2>1. k \in elig(t) /\ elig(t) \subseteq Chunks
      BY <1>1, <1>6
         DEF elig, Freshest, Proved!Eligible, Proved!Candidates, Proved!Open
    <2>2. CASE Proved!IsStale(rows[k], now)
      <3>1. k \in stale(t)
        BY <2>1, <2>2 DEF Proved!StaleOf
      <3> QED
        BY <1>4, <2>4, <3>1
    <2>3. CASE ~ Proved!IsStale(rows[k], now)
      <3>1. k \in fresh(t)
        BY <1>6, <2>1, <2>3 DEF Freshest, Proved!FreshOf
      <3>2. PICK m \in fresh(t) :
                /\ Proved!CurrentItem(rows, elig(t), now) = <<m>>
                /\ \A j \in fresh(t) \ {m} : Proved!OlderThan(rows, j, m)
        BY <1>2, <2>1, <3>1, RulesApply, Proved!CurrentItemIsLast
      <3>3. /\ m \in Chunks /\ rows[m].status = "in_progress"
            /\ rows[m].updatedAt \in Int /\ rows[k].updatedAt \in Int
        BY <2>1, <3>2 DEF Proved!FreshOf, IndexedRow, Time
      <3>4. m = k
        BY <1>6, <3>1, <3>2, <3>3 DEF Freshest, Proved!OlderThan
      <3>5. k \in Proved!Range(Proved!CurrentItem(rows, elig(t), now))
        <4>1. 1 \in DOMAIN <<k>> /\ <<k>>[1] = k
          OBVIOUS
        <4> QED
          BY <3>2, <3>4, <4>1 DEF Proved!Range
      <3> QED
        BY <1>4, <2>4, <3>5
    <2> QED
      BY <2>2, <2>3
  <1> QED
    BY <1>4, <1>5, <1>6

-----------------------------------------------------------------------------
(* What the screen knows of the session that is open. *)

(* Command slot c has been answered with its result.                         *)
Told(c) == calls[c].pc = "replied" /\ calls[c].reply = "ok"

(* What the screen's commands look like, and that the vault is indexed.      *)
CommandsOK ==
    /\ \A k \in Chunks : chunks[k].status # "absent"
    /\ \A c \in Calls :
          /\ calls[c].op \in {"start", "stop", "complete", "active"}
          /\ calls[c].op = "active" => calls[c].pc # "write"
          /\ calls[c].op = "complete" => calls[c].pc # "read"
          /\ calls[c].op = "complete" /\ Told(c)
             => chunks[calls[c].chunk].status = "done"
          /\ calls[c].op = "start" /\ Told(c) => calls[c].target # Null

(* A screen that is not shown holds and awaits nothing.                      *)
Away ==
    ~screen.shown => /\ screen = Unmounted
                     /\ views = [c \in Calls |-> NoView]
                     /\ loads = [l \in Loads |-> NoLoad]

(* The sessions still open whose chunk was not completed meanwhile.          *)
Unfinished ==
    {s \in OpenSessions : chunks[stages[s].chunk].status # "done"}

(* Starts one after the other: one session is open at most, none while a     *)
(* start is past its check, and its chunk is the freshest of all, as the     *)
(* chunk of a start under way is going to be.                                *)
StartsApart ==
    /\ \A s, t \in OpenSessions : s = t
    /\ \A c, d \in StartsInFlight : c = d
    /\ \A c \in StartsInFlight :
          /\ calls[c].pc = "write" => OpenSessions = {}
          /\ \A j \in Chunks : chunks[j].status = "in_progress"
                               => chunks[j].updatedAt < calls[c].at
    /\ \A s \in Unfinished : Freshest(chunks, stages[s].chunk)

(* The answers in flight are for this screen, and a stop crosses nothing     *)
(* that could bring a session back.                                          *)
Crossings ==
    /\ \A c \in InFlight("start") \union InFlight("stop") : views[c].heard
    /\ InFlight("stop") # {} =>
          InFlight("start") = {} /\ InFlight("active") = {}
    /\ \A c \in InFlight("start") :
          /\ Loading = {} /\ screen.loaded
          /\ calls[c].chunk \in screen.items

(* What the screen believes open, or is about to be told is open, is open,   *)
(* or was stopped by a stop about to be answered.                            *)
BeliefSound ==
    /\ \/ screen.active \in OpenSessions \union {Null}
       \/ \E c \in InFlight("stop") : Told(c)
    /\ \A c \in Calls :
          /\ views[c].heard /\ calls[c].op \in {"start", "active"} /\ Told(c)
             => calls[c].target \in OpenSessions \union {Null}
          /\ calls[c].op = "stop" /\ Told(c) => OpenSessions = {}

(* A completion about to clear a session clears the one that is open.        *)
ClearingSound ==
    \A c \in Clearing :
        /\ OpenSessions \subseteq {views[c].active}
        /\ OpenSessions = {} => InFlight("start") = {}

(* An answer on its way that names the session s.                            *)
Bringing(c, s) ==
    /\ views[c].heard
    /\ \/ At(c, "active", "read")
       \/ calls[c].op \in {"start", "active"} /\ Told(c) /\ calls[c].target = s

(* The open session is on the screen, or on its way to it ...                *)
BeliefComplete ==
    \A s \in Unfinished : screen.active = s \/ \E c \in Calls : Bringing(c, s)

(* ... and its chunk on the list, and on every list on its way.              *)
ListComplete ==
    \A s \in Unfinished :
        /\ screen.loaded => stages[s].chunk \in screen.items
        /\ \A l \in Loads :
              loads[l].pc = "ok" => stages[s].chunk \in loads[l].items

(* A screen with no reason to be wrong.                                      *)
Oriented ==
    Crossings /\ BeliefSound /\ ClearingSound /\ BeliefComplete /\ ListComplete

(* The inductive invariant.  With nothing in flight, Oriented is what the    *)
(* goals ask; in between, the session the screen does not know of yet is on  *)
(* its way to it, and one it wrongly believes in is about to be cleared.     *)
HomeInv ==
    /\ TablesInv
    /\ AnswersMatchTables
    /\ HomeTypeOK
    /\ CommandsOK
    /\ Away
    /\ ~overlap => StartsApart
    /\ screen.shown /\ Certain => Oriented

(* At rest, the invariant says what the two goals ask.                       *)
LEMMA HomeInvGoals == HomeInv => NoGhostSession /\ OpenSessionCanBeStopped
  <1> SUFFICES ASSUME HomeInv, Settled, Certain
               PROVE  /\ screen.active \in OpenSessions \union {Null}
                      /\ \A s \in OpenSessions :
                            chunks[stages[s].chunk].status # "done"
                            => StopOffered(stages[s].chunk)
    BY DEF NoGhostSession, OpenSessionCanBeStopped
  <1>1. Oriented /\ Usable
    BY DEF HomeInv, Settled, Usable
  <1>2. \A c \in Calls : calls[c].pc = "idle"
    BY DEF Settled, Busy
  <1>3. screen.active \in OpenSessions \union {Null}
    BY <1>1, <1>2 DEF Oriented, BeliefSound, InFlight
  <1>4. ASSUME NEW s \in OpenSessions, chunks[stages[s].chunk].status # "done"
        PROVE  StopOffered(stages[s].chunk)
    <2>1. s \in Unfinished
      BY <1>4 DEF Unfinished
    <2>2. screen.active = s
      BY <1>1, <1>2, <2>1 DEF Oriented, BeliefComplete, Bringing, Told, At
    <2>3. stages[s].chunk \in screen.items
      BY <1>1, <2>1 DEF Oriented, ListComplete, Usable
    <2>4. s # Null
      BY <1>4, RowTypes DEF OpenSessions, Null, HomeInv, TablesInv
    <2> QED
      BY <1>1, <2>2, <2>3, <2>4 DEF StopOffered, ChunkOf
  <1> QED
    BY <1>3, <1>4

-----------------------------------------------------------------------------
(* Types. *)

(* The parts of the types, one by one.                                       *)
Ids == DOMAIN sessions \union {Null}
View0 == [heard : BOOLEAN, active : Ids]
LoadRec ==
    [pc : {"idle", "sent", "ok", "error"}, at : Time, items : SUBSET Chunks]

ScreenOK ==
    screen \in [shown : BOOLEAN, loaded : BOOLEAN, items : SUBSET Chunks,
                active : Ids, error : BOOLEAN]
ViewsOK == views \in [Calls -> View0]
LoadsOK == loads \in [Loads -> LoadRec]

(* The types are these parts.                                                *)
LEMMA HomeTypeParts ==
    HomeTypeOK <=> /\ ScreenOK /\ ViewsOK /\ LoadsOK
                   /\ doubt \in BOOLEAN /\ overlap \in BOOLEAN
  BY Zenon DEF HomeTypeOK, ScreenOK, ViewsOK, LoadsOK, Ids, View0, LoadRec

(* A load begun ...                                                          *)
LEMMA LoadTypes ==
    ASSUME LoadsOK, clock \in Time, NEW l \in Loads, Load(l)
    PROVE  LoadsOK'
  <1>1. [NoLoad EXCEPT !.pc = "sent", !.at = clock] \in LoadRec
    BY DEF NoLoad, LoadRec
  <1> QED
    BY <1>1 DEF Load, LoadsOK, LoadRec

(* ... a click ...                                                           *)
LEMMA ViewTypes ==
    ASSUME ScreenOK, ViewsOK, NEW c \in Calls, View(c), sessions' = sessions
    PROVE  ViewsOK'
  <1>1. [heard |-> TRUE, active |-> screen.active] \in View0
    BY DEF ScreenOK, View0
  <1>2. Ids' = Ids
    BY DEF Ids
  <1> QED
    BY <1>1, <1>2 DEF View, ViewsOK, View0

(* ... and the screen left have their types.                                 *)
LEMMA LeaveTypes ==
    ASSUME Leave, 0 \in Time
    PROVE  ScreenOK' /\ ViewsOK' /\ LoadsOK'
  BY DEF Leave, Unmounted, NoView, NoLoad, ScreenOK, ViewsOK, LoadsOK, Ids,
         View0, LoadRec

(* The tables only grow under the screen.                                    *)
LEMMA RowsGrow ==
    ASSUME TablesInv, TablesInv', [HomeNext]_homeVars
    PROVE  Ids \subseteq Ids'
  BY HomeStepIsStudyStep, RowsLast DEF Ids

(* More sessions widen the types of what stays as it is.                     *)
LEMMA WiderTypes ==
    ASSUME Ids \subseteq Ids', UNCHANGED <<screen, views, loads>>,
           ScreenOK, ViewsOK, LoadsOK
    PROVE  ScreenOK' /\ ViewsOK' /\ LoadsOK'
  <1>1. ScreenOK'
    BY DEF ScreenOK
  <1>2. ViewsOK'
    <2>1. View0 \subseteq View0'
      BY DEF View0
    <2> HIDE DEF View0
    <2> QED
      BY <2>1 DEF ViewsOK
  <1> QED
    BY <1>1, <1>2 DEF LoadsOK, LoadRec

(* Every step keeps the types.                                               *)
LEMMA HomeTypesNext ==
    ASSUME HomeInv, TablesInv', [HomeNext]_homeVars
    PROVE  HomeTypeOK'
  <1>1. /\ ScreenOK /\ ViewsOK /\ LoadsOK
        /\ doubt \in BOOLEAN /\ overlap \in BOOLEAN
    BY HomeTypeParts DEF HomeInv
  <1>2. clock \in Time /\ 0 \in Time /\ Ids \subseteq Ids'
    BY ZeroIsTime, RowsGrow DEF HomeInv, TablesInv, TypeOK
  <1> SUFFICES /\ ScreenOK' /\ ViewsOK' /\ LoadsOK'
               /\ doubt' \in BOOLEAN /\ overlap' \in BOOLEAN
    BY Zenon DEF HomeTypeOK, ScreenOK, ViewsOK, LoadsOK, Ids, View0, LoadRec
  <1>3. ASSUME NEW c \in Calls, NEW l \in Loads, Mount(c, l)
        PROVE  /\ ScreenOK' /\ ViewsOK' /\ LoadsOK'
               /\ doubt' \in BOOLEAN /\ overlap' \in BOOLEAN
    <2>1. sessions' = sessions
      BY <1>3 DEF Mount, InvokeActive, Invoke, Tables
    <2>2. ScreenOK'
      BY <1>3 DEF Mount, Unmounted, ScreenOK, Ids
    <2> QED
      BY <1>1, <1>2, <1>3, <2>1, <2>2, LoadTypes, ViewTypes DEF Mount
  <1>4. ASSUME NEW c \in Calls, NEW k \in Chunks,
               ClickStart(c, k) \/ ClickComplete(c, k) \/ ClickStop(c)
        PROVE  /\ ScreenOK' /\ ViewsOK' /\ LoadsOK'
               /\ doubt' \in BOOLEAN /\ overlap' \in BOOLEAN
    <2>1. sessions' = sessions /\ View(c) /\ UNCHANGED <<screen, loads>>
      BY <1>4 DEF ClickStart, ClickComplete, ClickStop, InvokeStart,
                  InvokeComplete, InvokeStop, Invoke, Tables, Click
    <2>2. doubt' \in BOOLEAN /\ overlap' \in BOOLEAN
      BY <1>1, <1>4, Zenon DEF ClickStart, ClickComplete, ClickStop
    <2>3. ScreenOK' /\ LoadsOK'
      BY <1>1, <2>1 DEF ScreenOK, LoadsOK, Ids, LoadRec
    <2> QED
      BY <1>1, <2>1, <2>2, <2>3, ViewTypes
  <1>5. ASSUME NEW c \in Calls, ClickStop(c)
        PROVE  /\ ScreenOK' /\ ViewsOK' /\ LoadsOK'
               /\ doubt' \in BOOLEAN /\ overlap' \in BOOLEAN
    BY <1>4, <1>5 DEF ClickStop
  <1>6. ASSUME NEW c \in Calls, Proceed(c) \/ ProceedFails(c)
        PROVE  /\ ScreenOK' /\ ViewsOK' /\ LoadsOK'
               /\ doubt' \in BOOLEAN /\ overlap' \in BOOLEAN
    <2>1. UNCHANGED <<screen, views, loads, overlap>>
      BY <1>6 DEF Proceed, ProceedFails
    <2>2. doubt' \in BOOLEAN
      BY <1>1, <1>6, Zenon DEF Proceed, ProceedFails
    <2> QED
      BY <1>1, <1>2, <2>1, <2>2, WiderTypes
  <1>7. ASSUME NEW c \in Calls, Deliver(c)
        PROVE  /\ ScreenOK' /\ ViewsOK' /\ LoadsOK'
               /\ doubt' \in BOOLEAN /\ overlap' \in BOOLEAN
    <2>1. sessions' = sessions
      BY <1>7 DEF Deliver, Return, Tables
    <2>2. Taken(c) => Believed(c) \in Ids
      BY <1>1, <1>7 DEF Taken, Deliver, Return, Believed, HomeInv, CommandsOK,
         AnswersMatchTables, Ids, ScreenOK, Null
    <2>3. ScreenOK'
      BY <1>1, <1>7, <2>1, <2>2 DEF Deliver, ScreenOK, Ids
    <2>4. NoView \in View0
      BY DEF NoView, View0, Ids
    <2>5. ViewsOK'
      BY <1>1, <1>7, <2>1, <2>4 DEF Deliver, ViewsOK, View0, Ids
    <2>6. LoadsOK' /\ doubt' \in BOOLEAN
      <3>1. CASE Reload
        BY <1>1, <1>2, <3>1, LoadTypes, Zenon DEF Reload
      <3>2. CASE UNCHANGED <<loads, doubt>>
        BY <1>1, <3>2 DEF LoadsOK, LoadRec
      <3> QED
        BY <1>7, <3>1, <3>2 DEF Deliver
    <2> QED
      BY <1>1, <1>7, <2>3, <2>5, <2>6 DEF Deliver
  <1>8. ASSUME NEW l \in Loads, LoadRead(l) \/ LoadFails(l) \/ LoadDelivered(l)
        PROVE  /\ ScreenOK' /\ ViewsOK' /\ LoadsOK'
               /\ doubt' \in BOOLEAN /\ overlap' \in BOOLEAN
    <2>1. UNCHANGED <<sessions, views, doubt, overlap>>
      BY <1>8 DEF LoadRead, LoadFails, LoadDelivered, studyVars
    <2>2. chunks \in [Chunks -> IndexedRow]
      BY DEF HomeInv, TablesInv, TypeOK, Status, CommandsOK, IndexedRow
    <2>3. LoadsOK'
      <3>1. /\ [pc |-> "ok", at |-> 0, items |-> Listed(chunks, loads[l].at)]
               \in LoadRec
            /\ [NoLoad EXCEPT !.pc = "error"] \in LoadRec
            /\ NoLoad \in LoadRec
        BY <1>2, <2>2, ListedAre DEF LoadRec, NoLoad
      <3> QED
        BY <1>1, <1>8, <3>1
           DEF LoadRead, LoadFails, LoadDelivered, LoadsOK, LoadRec
    <2>4. ScreenOK'
      <3>1. loads[l].items \in SUBSET Chunks
        BY <1>1 DEF LoadsOK, LoadRec
      <3>2. /\ [screen EXCEPT !.error = TRUE] \in
                   [shown : BOOLEAN, loaded : BOOLEAN, items : SUBSET Chunks,
                    active : Ids, error : BOOLEAN]
            /\ [screen EXCEPT !.error = FALSE, !.loaded = TRUE,
                              !.items = loads[l].items] \in
                   [shown : BOOLEAN, loaded : BOOLEAN, items : SUBSET Chunks,
                    active : Ids, error : BOOLEAN]
        BY <1>1, <3>1 DEF ScreenOK
      <3>3. Ids' = Ids
        BY <2>1 DEF Ids
      <3>4. \/ screen' = screen
            \/ screen' = [screen EXCEPT !.error = TRUE]
            \/ screen' = [screen EXCEPT !.error = FALSE, !.loaded = TRUE,
                                        !.items = loads[l].items]
        BY <1>8 DEF LoadRead, LoadFails, LoadDelivered
      <3> QED
        BY <1>1, <3>2, <3>3, <3>4, Zenon DEF ScreenOK
    <2> QED
      BY <1>1, <2>1, <2>3, <2>4 DEF ViewsOK, View0, Ids
  <1>9. CASE ReviewEnds
    <2>1. UNCHANGED <<sessions, screen, views, overlap>>
      BY <1>9 DEF ReviewEnds, studyVars
    <2>2. LoadsOK' /\ doubt' \in BOOLEAN
      BY <1>1, <1>2, <1>9, LoadTypes, Zenon DEF ReviewEnds, Reload
    <2> QED
      BY <1>1, <2>1, <2>2 DEF ScreenOK, ViewsOK, View0, Ids
  <1>10. CASE Unmount \/ HomeCrash
    <2>1. Leave
      BY <1>10 DEF Unmount, HomeCrash
    <2> QED
      BY <1>1, <1>2, <2>1, LeaveTypes DEF Leave
  <1>11. CASE HomeTick \/ UNCHANGED homeVars
    <2>1. UNCHANGED <<screen, views, loads, doubt, overlap>>
      BY <1>11 DEF HomeTick, homeVars
    <2> QED
      BY <1>1, <1>2, <2>1, WiderTypes
  <1> QED
    BY <1>3, <1>4, <1>5, <1>6, <1>7, <1>8, <1>9, <1>10, <1>11 DEF HomeNext

-----------------------------------------------------------------------------
(* The commands the screen has sent. *)

(* What is left to show of a step, its types and tables being known.         *)
Rest ==
    /\ CommandsOK
    /\ Away
    /\ ~overlap => StartsApart
    /\ screen.shown /\ Certain => Oriented

(* Slot c moves on without touching a table: past its check, or to an        *)
(* answer that gives it nothing.                                             *)
Moved(c) ==
    /\ calls[c].pc \in {"read", "write"}
    /\ calls'[c].pc \in {"write", "replied"}
    /\ calls'[c].op = calls[c].op
    /\ calls'[c].chunk = calls[c].chunk
    /\ calls'[c].at = calls[c].at
    /\ \A d \in Calls : d # c => calls'[d] = calls[d]
    /\ calls'[c].pc = "replied" => calls'[c].reply # "ok"
    /\ calls'[c].pc = "write" =>
          /\ calls[c].op \in {"start", "stop"}
          /\ calls[c].op = "start" => OpenSessions = {}

(* The tables stay as they are, and what is derived of them.                 *)
LEMMA SameTables ==
    ASSUME UNCHANGED Tables
    PROVE  /\ OpenSessions' = OpenSessions /\ Unfinished' = Unfinished
           /\ \A k \in Chunks : Freshest(chunks, k)' = Freshest(chunks, k)
           /\ UNCHANGED <<chunks, sessions, stages>>
  BY DEF Tables, OpenSessions, Unfinished, Freshest

(* A slot moving on changes nothing the screen knows.                        *)
LEMMA MovedKeeps ==
    ASSUME HomeInv, NEW c \in Calls, Moved(c),
           UNCHANGED <<Tables, screen, views, loads, overlap>>,
           doubt \/ calls[c].op = "active" => doubt'
    PROVE  Rest'
  <1>1. /\ OpenSessions' = OpenSessions /\ Unfinished' = Unfinished
        /\ UNCHANGED <<chunks, sessions, stages>>
    BY SameTables
  <1>2. CommandsOK'
    BY <1>1 DEF HomeInv, CommandsOK, Moved, Told
  <1>3. Away'
    BY DEF HomeInv, Away
  <1>4. StartsInFlight' \subseteq StartsInFlight
    BY DEF Moved, StartsInFlight
  <1>5. ASSUME ~overlap' PROVE StartsApart'
    <2>1. StartsApart
      BY <1>5 DEF HomeInv
    <2> QED
      BY <1>1, <1>4, <2>1 DEF StartsApart, Moved, StartsInFlight, Freshest
  <1>6. ASSUME screen'.shown, Certain' PROVE Oriented'
    <2>1. Oriented /\ calls[c].op # "active"
      BY <1>6 DEF HomeInv, Certain
    <2>2. /\ InFlight("start")' = InFlight("start")
          /\ InFlight("stop")' = InFlight("stop")
          /\ InFlight("active")' = InFlight("active")
          /\ InFlight("complete")' = InFlight("complete")
          /\ Loading' = Loading
      BY DEF Moved, InFlight, Loading
    <2>8. \A d \in Calls :
             /\ calls'[d].op = calls[d].op /\ calls'[d].chunk = calls[d].chunk
             /\ views'[d] = views[d]
             /\ Told(d) => d # c
             /\ Told(d)' => d # c
             /\ d # c => calls'[d] = calls[d] /\ (Told(d)' <=> Told(d))
      BY DEF Moved, Told
    <2>3. Crossings'
      BY <2>1, <2>2, <1>1 DEF Oriented, Crossings, Moved, InFlight
    <2>4. BeliefSound'
      <3>1. InFlight("stop") \subseteq Calls
        BY DEF InFlight
      <3> QED
        BY <2>1, <2>2, <2>8, <1>1, <3>1 DEF Oriented, BeliefSound
    <2>5. ClearingSound'
      <3>1. InFlight("complete") \subseteq Calls
        BY DEF InFlight
      <3>2. Clearing' = Clearing
        BY <1>1, <2>2, <2>8, <3>1 DEF Clearing, ChunkOf
      <3> QED
        BY <2>1, <2>2, <1>1, <3>2 DEF Oriented, ClearingSound
    <2>6. BeliefComplete'
      <3>1. \A d \in Calls : At(d, "active", "read") => d # c
        BY <2>1 DEF At
      <3>2. ASSUME NEW d \in Calls, NEW s, Bringing(d, s)
            PROVE  Bringing(d, s)'
        BY <2>8, <3>1, <3>2 DEF Bringing, At
      <3> QED
        BY <2>1, <1>1, <3>2 DEF Oriented, BeliefComplete
    <2>7. ListComplete'
      BY <2>1, <1>1 DEF Oriented, ListComplete
    <2> QED
      BY <2>3, <2>4, <2>5, <2>6, <2>7 DEF Oriented
  <1> QED
    BY <1>2, <1>3, <1>5, <1>6 DEF Rest

(* The sessions the screen's commands and views speak of keep their chunks.  *)
LEMMA ViewedChunks ==
    ASSUME HomeInv, TablesInv', [HomeNext]_homeVars, NEW s \in Ids
    PROVE  s \in Ids' /\ ChunkOf(s)' = ChunkOf(s)
  <1>1. CASE s = Null
    BY <1>1 DEF Ids, ChunkOf
  <1>2. CASE s # Null
    <2>1. s \in DOMAIN sessions
      BY <1>2 DEF Ids
    <2>2. s \in DOMAIN sessions' /\ stages'[s].chunk = stages[s].chunk
      BY <2>1, HomeStepIsStudyStep, RowsLast DEF HomeInv
    <2> QED
      BY <1>2, <2>2 DEF Ids, ChunkOf
  <1> QED
    BY <1>1, <1>2

(* The chunk of the session a handler was rendered with.                     *)
Viewed(c) == ChunkOf(views[c].active)

(* A view kept keeps its chunk.                                              *)
LEMMA ViewsLast ==
    ASSUME HomeInv, TablesInv', [HomeNext]_homeVars,
           NEW c \in Calls, views'[c] = views[c]
    PROVE  Viewed(c)' = Viewed(c)
  <1> PICK s \in Ids : s = views[c].active
    BY HomeTypeParts DEF HomeInv, ViewsOK, View0
  <1>1. ChunkOf(s)' = ChunkOf(s)
    BY ViewedChunks
  <1> QED
    BY <1>1 DEF Viewed, ChunkOf

(* Under certainty a transaction that wrote was answered with its result.    *)
LEMMA CertainOfWrites ==
    ASSUME HomeInv, NEW c \in Calls, Proceed(c), Tables' # Tables,
           NEW s \in Nat \union {Null}, Committed(c, s)
    PROVE  /\ UNCHANGED <<screen, views, loads, overlap>>
           /\ Certain' => Certain /\ Told(c)'
  <1>1. ASSUME NEW r \in Reply, NEW t \in Nat \union {Null}, Answer(c, r, t)
        PROVE  calls'[c].pc = "replied" /\ calls'[c].reply = r
    BY <1>1, AnswerAnswers DEF HomeInv, TablesInv, Answered
  <1>2. calls'[c].pc = "replied" /\ calls'[c].reply \in {"ok", "dberror"}
    BY <1>1 DEF Committed, Reply, Null
  <1> QED
    BY <1>2, Zenon DEF Proceed, Certain, Told

(* The calls after slot c has been answered.                                 *)
LEMMA OthersInFlight ==
    ASSUME NEW c \in Calls, Answered(c), calls[c].pc # "idle"
    PROVE  /\ InFlight("start")' = InFlight("start")
           /\ InFlight("stop")' = InFlight("stop")
           /\ InFlight("active")' = InFlight("active")
           /\ InFlight("complete")' = InFlight("complete")
           /\ \A d \in Calls :
                 /\ calls'[d].op = calls[d].op
                 /\ calls'[d].chunk = calls[d].chunk
                 /\ calls'[d].at = calls[d].at
                 /\ d # c => calls'[d] = calls[d] /\ (Told(d)' <=> Told(d))
  BY DEF Answered, InFlight, Told

(* start_session's transaction: the session is on its way to the screen.     *)
LEMMA StartWriteKeeps ==
    ASSUME HomeInv, TablesInv', [HomeNext]_homeVars,
           NEW c \in Calls, StartWrite(c), Proceed(c)
    PROVE  Rest'
  <1> PICK k : k = calls[c].chunk
    OBVIOUS
  <1> PICK id : id = Len(sessions) + 1
    OBVIOUS
  <1>1. /\ At(c, "start", "write") /\ k \in Chunks
        /\ c \in StartsInFlight /\ c \in InFlight("start")
    BY DEF StartWrite, HomeInv, TablesInv, CallsOK, At, StartsInFlight,
           InFlight
  <1>2. id \in Nat /\ id \notin DOMAIN sessions /\ id # Null
    BY RowTypes DEF HomeInv, TablesInv, Null
  <1>3. /\ Answered(c)
        /\ calls'[c].reply = "ok" => calls'[c].target = id
    BY <1>2, CommittedAnswers DEF StartWrite, HomeInv, TablesInv
  <1>4. /\ OpenSessions' = OpenSessions \union {id}
        /\ sessions' # sessions
    <2>1. /\ DOMAIN sessions' = DOMAIN sessions \union {id}
          /\ \A s \in DOMAIN sessions : sessions'[s] = sessions[s]
          /\ sessions'[id] = [startedAt |-> calls[c].at, endedAt |-> Null]
      BY StartAppends DEF HomeInv, TablesInv
    <2>2. sessions'[id].endedAt = Null
      BY <2>1
    <2> QED
      BY <1>2, <2>1, <2>2 DEF OpenSessions
  <1>5. /\ chunks' = [chunks EXCEPT ![k] = [status |-> "in_progress",
                                            updatedAt |-> calls[c].at]]
        /\ chunks[k].status # "done"
    BY DEF StartWrite, Startable
  <1>6. /\ \A j \in Chunks : j # k => chunks'[j] = chunks[j]
        /\ chunks'[k].status = "in_progress"
        /\ chunks'[k].updatedAt = calls[c].at
    BY <1>1, <1>5 DEF HomeInv, TablesInv, TypeOK
  <1>7. stages'[id].chunk = k
    <2>1. PICK row : stages' = Append(stages, row) /\ row.chunk = k
      BY DEF StartWrite
    <2>2. stages \in Seq(Stage) /\ Len(stages) = Len(sessions)
      BY DEF HomeInv, TablesInv, TypeOK, StagesMatchSessions
    <2> QED
      BY <2>1, <2>2
  <1>8. UNCHANGED <<screen, views, loads, overlap>>
        /\ (Certain' => Certain /\ Told(c)')
    <2>1. Tables' # Tables /\ Committed(c, id) /\ id \in Nat \union {Null}
      BY <1>2, <1>4 DEF Tables, StartWrite
    <2> QED
      BY <2>1, CertainOfWrites
  <1>9. \A d \in Calls :
            /\ calls'[d].op = calls[d].op /\ calls'[d].chunk = calls[d].chunk
            /\ d # c => calls'[d] = calls[d] /\ (Told(d)' <=> Told(d))
    BY <1>3 DEF Answered, Told
  <1>10. CommandsOK'
    <2>1. \A j \in Chunks : chunks'[j].status # "absent"
      BY <1>6 DEF HomeInv, CommandsOK
    <2>2. /\ calls'[c].op = "start" /\ calls'[c].pc = "replied"
          /\ calls'[c].reply = "ok" => calls'[c].target # Null
      BY <1>1, <1>2, <1>3 DEF Answered, At
    <2>3. ASSUME NEW d \in Calls, calls[d].op = "complete", Told(d)
          PROVE  chunks'[calls[d].chunk].status = "done"
      <3>1. calls[d].chunk \in Chunks /\ chunks[calls[d].chunk].status = "done"
        BY <2>3 DEF HomeInv, CommandsOK, TablesInv, CallsOK
      <3> QED
        BY <1>5, <1>6, <3>1
    <2> QED
      BY <1>9, <2>1, <2>2, <2>3 DEF HomeInv, CommandsOK, Told
  <1>11. Away'
    BY <1>8 DEF HomeInv, Away
  <1>12. ASSUME ~overlap
         PROVE  /\ OpenSessions = {} /\ OpenSessions' = {id}
                /\ StartsInFlight' = {}
    <2>1. StartsApart
      BY <1>12 DEF HomeInv
    <2>2. OpenSessions = {}
      BY <2>1, <1>1 DEF StartsApart, At
    <2>3. StartsInFlight' = {}
      BY <2>1, <1>1, <1>3 DEF StartsApart, StartsInFlight, Answered
    <2> QED
      BY <2>2, <2>3, <1>4
  <1>13. ASSUME ~overlap' PROVE StartsApart'
    <2>1. StartsApart /\ ~overlap
      BY <1>8, <1>13 DEF HomeInv
    <2>2. Freshest(chunks, k)'
      BY <1>1, <1>6, <2>1 DEF StartsApart, Freshest
    <2>3. Freshest(chunks', stages'[id].chunk)
      BY <2>2, <1>7 DEF Freshest
    <2>4. Unfinished' \subseteq {id}
      BY <1>12, <2>1 DEF Unfinished
    <2> QED
      BY <1>12, <2>1, <2>3, <2>4 DEF StartsApart
  <1>14. ASSUME screen'.shown, Certain' PROVE Oriented'
    <2>1. Oriented /\ Told(c)' /\ ~overlap
      BY <1>8, <1>14 DEF HomeInv, Certain
    <2>2. /\ OpenSessions = {} /\ OpenSessions' = {id}
          /\ Unfinished' \subseteq {id}
      BY <1>12, <2>1 DEF Unfinished
    <2>3. /\ InFlight("start")' = InFlight("start")
          /\ InFlight("stop")' = InFlight("stop")
          /\ InFlight("active")' = InFlight("active")
          /\ InFlight("complete")' = InFlight("complete")
          /\ Loading' = Loading
      BY <1>1, <1>3, <1>8, <1>9 DEF Answered, InFlight, Loading, At
    <2>4. /\ InFlight("stop") = {} /\ Loading = {} /\ screen.loaded
          /\ k \in screen.items /\ views[c].heard /\ Clearing = {}
      BY <1>1, <2>1, <2>2 DEF Oriented, Crossings, ClearingSound
    <2>5. Crossings'
      BY <2>1, <2>3, <1>8, <1>9 DEF Oriented, Crossings, InFlight
    <2>6. BeliefSound'
      <3>1. screen'.active = Null
        BY <1>8, <2>1, <2>2, <2>4 DEF Oriented, BeliefSound
      <3>2. ASSUME NEW d \in Calls, Told(d)'
            PROVE  /\ views'[d].heard /\ calls'[d].op \in {"start", "active"}
                      => calls'[d].target \in {id, Null}
                   /\ calls'[d].op # "stop"
        <4>1. CASE d = c
          BY <1>1, <1>3, <2>1, <4>1 DEF Answered, At, Told
        <4>2. CASE d # c
          <5>1. Told(d) /\ calls'[d] = calls[d] /\ views'[d] = views[d]
            BY <1>8, <1>9, <3>2, <4>2
          <5>2. d \notin InFlight("stop")
            BY <2>4
          <5> QED
            BY <2>1, <2>2, <5>1, <5>2
               DEF Oriented, BeliefSound, InFlight, Told
        <4> QED
          BY <4>1, <4>2
      <3> QED
        BY <2>2, <3>1, <3>2 DEF BeliefSound
    <2>7. ClearingSound'
      <3>1. ASSUME NEW d \in Calls
            PROVE  Viewed(d)' = Viewed(d)
        BY <1>8, ViewsLast
      <3>2. Clearing' = {}
        BY <1>9, <2>3, <2>4, <3>1 DEF Clearing, InFlight, Viewed
      <3> QED
        BY <3>2 DEF ClearingSound
    <2>8. BeliefComplete'
      <3>1. Bringing(c, id)'
        BY <1>1, <1>3, <1>8, <2>1, <2>4 DEF Bringing, Answered, At, Told
      <3> QED
        BY <2>2, <3>1 DEF BeliefComplete
    <2>9. ListComplete'
      <3>1. \A l \in Loads : loads'[l].pc # "ok"
        BY <1>8, <2>4 DEF Loading
      <3> QED
        BY <1>7, <1>8, <2>2, <2>4, <3>1 DEF ListComplete
    <2> QED
      BY <2>5, <2>6, <2>7, <2>8, <2>9 DEF Oriented
  <1> QED
    BY <1>10, <1>11, <1>13, <1>14 DEF Rest

(* stop_session's transaction: nothing is open any more, and the answer will *)
(* clear the screen.                                                         *)
LEMMA StopWriteKeeps ==
    ASSUME HomeInv, TablesInv', [HomeNext]_homeVars,
           NEW c \in Calls, StopWrite(c), Proceed(c)
    PROVE  Rest'
  <1> PICK s : s = calls[c].target
    OBVIOUS
  <1>1. At(c, "stop", "write") /\ c \in InFlight("stop")
    BY DEF StopWrite, At, InFlight
  <1>2. /\ s \in DOMAIN sessions /\ sessions[s].endedAt = Null
        /\ DOMAIN sessions' = DOMAIN sessions
        /\ sessions'[s].endedAt # Null
        /\ \A t \in DOMAIN sessions :
              t # s => sessions'[t].endedAt = sessions[t].endedAt
    BY StopCloses DEF HomeInv, Time, Null
  <1>3. /\ OpenSessions' = OpenSessions \ {s}
        /\ s \in OpenSessions
        /\ Tables' # Tables
    BY <1>2 DEF OpenSessions, Tables
  <1>4. /\ chunks' = chunks
        /\ \A t \in DOMAIN sessions : stages'[t].chunk = stages[t].chunk
    BY HomeStepIsStudyStep, RowsLast DEF HomeInv, StopWrite
  <1>5. /\ Unfinished' \subseteq Unfinished
        /\ \A t \in Unfinished : stages'[t].chunk = stages[t].chunk
    BY <1>3, <1>4 DEF Unfinished, OpenSessions
  <1>6. /\ UNCHANGED <<screen, views, loads, overlap>>
        /\ Certain' => Certain /\ Told(c)'
        /\ Answered(c)
    <2>1. Committed(c, s) /\ s \in Nat \union {Null}
      BY <1>2, RowTypes DEF StopWrite, HomeInv, TablesInv
    <2> QED
      BY <1>3, <2>1, CertainOfWrites, CommittedAnswers DEF HomeInv, TablesInv
  <1>7. /\ InFlight("start")' = InFlight("start")
        /\ InFlight("stop")' = InFlight("stop")
        /\ InFlight("active")' = InFlight("active")
        /\ InFlight("complete")' = InFlight("complete")
        /\ \A d \in Calls :
              /\ calls'[d].op = calls[d].op
              /\ calls'[d].chunk = calls[d].chunk
              /\ calls'[d].at = calls[d].at
              /\ d # c => calls'[d] = calls[d] /\ (Told(d)' <=> Told(d))
    BY <1>1, <1>6, OthersInFlight DEF At
  <1>8. CommandsOK'
    BY <1>1, <1>4, <1>6, <1>7 DEF HomeInv, CommandsOK, Answered, Told, At
  <1>9. Away'
    BY <1>6 DEF HomeInv, Away
  <1>10. ASSUME ~overlap' PROVE StartsApart'
    <2>1. StartsApart
      BY <1>6, <1>10 DEF HomeInv
    <2>2. StartsInFlight' \subseteq StartsInFlight
          /\ \A d \in StartsInFlight : d # c
      BY <1>1, <1>7 DEF StartsInFlight, At
    <2>3. \A d \in StartsInFlight : calls'[d] = calls[d]
      BY <1>7, <2>2 DEF StartsInFlight
    <2>4. \A t \in Unfinished' : Freshest(chunks', stages'[t].chunk)
      BY <1>4, <1>5, <2>1 DEF StartsApart
    <2> QED
      BY <1>3, <1>4, <2>1, <2>2, <2>3, <2>4 DEF StartsApart
  <1>11. ASSUME screen'.shown, Certain' PROVE Oriented'
    <2>1. Oriented /\ Told(c)' /\ StartsApart
      BY <1>6, <1>11 DEF HomeInv, Certain
    <2>2. OpenSessions' = {} /\ Unfinished' = {}
      BY <1>3, <2>1 DEF StartsApart, Unfinished
    <2>3. InFlight("start") = {} /\ InFlight("active") = {}
      BY <1>1, <2>1 DEF Oriented, Crossings
    <2>4. Crossings'
      BY <1>6, <1>7, <2>1, <2>3 DEF Oriented, Crossings, InFlight
    <2>5. BeliefSound'
      <3>1. c \in InFlight("stop")'
        BY <1>1, <1>7
      <3>2. \A d \in Calls : calls'[d].op \in {"start", "active"} => ~Told(d)'
        BY <1>7, <2>3 DEF InFlight, Told
      <3> QED
        BY <2>1, <2>2, <3>1, <3>2 DEF BeliefSound
    <2>6. ClearingSound' /\ BeliefComplete' /\ ListComplete'
      BY <1>7, <2>2, <2>3 DEF ClearingSound, BeliefComplete, ListComplete
    <2> QED
      BY <2>4, <2>5, <2>6 DEF Oriented
  <1> QED
    BY <1>8, <1>9, <1>10, <1>11 DEF Rest

(* complete_chunk's statement: a session of that chunk is given up.          *)
LEMMA CompleteWriteKeeps ==
    ASSUME HomeInv, TablesInv', [HomeNext]_homeVars,
           NEW c \in Calls, CompleteWrite(c), Proceed(c)
    PROVE  Rest'
  <1> PICK k : k = calls[c].chunk
    OBVIOUS
  <1>1. At(c, "complete", "write") /\ k \in Chunks
    BY DEF CompleteWrite, At, HomeInv, TablesInv, CallsOK
  <1>2. /\ \A j \in Chunks : j # k => chunks'[j] = chunks[j]
        /\ chunks'[k].status = "done"
    BY <1>1 DEF CompleteWrite, HomeInv, TablesInv, TypeOK
  <1>3. UNCHANGED <<sessions, stages, OpenSessions>>
    BY DEF CompleteWrite, OpenSessions
  <1>4. /\ UNCHANGED <<screen, views, loads, overlap>>
        /\ Certain' => Certain
        /\ Answered(c)
    <2>1. Committed(c, Null) /\ Null \in Nat \union {Null}
      BY DEF CompleteWrite
    <2>2. Answered(c)
      BY <2>1, CommittedAnswers DEF HomeInv, TablesInv
    <2> QED
      BY <2>2, Zenon DEF Proceed, Certain
  <1>5. /\ InFlight("start")' = InFlight("start")
        /\ InFlight("stop")' = InFlight("stop")
        /\ InFlight("active")' = InFlight("active")
        /\ InFlight("complete")' = InFlight("complete")
        /\ \A d \in Calls :
              /\ calls'[d].op = calls[d].op
              /\ calls'[d].chunk = calls[d].chunk
              /\ calls'[d].at = calls[d].at
              /\ d # c => calls'[d] = calls[d] /\ (Told(d)' <=> Told(d))
    BY <1>1, <1>4, OthersInFlight DEF At
  <1>6. \A s \in OpenSessions : stages[s].chunk \in Chunks
    BY RowTypes DEF HomeInv, TablesInv, StagesMatchSessions, OpenSessions
  <1>7. /\ Unfinished' \subseteq Unfinished
        /\ \A s \in Unfinished' : stages[s].chunk # k
    BY <1>2, <1>3, <1>6 DEF Unfinished
  <1>8. CommandsOK'
    <2>1. \A j \in Chunks :
             /\ chunks'[j].status # "absent"
             /\ chunks[j].status = "done" => chunks'[j].status = "done"
      BY <1>2 DEF HomeInv, CommandsOK
    <2>2. \A d \in Calls :
             calls[d].op = "complete" => calls[d].chunk \in Chunks
      BY DEF HomeInv, TablesInv, CallsOK
    <2> QED
      BY <1>1, <1>2, <1>4, <1>5, <2>1, <2>2
         DEF HomeInv, CommandsOK, Answered, Told, At
  <1>9. Away'
    BY <1>4 DEF HomeInv, Away
  <1>10. ASSUME ~overlap' PROVE StartsApart'
    <2>1. StartsApart
      BY <1>4, <1>10 DEF HomeInv
    <2>2. /\ StartsInFlight' \subseteq StartsInFlight
          /\ \A d \in StartsInFlight : calls'[d] = calls[d]
      BY <1>1, <1>5 DEF StartsInFlight, At
    <2>3. \A j \in Chunks :
             chunks'[j].status = "in_progress" => chunks'[j] = chunks[j]
      BY <1>2
    <2>4. \A s \in Unfinished' : Freshest(chunks', stages[s].chunk)
      <3> SUFFICES ASSUME NEW s \in Unfinished'
                   PROVE  Freshest(chunks', stages[s].chunk)
        OBVIOUS
      <3>1. Freshest(chunks, stages[s].chunk)
        BY <1>7, <2>1 DEF StartsApart
      <3>2. stages[s].chunk \in Chunks /\ stages[s].chunk # k
        BY <1>6, <1>7 DEF Unfinished
      <3> QED
        BY <1>2, <2>3, <3>1, <3>2 DEF Freshest
    <2> QED
      BY <1>3, <2>1, <2>2, <2>3, <2>4 DEF StartsApart
  <1>11. ASSUME screen'.shown, Certain' PROVE Oriented'
    <2>1. Oriented
      BY <1>4, <1>11 DEF HomeInv
    <2>2. Crossings'
      BY <1>4, <1>5, <2>1 DEF Oriented, Crossings, InFlight, Loading
    <2>3. \A d \in Calls :
             calls[d].op # "complete"
             => d # c /\ (Told(d)' <=> Told(d)) /\ calls'[d] = calls[d]
      BY <1>1, <1>5 DEF At
    <2>4. BeliefSound'
      BY <1>3, <1>4, <1>5, <2>1, <2>3 DEF Oriented, BeliefSound, InFlight
    <2>5. ClearingSound'
      <3>1. Clearing' = Clearing
        BY <1>3, <1>4, <1>5 DEF Clearing, ChunkOf, InFlight
      <3> QED
        BY <1>3, <1>4, <1>5, <2>1, <3>1 DEF Oriented, ClearingSound
    <2>6. BeliefComplete'
      <3>1. ASSUME NEW d \in Calls, NEW s, Bringing(d, s)
            PROVE  Bringing(d, s)'
        BY <1>4, <2>3, <3>1 DEF Bringing, At
      <3> QED
        BY <1>4, <1>7, <2>1, <3>1 DEF Oriented, BeliefComplete
    <2>7. ListComplete'
      BY <1>3, <1>4, <1>7, <2>1 DEF Oriented, ListComplete
    <2> QED
      BY <2>2, <2>4, <2>5, <2>6, <2>7 DEF Oriented
  <1> QED
    BY <1>8, <1>9, <1>10, <1>11 DEF Rest

(* get_active_session finds what is open, if anything is.                    *)
LEMMA ActiveReadKeeps ==
    ASSUME HomeInv, NEW c \in Calls, ActiveRead(c), Proceed(c)
    PROVE  Rest'
  <1>1. At(c, "active", "read") /\ c \in InFlight("active")
    BY DEF ActiveRead, At, InFlight
  <1>2. /\ UNCHANGED <<chunks, sessions, stages>>
        /\ OpenSessions' = OpenSessions /\ Unfinished' = Unfinished
        /\ \A k \in Chunks : Freshest(chunks, k)' = Freshest(chunks, k)
    BY SameTables DEF ActiveRead
  <1>3. /\ UNCHANGED <<screen, views, loads, overlap>>
        /\ Certain' => Certain
    BY Zenon DEF Proceed, Certain
  <1>4. /\ Answered(c) /\ Told(c)'
        /\ \/ OpenSessions = {} /\ calls'[c].target = Null
           \/ calls'[c].target \in OpenSessions
    <2>1. ASSUME NEW t \in Nat \union {Null}, Answer(c, "ok", t)
          PROVE  Answered(c) /\ Told(c)' /\ calls'[c].target = t
      BY <2>1, AnswerAnswers DEF HomeInv, TablesInv, Answered, Reply, Told
    <2>2. OpenRows = OpenSessions /\ OpenSessions \subseteq Nat
      BY JoinFindsOpen, RowTypes DEF HomeInv, TablesInv, OpenSessions
    <2>3. CASE OpenRows = {} /\ Answer(c, "ok", Null)
      <3>1. Answered(c) /\ Told(c)' /\ calls'[c].target = Null
        BY <2>1, <2>3
      <3> QED
        BY <2>2, <2>3, <3>1
    <2>4. ASSUME NEW s \in OpenRows, Answer(c, "ok", s)
          PROVE  Answered(c) /\ Told(c)' /\ calls'[c].target \in OpenSessions
      <3>1. s \in Nat \union {Null}
        BY <2>2
      <3>2. Answered(c) /\ Told(c)' /\ calls'[c].target = s
        BY <2>1, <2>4, <3>1
      <3> QED
        BY <2>2, <3>2
    <2> QED
      BY <2>3, <2>4, Zenon DEF ActiveRead
  <1>5. /\ InFlight("start")' = InFlight("start")
        /\ InFlight("stop")' = InFlight("stop")
        /\ InFlight("active")' = InFlight("active")
        /\ InFlight("complete")' = InFlight("complete")
        /\ \A d \in Calls :
              /\ calls'[d].op = calls[d].op
              /\ calls'[d].chunk = calls[d].chunk
              /\ calls'[d].at = calls[d].at
              /\ d # c => calls'[d] = calls[d] /\ (Told(d)' <=> Told(d))
    BY <1>1, <1>4, OthersInFlight DEF At
  <1>6. CommandsOK'
    BY <1>1, <1>2, <1>4, <1>5 DEF HomeInv, CommandsOK, Answered, Told, At
  <1>7. Away'
    BY <1>3 DEF HomeInv, Away
  <1>8. ASSUME ~overlap' PROVE StartsApart'
    <2>1. StartsApart
      BY <1>3, <1>8 DEF HomeInv
    <2>2. /\ StartsInFlight' \subseteq StartsInFlight
          /\ \A d \in StartsInFlight : calls'[d] = calls[d]
      BY <1>1, <1>5 DEF StartsInFlight, At
    <2> QED
      BY <1>2, <2>1, <2>2 DEF StartsApart, Freshest
  <1>9. ASSUME screen'.shown, Certain' PROVE Oriented'
    <2>1. Oriented /\ StartsApart
      BY <1>3, <1>9 DEF HomeInv, Certain
    <2>2. Crossings'
      BY <1>3, <1>5, <2>1 DEF Oriented, Crossings, InFlight, Loading
    <2>3. BeliefSound'
      <3>1. \A d \in InFlight("stop") : d # c
        BY <1>1 DEF InFlight, At
      <3> QED
        BY <1>1, <1>2, <1>3, <1>4, <1>5, <2>1, <3>1
           DEF Oriented, BeliefSound, InFlight, At
    <2>4. ClearingSound'
      <3>1. Clearing' = Clearing
        BY <1>2, <1>3, <1>5 DEF Clearing, ChunkOf, InFlight
      <3> QED
        BY <1>2, <1>3, <1>5, <2>1, <3>1 DEF Oriented, ClearingSound
    <2>5. BeliefComplete'
      <3>1. ASSUME NEW d \in Calls, NEW s \in Unfinished, Bringing(d, s)
            PROVE  Bringing(d, s)'
        <4>1. CASE d # c
          BY <1>3, <1>5, <3>1, <4>1 DEF Bringing, At
        <4>2. CASE d = c
          <5>1. calls'[c].target = s
            BY <1>4, <2>1 DEF Unfinished, StartsApart
          <5> QED
            BY <1>1, <1>3, <1>4, <1>5, <3>1, <4>2, <5>1 DEF Bringing, At
        <4> QED
          BY <4>1, <4>2
      <3> QED
        BY <1>2, <1>3, <2>1, <3>1 DEF Oriented, BeliefComplete
    <2>6. ListComplete'
      BY <1>2, <1>3, <2>1 DEF Oriented, ListComplete
    <2> QED
      BY <2>2, <2>3, <2>4, <2>5, <2>6 DEF Oriented
  <1> QED
    BY <1>6, <1>7, <1>8, <1>9 DEF Rest

(* The steps of a command that change no table and answer with nothing.      *)
LEMMA QuietSteps ==
    ASSUME HomeInv, NEW c \in Calls,
           \/ StartRead(c) \/ StartRefused(c) \/ StopRead(c) \/ StopRefused(c)
           \/ CompleteRefused(c) \/ Fail(c)
    PROVE  Moved(c) /\ UNCHANGED Tables
  <1> USE DEF HomeInv, TablesInv
  <1>1. ASSUME NEW r \in {"invalid", "dberror"}, Answer(c, r, Null),
               calls[c].pc \in {"read", "write"}
        PROVE  Moved(c)
    <2>1. Answered(c) /\ calls'[c].reply = r
      BY <1>1, AnswerAnswers DEF Reply
    <2> QED
      BY <1>1, <2>1 DEF Moved, Answered
  <1>2. CASE StartRead(c)
    <2>1. CASE OpenRows # {}
      BY <1>1, <1>2, <2>1 DEF StartRead, At
    <2>2. CASE OpenRows = {}
      <3>1. calls' = [calls EXCEPT ![c].pc = "write"] /\ OpenSessions = {}
        BY <1>2, <2>2, JoinFindsOpen DEF StartRead
      <3> QED
        BY <1>2, <3>1 DEF Moved, StartRead, At, TypeOK, Call
    <2> QED
      BY <1>2, <2>1, <2>2 DEF StartRead
  <1>3. CASE StopRead(c)
    <2>1. ASSUME NEW s \in OpenRows,
                 calls' = [calls EXCEPT ![c] =
                              [@ EXCEPT !.pc = "write", !.target = s]]
          PROVE  Moved(c)
      BY <1>3, <2>1 DEF Moved, StopRead, At, TypeOK, Call
    <2> QED
      BY <1>1, <1>3, <2>1 DEF StopRead, At
  <1>4. CASE StartRefused(c) \/ StopRefused(c) \/ CompleteRefused(c) \/ Fail(c)
    BY <1>1, <1>4 DEF StartRefused, StopRefused, CompleteRefused, Fail, At
  <1> QED
    BY <1>2, <1>3, <1>4 DEF StartRead, StopRead, StartRefused, StopRefused,
                            CompleteRefused, Fail

(* A step of a command under way.                                            *)
LEMMA ProceedKeeps ==
    ASSUME HomeInv, TablesInv', [HomeNext]_homeVars, NEW c \in Calls,
           Proceed(c) \/ ProceedFails(c)
    PROVE  Rest'
  <1>1. CASE ProceedFails(c)
    <2>1. Moved(c) /\ UNCHANGED Tables
      BY <1>1, QuietSteps DEF ProceedFails
    <2>2. doubt \/ calls[c].op = "active" => doubt'
      BY <1>1, Zenon DEF ProceedFails
    <2>3. UNCHANGED <<screen, views, loads, overlap>>
      BY <1>1 DEF ProceedFails
    <2> QED
      BY <2>1, <2>2, <2>3, MovedKeeps
  <1>2. CASE Proceed(c)
    <2>1. ASSUME \/ StartRead(c) \/ StartRefused(c) \/ StopRead(c)
                 \/ StopRefused(c) \/ CompleteRefused(c)
          PROVE  Rest'
      <3>1. Moved(c) /\ UNCHANGED Tables
        BY <2>1, QuietSteps
      <3>2. calls[c].op # "active"
        BY <2>1 DEF StartRead, StartRefused, StopRead, StopRefused,
                    CompleteRefused, At
      <3>3. doubt \/ calls[c].op = "active" => doubt'
        BY <1>2, <3>2, Zenon DEF Proceed
      <3>4. UNCHANGED <<screen, views, loads, overlap>>
        BY <1>2 DEF Proceed
      <3> QED
        BY <3>1, <3>3, <3>4, MovedKeeps
    <2>2. ~IndexWrite(c)
      BY DEF IndexWrite, At, HomeInv, CommandsOK
    <2> QED
      BY <1>2, <2>1, <2>2, StartWriteKeeps, StopWriteKeeps, CompleteWriteKeeps,
         ActiveReadKeeps DEF Proceed, Work
  <1> QED
    BY <1>1, <1>2

(* A command begun is one more in flight, and nothing else.                  *)
LEMMA InvokedInFlight ==
    ASSUME TypeOK, NEW c \in Calls, NEW op \in Op,
           NEW pc \in {"read", "write"},
           NEW k \in Chunks \union {NoChunk}, NEW at \in Time,
           Invoke(c, op, pc, k, at)
    PROVE  /\ calls[c].pc = "idle" /\ UNCHANGED Tables
           /\ calls'[c] = [op |-> op, pc |-> pc, chunk |-> k, at |-> at,
                           target |-> Null, reply |-> "none"]
           /\ \A d \in Calls : d # c => calls'[d] = calls[d]
           /\ ~Told(c) /\ ~Told(c)'
           /\ \A d \in Calls : Told(d)' <=> Told(d)
           /\ InFlight("start")' =
                 InFlight("start") \union {d \in {c} : op = "start"}
           /\ InFlight("stop")' =
                 InFlight("stop") \union {d \in {c} : op = "stop"}
           /\ InFlight("active")' =
                 InFlight("active") \union {d \in {c} : op = "active"}
           /\ InFlight("complete")' =
                 InFlight("complete") \union {d \in {c} : op = "complete"}
  <1>1. /\ calls'[c] = [op |-> op, pc |-> pc, chunk |-> k, at |-> at,
                        target |-> Null, reply |-> "none"]
        /\ \A d \in Calls : d # c => calls'[d] = calls[d]
        /\ calls[c].pc = "idle" /\ UNCHANGED Tables
    BY DEF Invoke, TypeOK
  <1>2. calls'[c].op = op /\ calls'[c].pc = pc /\ pc # "idle" /\ pc # "replied"
    BY <1>1
  <1>3. ~Told(c) /\ ~Told(c)' /\ \A d \in Calls : Told(d)' <=> Told(d)
    BY <1>1, <1>2 DEF Told
  <1>4. ASSUME NEW o
        PROVE  {d \in Calls : calls'[d].op = o /\ calls'[d].pc # "idle"} =
                 {d \in Calls : calls[d].op = o /\ calls[d].pc # "idle"}
                   \union {d \in {c} : op = o}
    BY <1>1, <1>2
  <1> QED
    BY <1>1, <1>3, <1>4 DEF InFlight

(* A completion has no read before its write.                                *)
EntersAt(op) == IF op = "complete" THEN "write" ELSE "read"

(* A click: what it leaves of the rest is what it brings.                    *)
LEMMA ClickKeeps ==
    ASSUME HomeInv, NEW c \in Calls, NEW op \in {"start", "stop", "complete"},
           NEW k \in Chunks \union {NoChunk},
           Invoke(c, op, EntersAt(op), k, clock),
           Usable, Click(c), Certain' => Certain,
           op = "start" => /\ k \in screen.items
                           /\ Certain' => Loading = {}
                           /\ ~overlap' => ~overlap /\ StartsInFlight = {}
                           /\ \A j \in Chunks : chunks[j].updatedAt < clock
                           /\ Certain' =>
                                 InFlight("stop") \union Clearing = {},
           op = "stop" => /\ overlap' = overlap
                          /\ Certain' => InFlight("start") = {}
                          /\ Certain' => InFlight("active") = {},
           op = "complete" => overlap' = overlap /\ k \in Chunks
    PROVE  Rest'
  <1> PICK pc : pc = EntersAt(op)
    OBVIOUS
  <1> USE DEF EntersAt
  <1>1. /\ calls[c].pc = "idle" /\ UNCHANGED Tables
        /\ calls'[c] = [op |-> op, pc |-> pc, chunk |-> k, at |-> clock,
                        target |-> Null, reply |-> "none"]
        /\ \A d \in Calls : d # c => calls'[d] = calls[d]
        /\ ~Told(c) /\ ~Told(c)'
        /\ \A d \in Calls : Told(d)' <=> Told(d)
        /\ InFlight("start")' =
              InFlight("start") \union {d \in {c} : op = "start"}
        /\ InFlight("stop")' =
              InFlight("stop") \union {d \in {c} : op = "stop"}
        /\ InFlight("active")' =
              InFlight("active") \union {d \in {c} : op = "active"}
        /\ InFlight("complete")' =
              InFlight("complete") \union {d \in {c} : op = "complete"}
    <2>1. pc \in {"read", "write"} /\ op \in Op /\ clock \in Time /\ TypeOK
          /\ Invoke(c, op, pc, k, clock)
      BY DEF Op, HomeInv, TablesInv, TypeOK
    <2> QED
      BY <2>1, InvokedInFlight
  <1>2. /\ calls'[c].op = op /\ calls'[c].pc = pc /\ calls'[c].chunk = k
        /\ calls'[c].at = clock
    BY <1>1
  <1>3. /\ UNCHANGED <<chunks, sessions, stages>>
        /\ OpenSessions' = OpenSessions /\ Unfinished' = Unfinished
    BY <1>1, SameTables
  <1>4. /\ UNCHANGED <<screen, loads>> /\ screen.shown /\ screen.loaded
        /\ views'[c] = [heard |-> TRUE, active |-> screen.active]
        /\ \A d \in Calls : d # c => views'[d] = views[d]
    BY HomeTypeParts DEF Click, View, Usable, HomeInv, ViewsOK
  <1>5. views'[c].heard /\ views'[c].active = screen.active
    BY <1>4
  <1>6. CommandsOK'
    <2>1. calls'[c].op = "complete" => calls'[c].pc = "write"
      BY <1>2
    <2>2. calls'[c].op # "active"
      BY <1>2
    <2> QED
      BY <1>1, <1>2, <1>3, <2>1, <2>2 DEF HomeInv, CommandsOK, Told
  <1>7. Away'
    BY <1>4 DEF Away
  <1>8. ASSUME ~overlap' PROVE StartsApart'
    <2>1. StartsApart
      BY <1>8 DEF HomeInv
    <2>2. CASE op = "start"
      <3>1. StartsInFlight' \subseteq {c}
        BY <1>1, <1>8, <2>2 DEF StartsInFlight
      <3>2. pc = "read"
        BY <2>2
      <3> QED
        BY <1>2, <1>3, <2>1, <2>2, <3>1, <3>2 DEF StartsApart, Freshest
    <2>3. CASE op # "start"
      <3>1. StartsInFlight' = StartsInFlight /\ c \notin StartsInFlight
        BY <1>1, <1>2, <2>3 DEF StartsInFlight
      <3>2. \A d \in StartsInFlight : calls'[d] = calls[d]
        BY <1>1, <3>1 DEF StartsInFlight
      <3> QED
        BY <1>3, <2>1, <3>1, <3>2 DEF StartsApart, Freshest
    <2> QED
      BY <2>2, <2>3
  <1>9. ASSUME screen'.shown, Certain' PROVE Oriented'
    <2>1. Oriented /\ StartsApart
      BY <1>4, <1>9 DEF HomeInv, Certain
    <2>2. Crossings'
      <3>1. Loading' = Loading
        BY <1>4 DEF Loading
      <3>2. \A d \in InFlight("start") \union InFlight("stop") :
               d # c /\ views'[d] = views[d] /\ calls'[d] = calls[d]
        BY <1>1, <1>4 DEF InFlight
      <3>3. \A d \in InFlight("start")' \union InFlight("stop")' :
               views'[d].heard
        BY <1>1, <1>5, <2>1, <3>2 DEF Oriented, Crossings
      <3>4. InFlight("stop")' # {} =>
               InFlight("start")' = {} /\ InFlight("active")' = {}
        BY <1>1, <1>9, <2>1 DEF Oriented, Crossings
      <3>5. ASSUME NEW d \in InFlight("start")'
            PROVE  /\ Loading = {} /\ screen.loaded
                   /\ calls'[d].chunk \in screen.items
        <4>1. CASE d \in InFlight("start")
          <5>1. calls'[d] = calls[d]
            BY <3>2, <4>1
          <5>2. /\ Loading = {} /\ screen.loaded
                /\ calls[d].chunk \in screen.items
            BY <2>1, <4>1 DEF Oriented, Crossings
          <5> QED
            BY <5>1, <5>2
        <4>2. CASE d \notin InFlight("start")
          <5>1. d = c /\ op = "start"
            BY <1>1, <3>5, <4>2
          <5>2. Loading = {} /\ screen.loaded /\ k \in screen.items
            BY <1>4, <1>9, <5>1
          <5>3. calls'[d].chunk = k
            BY <1>2, <5>1
          <5> QED
            BY <5>2, <5>3
        <4> QED
          BY <4>1, <4>2
      <3> QED
        BY <1>4, <3>1, <3>3, <3>4, <3>5 DEF Crossings
    <2>3. \A d \in Calls :
             Told(d) => d # c /\ calls'[d] = calls[d] /\ views'[d] = views[d]
      BY <1>1, <1>4
    <2>4. BeliefSound'
      <3>1. InFlight("stop") \subseteq Calls
        BY DEF InFlight
      <3>2. (\E d \in InFlight("stop") : Told(d)) =>
               \E d \in InFlight("stop")' : Told(d)'
        BY <1>1, <3>1
      <3> QED
        BY <1>1, <1>3, <1>4, <2>1, <2>3, <3>2 DEF Oriented, BeliefSound
    <2>5. ClearingSound'
      <3>1. ASSUME NEW d \in Clearing', d # c
            PROVE  d \in Clearing /\ views'[d] = views[d]
        BY <1>1, <1>3, <1>4, <3>1 DEF Clearing, InFlight, ChunkOf
      <3>2. ASSUME c \in Clearing'
            PROVE  /\ OpenSessions \subseteq {screen.active}
                   /\ OpenSessions = {} => InFlight("start") = {}
                   /\ op # "start"
        <4>1. op = "complete" /\ k = ChunkOf(screen.active)
          BY <1>1, <1>2, <1>3, <1>5, <3>2 DEF Clearing, InFlight, ChunkOf
        <4>2. screen.active # Null
          BY <4>1, ChunksAssumption DEF ChunkOf
        <4>3. CASE screen.active \in OpenSessions
          BY <2>1, <4>1, <4>3 DEF StartsApart
        <4>4. CASE \E d \in InFlight("stop") : Told(d)
          <5>1. OpenSessions = {} /\ InFlight("start") = {}
            BY <2>1, <4>4 DEF Oriented, BeliefSound, Crossings, InFlight
          <5> QED
            BY <4>1, <5>1
        <4> QED
          BY <2>1, <4>2, <4>3, <4>4 DEF Oriented, BeliefSound
      <3>3. Clearing # {} => op # "start"
        BY <1>9
      <3>4. op # "start" => InFlight("start")' = InFlight("start")
        BY <1>1
      <3>5. ASSUME NEW d \in Clearing'
            PROVE  /\ OpenSessions' \subseteq {views'[d].active}
                   /\ OpenSessions' = {} => InFlight("start")' = {}
        <4>1. CASE d = c
          BY <1>3, <1>5, <3>2, <3>4, <3>5, <4>1
        <4>2. CASE d # c
          <5>1. d \in Clearing /\ views'[d] = views[d]
            BY <3>1, <3>5, <4>2
          <5> QED
            BY <1>3, <2>1, <3>3, <3>4, <5>1 DEF Oriented, ClearingSound
        <4> QED
          BY <4>1, <4>2
      <3> QED
        BY <3>5 DEF ClearingSound
    <2>6. BeliefComplete'
      <3>1. ASSUME NEW d \in Calls, NEW s, Bringing(d, s)
            PROVE  Bringing(d, s)'
        <4>1. d # c
          BY <1>1, <3>1 DEF Bringing, At
        <4> QED
          BY <1>1, <1>4, <3>1, <4>1 DEF Bringing, At
      <3> QED
        BY <1>3, <1>4, <2>1, <3>1 DEF Oriented, BeliefComplete
    <2>7. ListComplete'
      BY <1>3, <1>4, <2>1 DEF Oriented, ListComplete
    <2> QED
      BY <2>2, <2>4, <2>5, <2>6, <2>7 DEF Oriented
  <1> QED
    BY <1>6, <1>7, <1>8, <1>9 DEF Rest

(* The three buttons.                                                        *)
LEMMA ClicksKeep ==
    ASSUME HomeInv, NEW c \in Calls,
           \/ \E k \in Chunks : ClickStart(c, k) \/ ClickComplete(c, k)
           \/ ClickStop(c)
    PROVE  Rest'
  <1>1. ASSUME NEW k \in Chunks, ClickStart(c, k) PROVE Rest'
    <2> DEFINE op == "start"
    <2>1. /\ Invoke(c, op, EntersAt(op), k, clock)
          /\ Usable /\ Click(c) /\ k \in screen.items
          /\ \A j \in Chunks : chunks[j].updatedAt < clock
      BY <1>1 DEF ClickStart, InvokeStart, EntersAt
    <2>2. /\ ~overlap' => ~overlap /\ StartsInFlight = {}
          /\ Certain' => /\ Certain /\ Loading = {}
                         /\ InFlight("stop") \union Clearing = {}
      BY <1>1, Zenon DEF ClickStart, Certain
    <2>3. /\ op \in {"start", "stop", "complete"} /\ op # "stop"
          /\ op # "complete"
      OBVIOUS
    <2> HIDE DEF op
    <2> QED
      BY <2>1, <2>2, <2>3, ClickKeeps
  <1>2. ASSUME NEW k \in Chunks, ClickComplete(c, k) PROVE Rest'
    <2> DEFINE op == "complete"
    <2>1. /\ Invoke(c, op, EntersAt(op), k, clock)
          /\ Usable /\ Click(c) /\ UNCHANGED <<doubt, overlap>>
      BY <1>2 DEF ClickComplete, InvokeComplete, EntersAt
    <2>2. Certain' => Certain
      BY <2>1 DEF Certain
    <2>3. op \in {"start", "stop", "complete"} /\ op # "stop" /\ op # "start"
      OBVIOUS
    <2> HIDE DEF op
    <2> QED
      BY <2>1, <2>2, <2>3, ClickKeeps
  <1>3. ASSUME ClickStop(c) PROVE Rest'
    <2> DEFINE op == "stop"
    <2>1. /\ Invoke(c, op, EntersAt(op), NoChunk, clock)
          /\ Usable /\ Click(c) /\ overlap' = overlap
      BY <1>3 DEF ClickStop, InvokeStop, EntersAt, StopOffered
    <2>2. Certain' => /\ Certain
                      /\ InFlight("start") = {} /\ InFlight("active") = {}
      BY <1>3, Zenon DEF ClickStop, Certain
    <2>3. /\ op \in {"start", "stop", "complete"} /\ op # "start"
          /\ op # "complete"
      OBVIOUS
    <2> HIDE DEF op
    <2> QED
      BY <2>1, <2>2, <2>3, ClickKeeps
  <1> QED
    BY <1>1, <1>2, <1>3

(* The first render finds a clean screen.                                    *)
LEMMA MountKeeps ==
    ASSUME HomeInv, NEW c \in Calls, NEW l \in Loads, Mount(c, l)
    PROVE  Rest'
  <1>1. /\ calls[c].pc = "idle" /\ UNCHANGED Tables
        /\ calls'[c] = [op |-> "active", pc |-> "read", chunk |-> NoChunk,
                        at |-> 0, target |-> Null, reply |-> "none"]
        /\ \A d \in Calls : d # c => calls'[d] = calls[d]
        /\ ~Told(c) /\ ~Told(c)'
        /\ \A d \in Calls : Told(d)' <=> Told(d)
        /\ InFlight("start")' =
              InFlight("start") \union {d \in {c} : "active" = "start"}
        /\ InFlight("stop")' =
              InFlight("stop") \union {d \in {c} : "active" = "stop"}
        /\ InFlight("complete")' =
              InFlight("complete") \union {d \in {c} : "active" = "complete"}
    <2>1. "active" \in Op /\ "read" \in {"read", "write"} /\ 0 \in Time
          /\ NoChunk \in Chunks \union {NoChunk} /\ TypeOK
          /\ Invoke(c, "active", "read", NoChunk, 0)
      BY ZeroIsTime DEF Op, HomeInv, TablesInv, Mount, InvokeActive
    <2> QED
      BY <2>1, InvokedInFlight
  <1>2. /\ calls'[c].op = "active" /\ calls'[c].pc = "read"
        /\ InFlight("start")' = InFlight("start")
        /\ InFlight("stop")' = InFlight("stop")
        /\ InFlight("complete")' = InFlight("complete")
    <2>1. /\ {d \in {c} : "active" = "start"} = {}
          /\ {d \in {c} : "active" = "stop"} = {}
          /\ {d \in {c} : "active" = "complete"} = {}
      OBVIOUS
    <2>2. calls'[c].op = "active" /\ calls'[c].pc = "read"
      BY <1>1
    <2> QED
      BY <1>1, <2>1, <2>2
  <1>3. /\ UNCHANGED <<chunks, sessions, stages>>
        /\ OpenSessions' = OpenSessions /\ Unfinished' = Unfinished
    BY <1>1, SameTables
  <1>4. /\ views = [d \in Calls |-> NoView] /\ loads = [m \in Loads |-> NoLoad]
        /\ screen' = [Unmounted EXCEPT !.shown = TRUE]
    BY DEF HomeInv, Away, Mount
  <1>5. /\ screen'.shown /\ ~screen'.loaded /\ screen'.active = Null
    BY <1>4 DEF Unmounted
  <1>6. /\ views'[c].heard
        /\ \A d \in Calls :
              d # c => ~views'[d].heard /\ views'[d].active = Null
    BY <1>4 DEF Mount, View, NoView
  <1>7. \A m \in Loads : loads'[m].pc # "ok"
    <2>1. [NoLoad EXCEPT !.pc = "sent", !.at = clock].pc = "sent"
      BY DEF NoLoad
    <2> QED
      BY <1>4, <2>1 DEF Mount, Load, NoLoad
  <1>8. CommandsOK'
    BY <1>1, <1>2, <1>3 DEF HomeInv, CommandsOK, Told
  <1>9. Away'
    BY <1>5 DEF Away
  <1>10. ASSUME ~overlap' PROVE StartsApart'
    <2>1. StartsApart
      BY <1>10 DEF HomeInv, Mount
    <2>2. StartsInFlight' = StartsInFlight /\ c \notin StartsInFlight
      BY <1>1, <1>2 DEF StartsInFlight
    <2>3. \A d \in StartsInFlight : calls'[d] = calls[d]
      BY <1>1, <2>2 DEF StartsInFlight
    <2> QED
      BY <1>3, <2>1, <2>2, <2>3 DEF StartsApart, Freshest
  <1>11. ASSUME Certain' PROVE Oriented'
    <2>1. InFlight("start") = {} /\ InFlight("stop") = {}
      BY <1>11, Zenon DEF Certain, Mount
    <2>2. Crossings'
      BY <1>2, <2>1 DEF Crossings
    <2>3. BeliefSound'
      <3>1. \A d \in Calls : calls'[d].op = "stop" => ~Told(d)'
        BY <1>2, <2>1 DEF InFlight, Told
      <3> QED
        BY <1>1, <1>5, <1>6, <3>1 DEF BeliefSound
    <2>4. ClearingSound'
      <3>1. ASSUME NEW d \in Calls, d \in InFlight("complete")'
            PROVE  calls'[d].chunk # ChunkOf(views[d].active)'
        <4>1. d # c /\ calls'[d].op = "complete"
          BY <1>2, <3>1 DEF InFlight
        <4>2. calls'[d].chunk \in Chunks
          BY <1>1, <4>1 DEF HomeInv, TablesInv, CallsOK
        <4> QED
          BY <1>6, <4>1, <4>2, ChunksAssumption DEF ChunkOf
      <3>2. Clearing' = {}
        BY <3>1 DEF Clearing, InFlight
      <3> QED
        BY <3>2 DEF ClearingSound
    <2>5. BeliefComplete'
      <3>1. \A s : Bringing(c, s)'
        BY <1>2, <1>6 DEF Bringing, At
      <3> QED
        BY <3>1 DEF BeliefComplete
    <2>6. ListComplete'
      BY <1>5, <1>7 DEF ListComplete
    <2> QED
      BY <2>2, <2>3, <2>4, <2>5, <2>6 DEF Oriented
  <1> QED
    BY <1>8, <1>9, <1>10, <1>11 DEF Rest

(* A screen that is left holds and awaits nothing.                           *)
LEMMA LeaveKeeps ==
    ASSUME HomeInv, Unmount \/ HomeCrash
    PROVE  Rest'
  <1>1. /\ Leave /\ UNCHANGED Tables
        /\ calls' = calls \/ calls' = [c \in Calls |-> Idle]
    BY DEF Unmount, HomeCrash, Crash, studyVars, Tables
  <1>2. /\ UNCHANGED <<chunks, sessions, stages>>
        /\ OpenSessions' = OpenSessions /\ Unfinished' = Unfinished
    BY <1>1, SameTables
  <1>3. ~screen'.shown /\ Away'
    BY <1>1 DEF Leave, Unmounted, Away
  <1>4. CommandsOK'
    BY <1>1, <1>2 DEF HomeInv, CommandsOK, Idle, Told
  <1>5. ASSUME ~overlap' PROVE StartsApart'
    <2>1. StartsApart
      BY <1>1, <1>5 DEF HomeInv, Leave
    <2>2. \/ StartsInFlight' = {}
          \/ StartsInFlight' = StartsInFlight /\ calls' = calls
      BY <1>1 DEF StartsInFlight, Idle
    <2> QED
      BY <1>2, <2>1, <2>2 DEF StartsApart, Freshest
  <1> QED
    BY <1>3, <1>4, <1>5 DEF Rest

(* A step of the loads or the clock leaves the commands alone.               *)
LEMMA LoadsKeep ==
    ASSUME HomeInv, UNCHANGED <<Tables, calls, views, overlap>>,
           Away', screen'.shown => screen.shown,
           screen'.active = screen.active, Certain' => Certain,
           screen'.shown /\ Certain' /\ InFlight("start") # {} =>
               Loading' = {} /\ screen' = screen,
           Certain' /\ Oriented /\ StartsApart => ListComplete'
    PROVE  Rest'
  <1>1. /\ UNCHANGED <<chunks, sessions, stages>>
        /\ OpenSessions' = OpenSessions /\ Unfinished' = Unfinished
    BY SameTables
  <1>2. \A c \in Calls : Told(c)' <=> Told(c)
    BY DEF Told
  <1>3. /\ InFlight("start")' = InFlight("start")
        /\ InFlight("stop")' = InFlight("stop")
        /\ InFlight("active")' = InFlight("active")
        /\ InFlight("complete")' = InFlight("complete")
    BY DEF InFlight
  <1>4. CommandsOK'
    BY <1>1, <1>2 DEF HomeInv, CommandsOK
  <1>5. ASSUME ~overlap' PROVE StartsApart'
    BY <1>1, <1>5 DEF HomeInv, StartsApart, StartsInFlight, Freshest
  <1>6. ASSUME screen'.shown, Certain' PROVE Oriented'
    <2>1. Oriented /\ StartsApart
      BY <1>6 DEF HomeInv, Certain
    <2>2. Crossings'
      BY <1>3, <1>6, <2>1 DEF Oriented, Crossings
    <2>3. BeliefSound'
      BY <1>1, <1>2, <1>3, <2>1 DEF Oriented, BeliefSound, InFlight
    <2>4. ClearingSound'
      <3>1. Clearing' = Clearing
        BY <1>1, <1>3 DEF Clearing, ChunkOf
      <3> QED
        BY <1>1, <1>3, <2>1, <3>1 DEF Oriented, ClearingSound
    <2>5. BeliefComplete'
      <3>1. \A d \in Calls, s \in Unfinished :
               Bringing(d, s) => Bringing(d, s)'
        BY <1>2 DEF Bringing, At
      <3> QED
        BY <1>1, <2>1, <3>1 DEF Oriented, BeliefComplete
    <2> QED
      BY <1>6, <2>1, <2>2, <2>3, <2>4, <2>5 DEF Oriented
  <1> QED
    BY <1>4, <1>5, <1>6 DEF Rest

(* A load begun, ...                                                         *)
LEMMA LoadBegunLists ==
    ASSUME HomeInv, NEW l \in Loads, Load(l), UNCHANGED Tables,
           ListComplete, screen'.loaded = screen.loaded,
           screen'.items = screen.items
    PROVE  ListComplete'
  <1>1. /\ UNCHANGED <<chunks, sessions, stages>>
        /\ OpenSessions' = OpenSessions /\ Unfinished' = Unfinished
    BY SameTables
  <1>2. [NoLoad EXCEPT !.pc = "sent", !.at = clock].pc = "sent"
    BY DEF NoLoad
  <1>3. \A m \in Loads : loads'[m].pc = "ok" => loads'[m] = loads[m]
    BY <1>2, HomeTypeParts DEF Load, HomeInv, LoadsOK
  <1> QED
    BY <1>1, <1>3 DEF ListComplete

(* ... of a screen in use ...                                                *)
LEMMA ReviewEndsKeeps ==
    ASSUME HomeInv, ReviewEnds
    PROVE  Rest'
  <1> PICK l \in Loads : Load(l)
    BY DEF ReviewEnds, Reload
  <1>1. /\ UNCHANGED <<Tables, calls, views, overlap>>
        /\ screen' = screen /\ screen.shown
    BY DEF ReviewEnds, studyVars, Tables
  <1>2. Certain' => Certain /\ InFlight("start") = {}
    BY Zenon DEF ReviewEnds, Reload, Certain
  <1>3. Away'
    BY <1>1 DEF Away
  <1>4. Oriented => ListComplete'
    BY <1>1, LoadBegunLists DEF Oriented
  <1> QED
    BY <1>1, <1>2, <1>3, <1>4, LoadsKeep

(* ... or answered, failed or shown.                                         *)
LEMMA LoadStepsKeep ==
    ASSUME HomeInv, NEW l \in Loads,
           LoadRead(l) \/ LoadFails(l) \/ LoadDelivered(l)
    PROVE  Rest'
  <1>1. /\ UNCHANGED <<Tables, calls, views, doubt, overlap>>
        /\ UNCHANGED <<chunks, sessions, stages>>
    BY DEF LoadRead, LoadFails, LoadDelivered, studyVars, Tables
  <1>2. /\ OpenSessions' = OpenSessions /\ Unfinished' = Unfinished
    BY <1>1, SameTables
  <1>3. l \in Loading
    BY DEF LoadRead, LoadFails, LoadDelivered, Loading
  <1>4. screen.shown
    BY <1>3 DEF HomeInv, Away, Loading, NoLoad
  <1>5. /\ screen'.shown = screen.shown /\ screen'.active = screen.active
        /\ \/ screen' = screen
           \/ loads[l].pc = "error" /\ screen'.items = screen.items
                                    /\ screen'.loaded = screen.loaded
           \/ loads[l].pc = "ok" /\ screen'.items = loads[l].items
    <2>1. ScreenOK
      BY HomeTypeParts DEF HomeInv
    <2> QED
      BY <2>1 DEF ScreenOK, LoadRead, LoadFails, LoadDelivered
  <1>6. Away'
    BY <1>4, <1>5 DEF Away
  <1>7. Certain' => Certain
    BY <1>1 DEF Certain
  <1>8. screen'.shown /\ Certain' => InFlight("start") = {}
    BY <1>3, <1>4, <1>7 DEF HomeInv, Oriented, Crossings
  <1>9. ASSUME ListComplete, StartsApart PROVE ListComplete'
    <2>1. \A m \in Loads : m # l => loads'[m] = loads[m]
      BY HomeTypeParts DEF LoadRead, LoadFails, LoadDelivered, HomeInv, LoadsOK
    <2>2. loads'[l].pc = "ok"
          => loads'[l].items = Listed(chunks, loads[l].at)
      BY HomeTypeParts
         DEF LoadRead, LoadFails, LoadDelivered, HomeInv, LoadsOK, NoLoad
    <2>3. chunks \in [Chunks -> IndexedRow]
      BY DEF HomeInv, TablesInv, TypeOK, Status, CommandsOK, IndexedRow
    <2>4. \A s \in Unfinished : stages[s].chunk \in Chunks
      BY RowTypes
         DEF HomeInv, TablesInv, StagesMatchSessions, OpenSessions, Unfinished
    <2>5. \A s \in Unfinished : stages[s].chunk \in Listed(chunks, loads[l].at)
      BY <1>9, <2>3, <2>4, ListedAre DEF StartsApart
    <2> QED
      BY <1>1, <1>2, <1>5, <1>9, <2>1, <2>2, <2>5 DEF ListComplete
  <1> QED
    BY <1>1, <1>4, <1>5, <1>6, <1>7, <1>8, <1>9, LoadsKeep DEF Oriented

(* The clock only moves the instant the next command will read.              *)
LEMMA TickKeeps ==
    ASSUME HomeInv, HomeTick \/ UNCHANGED homeVars
    PROVE  Rest'
  <1>1. UNCHANGED <<Tables, calls, views, doubt, overlap, screen, loads>>
    BY DEF HomeTick, Tick, homeVars, studyVars, Tables
  <1>2. UNCHANGED <<chunks, sessions, stages>>
        /\ OpenSessions' = OpenSessions /\ Unfinished' = Unfinished
    BY <1>1, SameTables
  <1>3. Away' /\ (Certain' => Certain) /\ Loading' = Loading
    BY <1>1 DEF HomeInv, Away, Certain, Loading
  <1>4. ListComplete => ListComplete'
    BY <1>1, <1>2 DEF ListComplete
  <1>5. screen'.shown /\ Certain' /\ InFlight("start") # {} => Loading' = {}
    BY <1>1, <1>3 DEF HomeInv, Oriented, Crossings
  <1> QED
    BY <1>1, <1>3, <1>4, <1>5, LoadsKeep DEF Oriented

(* What an answer in hand makes of the screen's belief, if all was in order: *)
(* the session believed in is an open one, and any open session not named by *)
(* another answer on its way is the one believed in.                         *)
BeliefAfter(c) ==
    /\ \/ screen'.active \in OpenSessions \union {Null}
       \/ \E d \in InFlight("stop") \ {c} : Told(d)
    /\ \A s \in Unfinished :
          \/ screen'.active = s
          \/ \E d \in Calls \ {c} : Bringing(d, s)

LEMMA BeliefDelivered ==
    ASSUME HomeInv, Oriented, StartsApart, NEW c \in Calls, Deliver(c)
    PROVE  BeliefAfter(c)
  <1> USE DEF HomeInv
  <1>1. calls[c].pc = "replied" /\ Null \notin Unfinished
    BY RowTypes
       DEF Deliver, Return, Unfinished, OpenSessions, TablesInv, Null
  <1>2. CASE ~Taken(c)
    <2>1. screen' = screen
      BY <1>2 DEF Deliver
    <2>2. c \notin InFlight("stop") \/ ~Told(c)
      BY <1>2 DEF Oriented, Crossings, Told, Taken
    <2>3. \A s : ~Bringing(c, s)
      BY <1>1, <1>2 DEF Bringing, Told, Taken, At
    <2> QED
      BY <2>1, <2>2, <2>3
         DEF BeliefAfter, Oriented, BeliefSound, BeliefComplete
  <1>3. ASSUME Taken(c) PROVE Told(c) /\ screen'.active = Believed(c)
    <2>1. ScreenOK
      BY HomeTypeParts
    <2> QED
      BY <1>1, <1>3, <2>1 DEF Taken, Told, Deliver, ScreenOK
  <1>4. CASE Taken(c) /\ calls[c].op \in {"start", "active"}
             /\ calls[c].target # Null
    <2>1. calls[c].target \in OpenSessions
      BY <1>3, <1>4 DEF Oriented, BeliefSound, Taken
    <2>2. screen'.active = calls[c].target
      BY <1>3, <1>4 DEF Believed
    <2> QED
      BY <2>1, <2>2 DEF BeliefAfter, StartsApart, Unfinished
  <1>5. CASE Taken(c) /\ calls[c].op = "active" /\ calls[c].target = Null
    <2>1. screen'.active = screen.active
      BY <1>3, <1>5 DEF Believed
    <2>2. \A s \in Unfinished : ~Bringing(c, s)
      BY <1>1, <1>5 DEF Bringing, At
    <2>3. c \notin InFlight("stop")
      BY <1>5 DEF InFlight
    <2> QED
      BY <2>1, <2>2, <2>3
         DEF BeliefAfter, Oriented, BeliefSound, BeliefComplete
  <1>6. CASE Taken(c) /\ calls[c].op = "stop"
    <2>1. OpenSessions = {} /\ screen'.active = Null
      BY <1>3, <1>6 DEF Oriented, BeliefSound, Believed
    <2> QED
      BY <2>1 DEF BeliefAfter, Unfinished
  <1>7. CASE Taken(c) /\ calls[c].op = "complete"
    <2>1. \A s : ~Bringing(c, s)
      BY <1>7 DEF Bringing, At
    <2>2. c \notin InFlight("stop")
      BY <1>7 DEF InFlight
    <2>3. CASE calls[c].chunk = ChunkOf(views[c].active)
      <3>1. OpenSessions \subseteq {views[c].active}
        BY <1>1, <1>7, <2>3 DEF Oriented, ClearingSound, Clearing, InFlight
      <3>2. chunks[calls[c].chunk].status = "done"
        BY <1>3, <1>7 DEF CommandsOK
      <3>3. Unfinished = {}
        BY <1>1, <2>3, <3>1, <3>2 DEF Unfinished, ChunkOf
      <3>4. screen'.active = Null
        BY <1>3, <1>7, <2>3 DEF Believed
      <3> QED
        BY <3>3, <3>4 DEF BeliefAfter
    <2>4. CASE calls[c].chunk # ChunkOf(views[c].active)
      <3>1. screen'.active = screen.active
        BY <1>3, <1>7, <2>4 DEF Believed
      <3> QED
        BY <2>1, <2>2, <3>1
           DEF BeliefAfter, Oriented, BeliefSound, BeliefComplete
    <2> QED
      BY <2>3, <2>4
  <1>8. calls[c].op = "start" /\ Taken(c) => calls[c].target # Null
    BY <1>3 DEF CommandsOK
  <1>9. calls[c].op \in {"start", "stop", "complete", "active"}
    BY DEF CommandsOK
  <1> QED
    BY <1>2, <1>4, <1>5, <1>6, <1>7, <1>8, <1>9

(* An answer delivered.                                                      *)
LEMMA DeliverKeeps ==
    ASSUME HomeInv, NEW c \in Calls, Deliver(c)
    PROVE  Rest'
  <1>1. /\ calls'[c] = Idle /\ calls[c].pc = "replied"
        /\ \A d \in Calls : d # c => calls'[d] = calls[d]
        /\ UNCHANGED Tables
    BY DEF Deliver, Return, HomeInv, TablesInv, TypeOK
  <1>2. /\ calls'[c].pc = "idle" /\ calls'[c].op = "active" /\ ~Told(c)'
        /\ \A d \in Calls : d # c => (Told(d)' <=> Told(d))
    BY <1>1 DEF Idle, Told
  <1>3. /\ UNCHANGED <<chunks, sessions, stages>>
        /\ OpenSessions' = OpenSessions /\ Unfinished' = Unfinished
    BY <1>1, SameTables
  <1>4. /\ InFlight("start")' = InFlight("start") \ {c}
        /\ InFlight("stop")' = InFlight("stop") \ {c}
        /\ InFlight("active")' = InFlight("active") \ {c}
        /\ InFlight("complete")' = InFlight("complete") \ {c}
    BY <1>1, <1>2 DEF InFlight
  <1>5. /\ views'[c] = NoView /\ overlap' = overlap
        /\ \A d \in Calls : d # c => views'[d] = views[d]
    BY HomeTypeParts DEF Deliver, HomeInv, ViewsOK
  <1>6. /\ screen'.shown = screen.shown /\ screen'.loaded = screen.loaded
        /\ screen'.items = screen.items
        /\ ~Taken(c) => screen' = screen
    <2>1. ScreenOK
      BY HomeTypeParts DEF HomeInv
    <2> QED
      BY <2>1 DEF ScreenOK, Deliver
  <1>7. CommandsOK'
    BY <1>1, <1>2, <1>3 DEF HomeInv, CommandsOK
  <1>8. Away'
    <2>1. SUFFICES ASSUME ~screen.shown
                   PROVE  /\ screen' = Unmounted
                          /\ views' = [d \in Calls |-> NoView]
                          /\ loads' = [l \in Loads |-> NoLoad]
      BY <1>6 DEF Away
    <2>2. screen = Unmounted /\ views = [d \in Calls |-> NoView]
          /\ loads = [l \in Loads |-> NoLoad]
      BY <2>1 DEF HomeInv, Away
    <2>3. ~Taken(c)
      BY <2>2 DEF Taken, NoView
    <2> QED
      BY <1>6, <2>2, <2>3 DEF Deliver
  <1>9. ASSUME ~overlap' PROVE StartsApart'
    <2>1. StartsApart
      BY <1>5, <1>9 DEF HomeInv
    <2>2. /\ StartsInFlight' \subseteq StartsInFlight
          /\ \A d \in StartsInFlight' : calls'[d] = calls[d]
      BY <1>1, <1>2 DEF StartsInFlight
    <2> QED
      BY <1>3, <2>1, <2>2 DEF StartsApart, Freshest
  <1>10. ASSUME screen'.shown, Certain' PROVE Oriented'
    <2>1. /\ Certain
          /\ \/ loads' = loads
             \/ InFlight("start") = {} /\ \E l \in Loads : Load(l)
      BY <1>10, Zenon DEF Deliver, Reload, Certain
    <2>2. Oriented /\ StartsApart
      BY <1>6, <1>10, <2>1 DEF HomeInv, Certain
    <2>3. BeliefAfter(c)
      BY <2>2, BeliefDelivered
    <2>4. Crossings'
      <3>1. ASSUME NEW d \in InFlight("start")' \union InFlight("stop")'
            PROVE  /\ d \in InFlight("start") \union InFlight("stop")
                   /\ calls'[d] = calls[d] /\ views'[d] = views[d]
        BY <1>1, <1>4, <1>5, <3>1 DEF InFlight
      <3>2. InFlight("start")' # {} => loads' = loads /\ Loading' = Loading
        BY <1>4, <2>1 DEF Loading
      <3>3. /\ InFlight("start")' \subseteq InFlight("start")
            /\ InFlight("stop")' \subseteq InFlight("stop")
            /\ InFlight("active")' \subseteq InFlight("active")
        BY <1>4
      <3>4. ASSUME NEW d \in InFlight("start")'
            PROVE  /\ Loading = {} /\ screen.loaded
                   /\ calls'[d].chunk \in screen.items
        <4>1. d \in InFlight("start") /\ calls'[d] = calls[d]
          BY <3>1, <3>3
        <4> QED
          BY <2>2, <4>1 DEF Oriented, Crossings
      <3>5. \A d \in InFlight("start")' \union InFlight("stop")' :
               views'[d].heard
        BY <2>2, <3>1 DEF Oriented, Crossings
      <3> QED
        BY <1>6, <2>2, <3>2, <3>3, <3>4, <3>5 DEF Oriented, Crossings
    <2>5. BeliefSound'
      <3>1. \A d \in InFlight("stop") \ {c} :
               d \in InFlight("stop")' /\ d \in Calls
        BY <1>4 DEF InFlight
      <3> QED
        BY <1>1, <1>2, <1>3, <1>5, <2>2, <2>3, <3>1
           DEF BeliefAfter, Oriented, BeliefSound
    <2>6. ClearingSound'
      <3>1. ASSUME NEW d \in Clearing'
            PROVE  d \in Clearing /\ views'[d] = views[d]
        BY <1>1, <1>3, <1>4, <1>5, <3>1 DEF Clearing, InFlight, ChunkOf
      <3> QED
        BY <1>3, <1>4, <2>2, <3>1 DEF Oriented, ClearingSound
    <2>7. BeliefComplete'
      <3>1. \A d \in Calls \ {c}, s \in Unfinished :
               Bringing(d, s) => Bringing(d, s)'
        BY <1>1, <1>5, <1>2 DEF Bringing, At
      <3> QED
        BY <1>3, <2>3, <3>1 DEF BeliefAfter, BeliefComplete
    <2>8. ListComplete'
      <3>1. CASE loads' = loads
        BY <1>3, <1>6, <2>2, <3>1 DEF Oriented, ListComplete
      <3>2. ASSUME NEW l \in Loads, Load(l) PROVE ListComplete'
        BY <1>1, <1>6, <2>2, <3>2, LoadBegunLists DEF Oriented
      <3> QED
        BY <2>1, <3>1, <3>2
    <2> QED
      BY <2>4, <2>5, <2>6, <2>7, <2>8 DEF Oriented
  <1> QED
    BY <1>7, <1>8, <1>9, <1>10 DEF Rest

(* Every step of the screen leaves what is left to show.                     *)
LEMMA RestNext ==
    ASSUME HomeInv, TablesInv', [HomeNext]_homeVars
    PROVE  Rest'
  <1>1. ASSUME NEW c \in Calls, NEW l \in Loads, Mount(c, l) PROVE Rest'
    BY <1>1, MountKeeps
  <1>2. ASSUME NEW c \in Calls,
               \/ \E k \in Chunks : ClickStart(c, k) \/ ClickComplete(c, k)
               \/ ClickStop(c)
        PROVE  Rest'
    BY <1>2, ClicksKeep
  <1>3. ASSUME NEW c \in Calls, Proceed(c) \/ ProceedFails(c) PROVE Rest'
    BY <1>3, ProceedKeeps
  <1>4. ASSUME NEW c \in Calls, Deliver(c) PROVE Rest'
    BY <1>4, DeliverKeeps
  <1>5. ASSUME NEW l \in Loads, LoadRead(l) \/ LoadFails(l) \/ LoadDelivered(l)
        PROVE  Rest'
    BY <1>5, LoadStepsKeep
  <1>6. ReviewEnds => Rest'
    BY ReviewEndsKeeps
  <1>7. Unmount \/ HomeCrash => Rest'
    BY LeaveKeeps
  <1>8. HomeTick \/ UNCHANGED homeVars => Rest'
    BY TickKeeps
  <1> HIDE DEF Rest
  <1> QED
    BY <1>1, <1>2, <1>3, <1>4, <1>5, <1>6, <1>7, <1>8, Zenon DEF HomeNext

(* Nothing is shown at first, and nothing is open.                           *)
LEMMA HomeInvInit == HomeInit => HomeInv
  <1> SUFFICES ASSUME HomeInit PROVE HomeInv
    OBVIOUS
  <1>1. TablesInv
    BY HomeTablesInit
  <1>2. AnswersMatchTables
    BY DEF HomeInit, AnswersMatchTables, Idle
  <1>3. HomeTypeOK
    BY ZeroIsTime DEF HomeInit, HomeTypeOK, Unmounted, NoView, NoLoad
  <1>4. CommandsOK
    BY DEF HomeInit, CommandsOK, Idle, Told
  <1>5. Away /\ ~screen.shown
    BY DEF HomeInit, Away, Unmounted
  <1>6. StartsApart
    BY DEF HomeInit, StartsApart, OpenSessions, Unfinished, StartsInFlight,
           Idle
  <1> QED
    BY <1>1, <1>2, <1>3, <1>4, <1>5, <1>6 DEF HomeInv

(* Every step of the screen keeps the invariant.                             *)
LEMMA HomeInvNext == HomeInv /\ [HomeNext]_homeVars => HomeInv'
  <1> SUFFICES ASSUME HomeInv, [HomeNext]_homeVars PROVE HomeInv'
    OBVIOUS
  <1>1. TablesInv'
    BY HomeStepIsStudyStep, TablesNext DEF HomeInv
  <1>2. AnswersMatchTables'
    BY <1>1, HomeStepIsStudyStep, AnswersNext DEF HomeInv
  <1>3. HomeTypeOK'
    BY <1>1, HomeTypesNext
  <1>4. Rest'
    BY <1>1, RestNext
  <1> QED
    BY <1>1, <1>2, <1>3, <1>4, Zenon DEF HomeInv, Rest

(* What the screen shows and awaits stays in step with the tables (Home.tsx  *)
(* over session_pg.rs), under every click, failure, restart and navigation.  *)
THEOREM HomeInvariant == HomeSpec => []HomeInv
  BY HomeInvInit, HomeInvNext, PTL DEF HomeSpec

(* Type correctness of the screen.                                           *)
THEOREM HomeTypes == HomeSpec => []HomeTypeOK
  <1>1. HomeInv => HomeTypeOK
    BY DEF HomeInv
  <1> QED
    BY <1>1, HomeInvariant, PTL

(* At rest the screen shows no session that is not open in the table,        *)
(* whatever failed, crossed or was restarted, but for the crossings Certain  *)
(* names (Home.tsx lines 56-85).                                             *)
THEOREM NoGhosts == HomeSpec => []NoGhostSession
  <1>1. HomeInv => NoGhostSession
    BY HomeInvGoals DEF NoGhostSession
  <1> QED
    BY <1>1, HomeInvariant, PTL

(* At rest the session that is open has its Stop button: the screen believes *)
(* in it and the queue lists its chunk, however many chunks, tracks,         *)
(* commands and loads there are (Home.tsx lines 45-54, 71-85 and 170-184,    *)
(* with the rules of domain/queue.rs).                                       *)
THEOREM SessionCanBeStopped == HomeSpec => []OpenSessionCanBeStopped
  <1>1. HomeInv => OpenSessionCanBeStopped
    BY HomeInvGoals
  <1> QED
    BY <1>1, HomeInvariant, PTL
-----------------------------------------------------------------------------
(* The chunk rows under the screen are those of DailyQueue. *)

(* No command in flight was entered later than now.                          *)
EnteredByNow == \A c \in Calls : calls[c].at <= clock

(* A command keeps the instant of its entry.                                 *)
LEMMA EntryInstants ==
    ASSUME TypeOK, [Next]_studyVars, NEW d \in Calls
    PROVE  calls'[d].at \in {calls[d].at, clock, 0}
  <1>1. ASSUME NEW c \in Calls, User(c)
        PROVE  calls'[d].at \in {calls[d].at, clock, 0}
    <2>1. PICK op, pc, k, at : at \in {clock, 0} /\ Invoke(c, op, pc, k, at)
      BY <1>1 DEF User, InvokeStart, InvokeStop, InvokeComplete, InvokeActive,
                  InvokeReindex
    <2> QED
      BY <2>1 DEF Invoke, TypeOK
  <1>2. ASSUME NEW c \in Calls, Work(c) \/ Fail(c)
        PROVE  calls'[d].at \in {calls[d].at, clock, 0}
    <2>1. \/ \E r, s : Answer(c, r, s)
          \/ calls' = [calls EXCEPT ![c].pc = "write"]
          \/ \E s : calls' = [calls EXCEPT ![c] = [@ EXCEPT !.pc = "write", !.target = s]]
      BY <1>2 DEF Work, Fail, StartRead, StartRefused, StartWrite, StopRead,
                  StopRefused, StopWrite, CompleteRefused, CompleteWrite,
                  ActiveRead, IndexWrite, Committed
    <2>2. calls \in [Calls -> Call]
      BY DEF TypeOK
    <2>3. CASE calls' = [calls EXCEPT ![c].pc = "write"]
      BY <2>2, <2>3 DEF Call
    <2>4. ASSUME NEW s,
                 calls' = [calls EXCEPT ![c] = [@ EXCEPT !.pc = "write", !.target = s]]
          PROVE  calls'[d].at = calls[d].at
      BY <2>2, <2>4 DEF Call
    <2>5. ASSUME NEW r, NEW s, Answer(c, r, s)
          PROVE  calls'[d].at = calls[d].at
      BY <2>2, <2>5 DEF Call, Answer
    <2> QED
      BY <2>1, <2>3, <2>4, <2>5
  <1>3. ASSUME NEW c \in Calls, Return(c)
        PROVE  calls'[d].at \in {calls[d].at, clock, 0}
    BY <1>3 DEF Return, Idle, TypeOK
  <1>4. CASE Crash
    BY <1>4 DEF Crash, Idle
  <1>5. CASE Tick \/ UNCHANGED studyVars
    BY <1>5 DEF Tick, studyVars
  <1> QED
    BY <1>1, <1>2, <1>3, <1>4, <1>5 DEF Next

(* The clock does not go back.                                               *)
LEMMA ClockAdvances ==
    ASSUME TypeOK, [Next]_studyVars
    PROVE  clock' = clock \/ Tick
  BY DEF Next, Work, User, Invoke, InvokeStart, InvokeStop, InvokeComplete,
         InvokeActive, InvokeReindex, StartRead, StartRefused, StartWrite,
         StopRead, StopRefused, StopWrite, CompleteWrite, CompleteRefused,
         IndexWrite, ActiveRead, Fail, Return, Crash, studyVars

(* So no command is ever ahead of it.                                        *)
LEMMA EntriesStayPast ==
    ASSUME TypeOK, TypeOK', EnteredByNow, [Next]_studyVars
    PROVE  EnteredByNow'
  <1>1. clock \in Nat /\ clock' \in Nat /\ clock <= clock'
    BY ClockAdvances DEF TypeOK, Time, Tick
  <1>2. ASSUME NEW d \in Calls PROVE calls'[d].at <= clock'
    <2>1. calls[d].at <= clock /\ calls[d].at \in Int
      BY DEF EnteredByNow, TypeOK, Call, Time
    <2>2. calls'[d].at \in {calls[d].at, clock, 0}
      BY EntryInstants
    <2> QED
      BY <1>1, <2>1, <2>2
  <1> QED
    BY <1>2 DEF EnteredByNow

(* What a command writes to its chunk's row is what DailyQueue says.         *)
LEMMA WriteFollows ==
    ASSUME HomeInv, EnteredByNow, NEW c \in Calls,
           StartWrite(c) \/ CompleteWrite(c)
    PROVE  Rules!Next
  <1> DEFINE k == calls[c].chunk
             at == calls[c].at
  <1>1. calls[c].op \in {"start", "complete"} /\ k \in Chunks
    BY DEF StartWrite, CompleteWrite, At, HomeInv, TablesInv, CallsOK
  <1>2. at \in 0..clock
    BY DEF EnteredByNow, HomeInv, TablesInv, TypeOK, Call, Time
  <1>3. CASE StartWrite(c)
    <2>1. /\ chunks' = [chunks EXCEPT ![k] =
                           [status |-> "in_progress", updatedAt |-> at]]
          /\ chunks[k].status # "done" /\ UNCHANGED clock
      BY <1>3 DEF StartWrite, Startable
    <2>2. Rules!Start(k)
      BY <1>2, <2>1 DEF Rules!Start, Rules!Touch
    <2> QED
      BY <1>1, <2>2 DEF Rules!Next
  <1>4. CASE CompleteWrite(c)
    <2>1. /\ chunks' = [chunks EXCEPT ![k] =
                           [status |-> "done", updatedAt |-> at]]
          /\ UNCHANGED clock
      BY <1>4 DEF CompleteWrite
    <2>2. Rules!Complete(k)
      BY <1>2, <2>1 DEF Rules!Complete, Rules!Touch
    <2> QED
      BY <1>1, <2>2 DEF Rules!Next
  <1> QED
    BY <1>3, <1>4

(* Everything else leaves the rows alone.                                    *)
LEMMA StepFollows ==
    ASSUME HomeInv, EnteredByNow, [HomeNext]_homeVars
    PROVE  [Rules!Next]_(Rules!queueVars)
  <1>1. [Next]_studyVars
    BY HomeStepIsStudyStep
  <1>2. CASE UNCHANGED chunks /\ UNCHANGED clock
    BY <1>2 DEF Rules!queueVars
  <1>3. CASE Tick
    <2>1. Rules!Tick
      BY <1>3 DEF Tick, Tables, Rules!Tick
    <2> QED
      BY <2>1 DEF Rules!Next
  <1>4. CASE \E c \in Calls : StartWrite(c) \/ CompleteWrite(c)
    BY <1>4, WriteFollows
  <1>5. ASSUME NEW c \in Calls, IndexWrite(c) PROVE FALSE
    BY <1>5 DEF IndexWrite, At, HomeInv, CommandsOK
  <1>6. TypeOK
    BY DEF HomeInv, TablesInv
  <1> QED
    BY <1>1, <1>2, <1>3, <1>4, <1>5, <1>6, ChunkWriters, ClockAdvances

(* Under the screen the chunk rows are written the way DailyQueue has them   *)
(* written, whatever is started, completed, overtaken or lost: what it       *)
(* proves of the queue holds of the lists the screen is given (session_pg.rs *)
(* under Home.tsx).                                                          *)
THEOREM RowsFollow == HomeSpec => RowsFollowDailyQueue
  <1>1. HomeInit => Rules!Init
    BY DEF HomeInit, Rules!Init, Rules!NoQuery, Rules!Nowhere, Rules!Tracks
  <1>2. HomeInit => EnteredByNow
    BY DEF HomeInit, EnteredByNow, Idle
  <1>3. HomeInv /\ HomeInv' /\ EnteredByNow /\ [HomeNext]_homeVars
        => EnteredByNow'
    BY HomeStepIsStudyStep, EntriesStayPast DEF HomeInv, TablesInv
  <1>4. HomeInv /\ EnteredByNow /\ [HomeNext]_homeVars
        => [Rules!Next]_(Rules!queueVars)
    BY StepFollows
  <1>5. HomeSpec => [](HomeInv /\ EnteredByNow)
    BY <1>2, <1>3, HomeInvariant, PTL DEF HomeSpec
  <1> QED
    BY <1>1, <1>4, <1>5, PTL DEF HomeSpec, RowsFollowDailyQueue, Rules!Spec
=============================================================================
