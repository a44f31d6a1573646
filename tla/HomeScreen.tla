----------------------------- MODULE HomeScreen -----------------------------
(* The Home screen over the study loop: the queue it loads, the session it   *)
(* believes to be open, the error it shows, and the buttons these leave to   *)
(* the user.                                                                 *)
(*                                                                           *)
(* The screen composes StudyLoop, whose commands it sends, and the rules of  *)
(* DailyQueue, whose answer it lists; StudyLoop's steps run as they are, and *)
(* a click, an answer or a navigation is one step of both.  No button is     *)
(* disabled while a command is in flight, and a handler keeps the state it   *)
(* was rendered with.                                                        *)
EXTENDS StudyLoop

CONSTANTS
    Track, Ord, Canonical, Alphabetical, StaleAfter,    \* see DailyQueue
    Loads           \* how many get_queue may be in flight

ASSUME LoadsAssumption == IsFiniteSet(Loads)

VARIABLES
    screen,         \* the state of the Home screen
    views,          \* per command slot: what its handler was rendered with
    loads,          \* the get_queue commands in flight
    doubt,          \* history: why the screen may be wrong about the session
    overlap         \* history: two starts have been in flight together

homeVars == <<studyVars, screen, views, loads, doubt, overlap>>

(* The queue over the tables of the study loop.  No override is in force and *)
(* its reads are not looked at one by one: DailyQueue has those.             *)
Rules == INSTANCE DailyQueue WITH
    Overrides <- {}, position <- [t \in {Track[k] : k \in Chunks} |-> 0],
    query <- [pc |-> "idle", now |-> 0, past |-> {}, rows |-> <<>>,
              answer |-> <<>>]

(* What the rules take for granted.                                          *)
ASSUME RulesAssumption ==
    /\ Rules!ChunksAssumption
    /\ Rules!TracksAssumption
    /\ Rules!UniqueOrd
    /\ Rules!TimeAssumption

(* What the queue lists.                                                     *)
Listed(rows, now) ==
    UNION {LET items == Rules!TrackItems(rows, t, 0, now) IN
           {items[i].chunk : i \in DOMAIN items} : t \in Rules!Tracks}

Unmounted == [shown |-> FALSE, loaded |-> FALSE, items |-> {},
              active |-> Null, error |-> FALSE]
NoView == [heard |-> FALSE, active |-> Null]
NoLoad == [pc |-> "idle", at |-> 0, items |-> {}]

(* The vault has been indexed, and the application starts.                   *)
HomeInit ==
    /\ chunks = [k \in Chunks |-> [status |-> "queued", updatedAt |-> 0]]
    /\ sessions = <<>>
    /\ stages = <<>>
    /\ calls = [c \in Calls |-> Idle]
    /\ clock = 0
    /\ screen = Unmounted
    /\ views = [c \in Calls |-> NoView]
    /\ loads = [l \in Loads |-> NoLoad]
    /\ doubt = FALSE
    /\ overlap = FALSE

Busy == \E c \in Calls : calls[c].pc # "idle"
InFlight(op) == {c \in Calls : calls[c].op = op /\ calls[c].pc # "idle"}
Loading == {l \in Loads : loads[l].pc # "idle"}

(* The chunk of the session the screen believes to be open.                  *)
ChunkOf(s) == IF s = Null THEN NoChunk ELSE stages[s].chunk

Load(l) ==
    /\ loads[l].pc = "idle"
    /\ loads' = [loads EXCEPT ![l] =
           [NoLoad EXCEPT !.pc = "sent", !.at = clock]]

View(c) == views' = [views EXCEPT ![c] =
               [heard |-> TRUE, active |-> screen.active]]

-----------------------------------------------------------------------------
(* The screen is opened, left and clicked on. *)

(* The effect of the first render: the queue and the open session.           *)
Mount(c, l) ==
    /\ ~screen.shown
    /\ screen' = [Unmounted EXCEPT !.shown = TRUE]
    /\ InvokeActive(c)
    /\ Load(l)
    /\ View(c)
    /\ doubt' = (InFlight("start") \union InFlight("stop") # {})
    /\ UNCHANGED overlap

(* Answers still due go unheard; a get_queue unheard changes nothing at all. *)
Leave ==
    /\ screen' = Unmounted
    /\ views' = [c \in Calls |-> NoView]
    /\ loads' = [l \in Loads |-> NoLoad]
    /\ doubt' = FALSE
    /\ UNCHANGED overlap

(* To the Settings screen.                                                   *)
Unmount == screen.shown /\ Leave /\ UNCHANGED studyVars

(* The list and its buttons are there.                                       *)
Usable == screen.shown /\ screen.loaded /\ ~screen.error

StopOffered(k) == Usable /\ k \in screen.items /\ k = ChunkOf(screen.active)

(* A completion that will clear the active session when it is answered.      *)
Clearing ==
    {c \in InFlight("complete") : calls[c].chunk = ChunkOf(views[c].active)}

Click(c) == View(c) /\ UNCHANGED <<screen, loads>>

ClickStart(c, k) ==
    /\ Usable /\ k \in screen.items /\ screen.active = Null
    /\ \A j \in Chunks : chunks[j].updatedAt < clock    \* microseconds apart
    /\ InvokeStart(c, k)
    /\ Click(c)
    /\ doubt' = (doubt \/ InFlight("stop") \union Clearing # {}
                      \/ Loading # {})
    /\ overlap' = (overlap \/ StartsInFlight # {})

ClickStop(c) ==
    /\ \E k \in Chunks : StopOffered(k)
    /\ InvokeStop(c)
    /\ Click(c)
    /\ doubt' = (doubt \/ InFlight("start") \union InFlight("active") # {})
    /\ UNCHANGED overlap

ClickComplete(c, k) ==
    /\ Usable /\ k \in screen.items
    /\ InvokeComplete(c, k)
    /\ Click(c)
    /\ UNCHANGED <<doubt, overlap>>

-----------------------------------------------------------------------------
(* Answers. *)

Taken(c) == views[c].heard /\ calls[c].reply = "ok"

(* Mutants of what the handlers believe: a completion clears the session     *)
(* whichever chunk it was for, ...                                           *)
BelievedNoneAfterCompletion(c) ==
    CASE calls[c].op = "active" ->
            IF calls[c].target = Null THEN screen.active ELSE calls[c].target
      [] calls[c].op = "start" -> calls[c].target
      [] calls[c].op \in {"stop", "complete"} -> Null

(* ... a stop leaves the session on the screen, ...                          *)
BelievedAfterStop(c) ==
    CASE calls[c].op = "active" ->
            IF calls[c].target = Null THEN screen.active ELSE calls[c].target
      [] calls[c].op = "start" -> calls[c].target
      [] calls[c].op \in {"stop", "complete"} -> screen.active

(* ... the chunk's id is taken for the session's.                            *)
BelievedChunk(c) ==
    CASE calls[c].op = "active" -> calls[c].target
      [] calls[c].op = "start" -> calls[c].chunk
      [] calls[c].op \in {"stop", "complete"} -> Null

(* What each handler does after its await with the answer it got.            *)
Believed(c) ==
    CASE calls[c].op = "active" ->
            IF calls[c].target = Null THEN screen.active ELSE calls[c].target
      [] calls[c].op = "start" -> calls[c].target
      [] calls[c].op = "stop" -> Null
      [] calls[c].op = "complete" ->
            IF calls[c].chunk = ChunkOf(views[c].active) THEN Null
                                                         ELSE screen.active

(* A screen in use loads its queue anew; a start may cross it.               *)
Reload ==
    /\ \E l \in Loads : Load(l)
    /\ doubt' = (doubt \/ InFlight("start") # {})

(* A completion goes on to reload the queue.                                 *)
Deliver(c) ==
    /\ Return(c)
    /\ screen' = IF Taken(c) THEN [screen EXCEPT !.active = Believed(c)]
                             ELSE screen
    /\ IF Taken(c) /\ calls[c].op = "complete" THEN Reload
                                                ELSE UNCHANGED <<loads, doubt>>
    /\ views' = [views EXCEPT ![c] = NoView]
    /\ UNCHANGED overlap

(* So does the last grade of a review; MemoriaReview has the sitting.        *)
ReviewEnds ==
    /\ screen.shown /\ screen.loaded
    /\ Reload
    /\ UNCHANGED <<studyVars, screen, views, overlap>>

(* get_queue: DailyQueue has its three reads one by one.                     *)
LoadRead(l) ==
    /\ loads[l].pc = "sent"
    /\ loads' = [loads EXCEPT ![l] =
           [pc |-> "ok", at |-> 0, items |-> Listed(chunks, loads[l].at)]]
    /\ UNCHANGED <<studyVars, screen, views, doubt, overlap>>

LoadFails(l) ==
    /\ loads[l].pc = "sent"
    /\ loads' = [loads EXCEPT ![l] = [NoLoad EXCEPT !.pc = "error"]]
    /\ UNCHANGED <<studyVars, screen, views, doubt, overlap>>

(* Mutant: the error is only logged. *)
LoadErrorDropped(l) ==
    /\ loads[l].pc \in {"ok", "error"}
    /\ loads' = [loads EXCEPT ![l] = NoLoad]
    /\ screen' =
        IF loads[l].pc = "error" THEN screen
        ELSE [screen EXCEPT !.loaded = TRUE, !.items = loads[l].items]
    /\ UNCHANGED <<studyVars, views, doubt, overlap>>

LoadDelivered(l) ==
    /\ loads[l].pc \in {"ok", "error"}
    /\ loads' = [loads EXCEPT ![l] = NoLoad]
    /\ screen' =
        IF loads[l].pc = "error"
        THEN [screen EXCEPT !.error = TRUE]
        ELSE [screen EXCEPT !.error = FALSE, !.loaded = TRUE,
                            !.items = loads[l].items]
    /\ UNCHANGED <<studyVars, views, doubt, overlap>>

-----------------------------------------------------------------------------

(* A commit whose acknowledgement is lost leaves the screen in doubt ...     *)
Proceed(c) ==
    /\ Work(c)
    /\ doubt' = (doubt \/ (Tables' # Tables /\ calls'[c].reply = "dberror"))
    /\ UNCHANGED <<screen, views, loads, overlap>>

(* ... and so does a first render that is not told of an open session.       *)
ProceedFails(c) ==
    /\ Fail(c)
    /\ doubt' = (doubt \/ calls[c].op = "active")
    /\ UNCHANGED <<screen, views, loads, overlap>>

HomeCrash == Crash /\ Leave

HomeTick == Tick /\ UNCHANGED <<screen, views, loads, doubt, overlap>>

HomeNext ==
    \/ \E c \in Calls :
          \/ \E l \in Loads : Mount(c, l)
          \/ \E k \in Chunks : ClickStart(c, k) \/ ClickComplete(c, k)
          \/ ClickStop(c)
          \/ Proceed(c) \/ ProceedFails(c) \/ Deliver(c)
    \/ \E l \in Loads : LoadRead(l) \/ LoadFails(l) \/ LoadDelivered(l)
    \/ ReviewEnds \/ Unmount \/ HomeCrash \/ HomeTick

HomeSpec == HomeInit /\ [][HomeNext]_homeVars

-----------------------------------------------------------------------------
(* Properties. *)

(* The screen, the views and the loads have their types.                     *)
HomeTypeOK ==
    /\ screen \in [shown : BOOLEAN, loaded : BOOLEAN, items : SUBSET Chunks,
                   active : DOMAIN sessions \union {Null}, error : BOOLEAN]
    /\ views \in [Calls -> [heard : BOOLEAN,
                            active : DOMAIN sessions \union {Null}]]
    /\ loads \in [Loads -> [pc : {"idle", "sent", "ok", "error"}, at : Time,
                            items : SUBSET Chunks]]
    /\ doubt \in BOOLEAN /\ overlap \in BOOLEAN

(* Nothing more will happen unless the user does something.                  *)
Settled == Usable /\ ~Busy /\ Loading = {}

(* The screen has no reason to be wrong.  Its belief survives failures,      *)
(* restarts, navigations in the middle of a command and all crossings but:   *)
(* two starts; a first render while an unheard start or stop is still under  *)
(* way; a stop clicked with a start or the first render's question still     *)
(* open; a start clicked with a stop or a clearing completion still open; a  *)
(* start crossing a load of the queue, which may take the chunk off the list *)
(* for one started later than its last session.                              *)
Certain == ~doubt /\ ~overlap

(* The user can always end the session that is running: once everything in   *)
(* flight has been answered, the queue lists the chunk of an open session,   *)
(* with the Stop button at it, also after a restart, after a start no answer *)
(* of which was heard, and after other chunks were completed under it        *)
(* (Home.tsx lines 45-54, 71-85 and 170-184, with session_pg.rs open_session *)
(* and the rules of domain/queue.rs).  A chunk completed while it is studied *)
(* is off the queue and its session beyond reach: the code does not promise  *)
(* this case, so it is left out.                                             *)
OpenSessionCanBeStopped ==
    Settled /\ Certain =>
        \A s \in OpenSessions :
            chunks[stages[s].chunk].status # "done"
            => StopOffered(stages[s].chunk)

(* No session is on the screen that is not open in the table: it would       *)
(* disable every Start button and its Stop could only be refused (Home.tsx   *)
(* lines 56-85, disabled={active != null}).                                  *)
NoGhostSession ==
    Settled /\ Certain => screen.active \in OpenSessions \union {Null}

(* What the commands behind the screen do to the chunk rows is what          *)
(* DailyQueue takes them to do, so what it says of the lists is true of the  *)
(* lists here: however long a start or a completion is under way and         *)
(* whatever overtakes it, it never reopens a finished row, and the instant   *)
(* it writes is that of an entry, now or earlier (session_pg.rs lines 42-60  *)
(* and 142-155, under presentation/session.rs).                              *)
RowsFollowDailyQueue == Rules!Spec

(* The screen never says Loading for nothing: while it has neither a list    *)
(* nor an error to show, a get_queue is still on its way to it, whatever     *)
(* loads failed or were left behind by an earlier visit (Home.tsx loadQueue).*)
LoadingIsUnderWay ==
    screen.shown /\ ~screen.loaded /\ ~screen.error => Loading # {}
=============================================================================
