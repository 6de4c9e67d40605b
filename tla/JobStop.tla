------------------------------- MODULE JobStop -------------------------------
(***************************************************************************)
(* JobQueue with the engines the worker runs and the three ways a stop     *)
(* request reaches them:                                                   *)
(*                                                                         *)
(*  - the Plex-native snapshot and restore engines make an event of their  *)
(*    own, which a keyboard thread registers on state._active_stop_event   *)
(*    and unregisters after the run's finally block has set it;            *)
(*  - the adapter engines and the playlist batches poll rec._stop_event;   *)
(*  - the Plex-to-Plex direct transfer polls whatever event is registered  *)
(*    at the moment it starts.                                             *)
(*                                                                         *)
(* A Replace job first runs the snapshot engine on the destination (the    *)
(* pre-Replace safety belt) and then the engine that overwrites it.        *)
(***************************************************************************)
EXTENDS JobQueue

CONSTANTS Plan,    \* Plan[j]: the engines job j runs, one after the other
          Items,   \* how many items each engine run processes
          NoEvent  \* None, as a threading.Event

Engines == {"plex", "adapter", "direct"}

ASSUME JobStopAssumption ==
    /\ Plan \in [Jobs -> {<<e>> : e \in Engines} \cup {<<d, e>> : d, e \in Engines}]
    /\ Items \in Nat \ {0}
    /\ NoEvent \notin Jobs \X {1, 2}

VARIABLES
    phase,       \* which engine of its plan each job runs
    enginePc,    \* where that engine is
    processed,   \* how many items each engine run of a job has processed
    polled,      \* the event the engine's loop polls, besides rec._stop_event
    setEvents,   \* the engines' events that are set
    registered,  \* state._active_stop_event
    keyboard,    \* where the keyboard thread of each engine run is
    stopped      \* history variable: jobs a request_stop has moved and returned

engineVars == <<phase, enginePc, processed, polled, setEvents, registered, keyboard>>
allVars    == <<vars, engineVars, stopped>>

EventIds == Jobs \X {1, 2}

Engine(j) == Plan[j][phase[j]]
Event(j)  == <<j, phase[j]>>
LastPhase(j) == phase[j] = Len(Plan[j])

\* What stop_event.is_set() answers in the loop of job j's engine.
StopVisible(j) ==
    IF Engine(j) = "adapter" THEN stopEvent[j] = "set" ELSE polled[j] \in setEvents

InitEngine ==
    /\ phase = [j \in Jobs |-> 1]
    /\ enginePc = [j \in Jobs |-> "off"]
    /\ processed = [e \in EventIds |-> 0]
    /\ polled = [j \in Jobs |-> NoEvent]
    /\ setEvents = {}
    /\ registered = NoEvent
    /\ keyboard = [e \in EventIds |-> "none"]
    /\ stopped = {}

-----------------------------------------------------------------------------
(* The engines *)

ClaimAndDispatch(w) ==
    /\ Claim(w)
    /\ enginePc' = [enginePc EXCEPT ![workerJob[w]] = "setup"]
    /\ UNCHANGED <<phase, processed, polled, setEvents, registered, keyboard, stopped>>

\* Connecting, authenticating home users and warming caches is over; the
\* engine gets hold of its event.
StartLoop(w) ==
    LET j == workerJob[w] IN
    /\ workerPc[w] = "running"
    /\ enginePc[j] = "setup"
    /\ enginePc' = [enginePc EXCEPT ![j] = "loop"]
    /\ \/ /\ Engine(j) = "plex"
          /\ polled' = [polled EXCEPT ![j] = Event(j)]
          /\ keyboard' = [keyboard EXCEPT ![Event(j)] = "spawned"]
       \/ /\ Engine(j) = "direct"
          /\ polled' = [polled EXCEPT ![j] = registered]
          /\ UNCHANGED keyboard
       \/ /\ Engine(j) = "adapter"
          /\ polled' = [polled EXCEPT ![j] = NoEvent]
          /\ UNCHANGED keyboard
    /\ UNCHANGED <<vars, phase, processed, setEvents, registered, stopped>>

BeginItem(w) ==
    LET j == workerJob[w] IN
    /\ workerPc[w] = "running"
    /\ enginePc[j] = "loop"
    /\ ~StopVisible(j)
    /\ processed[Event(j)] < Items
    /\ enginePc' = [enginePc EXCEPT ![j] = "item"]
    /\ UNCHANGED <<vars, phase, processed, polled, setEvents, registered, keyboard, stopped>>

EndItem(w) ==
    LET j == workerJob[w] IN
    /\ workerPc[w] = "running"
    /\ enginePc[j] = "item"
    /\ enginePc' = [enginePc EXCEPT ![j] = "loop"]
    /\ processed' = [processed EXCEPT ![Event(j)] = @ + 1]
    /\ UNCHANGED <<vars, phase, polled, setEvents, registered, keyboard, stopped>>

\* The finally block of a Plex engine run sets its event.
EventSetOnExit(j) ==
    IF Engine(j) = "plex" THEN setEvents \cup {Event(j)} ELSE setEvents

LoopDone(j) ==
    /\ enginePc[j] = "loop"
    /\ StopVisible(j) \/ processed[Event(j)] = Items

\* _capture_pre_replace_snapshot: an empty capture registers nothing.
BeltUsable(j) == processed[Event(j)] > 0

\* The pre-Replace belt is registered and the job moves on to the engine that
\* overwrites the destination.  Nothing looks at the job's stop in between.
BeltDone(w) ==
    LET j == workerJob[w] IN
    /\ workerPc[w] = "running"
    /\ LoopDone(j) /\ ~LastPhase(j)
    /\ BeltUsable(j)
    /\ setEvents' = EventSetOnExit(j)
    /\ phase' = [phase EXCEPT ![j] = @ + 1]
    /\ enginePc' = [enginePc EXCEPT ![j] = "setup"]
    /\ UNCHANGED <<vars, processed, polled, registered, keyboard, stopped>>

\* Without a belt the Replace is aborted by an exception.
BeltFails(w) ==
    LET j == workerJob[w] IN
    /\ workerPc[w] = "running"
    /\ LoopDone(j) /\ ~LastPhase(j)
    /\ ~BeltUsable(j)
    /\ EngineReturns(w, "raised", FALSE)
    /\ setEvents' = EventSetOnExit(j)
    /\ enginePc' = [enginePc EXCEPT ![j] = "off"]
    /\ UNCHANGED <<phase, processed, polled, registered, keyboard, stopped>>

\* A loop that saw the stop returns like one that ran out of items.
Finish(w) ==
    LET j == workerJob[w] IN
    /\ workerPc[w] = "running"
    /\ LoopDone(j) /\ LastPhase(j)
    /\ EngineReturns(w, "returned", FALSE)
    /\ setEvents' = EventSetOnExit(j)
    /\ enginePc' = [enginePc EXCEPT ![j] = "off"]
    /\ UNCHANGED <<phase, processed, polled, registered, keyboard, stopped>>

Fail(w) ==
    LET j == workerJob[w] IN
    /\ workerPc[w] = "running"
    /\ enginePc[j] \in {"setup", "loop", "item"}
    /\ EngineReturns(w, "raised", FALSE)
    /\ setEvents' = IF enginePc[j] = "setup" THEN setEvents ELSE EventSetOnExit(j)
    /\ enginePc' = [enginePc EXCEPT ![j] = "off"]
    /\ UNCHANGED <<phase, processed, polled, registered, keyboard, stopped>>

-----------------------------------------------------------------------------
(* dashboard._keyboard_thread, one per Plex engine run *)

Register(e) ==
    /\ keyboard[e] = "spawned"
    /\ keyboard' = [keyboard EXCEPT ![e] = "waiting"]
    /\ registered' = e
    /\ UNCHANGED <<vars, phase, enginePc, processed, polled, setEvents, stopped>>

\* The finally clears the registration, whoever's it is by then.
Unregister(e) ==
    /\ keyboard[e] = "waiting"
    /\ e \in setEvents
    /\ keyboard' = [keyboard EXCEPT ![e] = "done"]
    /\ registered' = NoEvent
    /\ UNCHANGED <<vars, phase, enginePc, processed, polled, setEvents, stopped>>

-----------------------------------------------------------------------------
(* request_stop and the signal it fires *)

RequestStop(t, hard) ==
    /\ ClearQueue(t, hard)
    /\ UNCHANGED <<engineVars, stopped>>

\* runtime_patches.signal_stop and signal_hard_stop: with nothing registered
\* neither does anything.
Signal(t) ==
    /\ SignalEngine(t)
    /\ stopped' = stopped \cup {stopJob[t]}
    /\ setEvents' = IF registered = NoEvent THEN setEvents
                                            ELSE setEvents \cup {registered}
    /\ UNCHANGED <<phase, enginePc, processed, polled, registered, keyboard>>

-----------------------------------------------------------------------------
EngineIdle == UNCHANGED <<engineVars, stopped>>

\* What the worker does between two jobs is JobQueue's alone.
WorkerOnly(w) ==
    /\ Get(w) \/ Drop(w) \/ ReadState(w) \/ ReadError(w) \/ WriteState(w) \/ Record(w)
    /\ EngineIdle

WorkerRuns(w) ==
    \/ WorkerOnly(w)
    \/ ClaimAndDispatch(w) \/ StartLoop(w)
    \/ BeginItem(w) \/ EndItem(w)
    \/ BeltDone(w) \/ BeltFails(w)
    \/ Finish(w) \/ Fail(w)

KeyboardStep(e) == Register(e) \/ Unregister(e)

StopInit == Init /\ InitEngine

StopNext ==
    \/ \E j \in Jobs : SubmitStep(j) /\ EngineIdle
    \/ \E w \in Workers : WorkerRuns(w)
    \/ \E t \in Stoppers :
          \/ \E hard \in BOOLEAN : RequestStop(t, hard)
          \/ MarkStopping(t) /\ EngineIdle
          \/ Signal(t)
    \/ \E e \in EventIds : KeyboardStep(e)

StopSpec == StopInit /\ [][StopNext]_allVars

-----------------------------------------------------------------------------
(* Properties *)

PollsRecord(j) == \A p \in DOMAIN Plan[j] : Plan[j][p] = "adapter"

\* A job whose engine polls the event on its own record begins no further item
\* once the request_stop call that marked it is over, whatever other jobs run.
RecordFlagHalts ==
    [][\A j \in Jobs :
          PollsRecord(j) /\ j \in stopped /\ enginePc[j] # "item" =>
              enginePc'[j] # "item"]_allVars

\* Such a job that ends "completed" did all its work.  Its engine returns in the
\* same way whether it ran out of items or saw the event, the stopper marks the
\* record in another thread, and the worker reads the state and writes the
\* verdict in separate steps without the lock (jobs.py:590): in no order of
\* these is a run that a stop cut short reported as complete.
RecordFlagCancels ==
    \A j \in Jobs :
        PollsRecord(j) /\ state[j] = "completed" =>
            \A p \in DOMAIN Plan[j] : processed[<<j, p>>] = Items

-----------------------------------------------------------------------------
(* What the source says of every job, and does not keep. *)

\* worker loop (jobs.py:577): an engine that came back because of a stop "is a
\* CANCELLED job, not a COMPLETED one".  A completed job did all its work.
CompletedDidEverything ==
    \A j \in Jobs :
        state[j] = "completed" =>
            \A p \in DOMAIN Plan[j] : processed[<<j, p>>] = Items

=============================================================================
