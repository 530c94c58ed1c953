---------------------------- MODULE MissionStore ----------------------------
(***************************************************************************)
(* A mission between the process memory and the database: its creation by  *)
(* CreateMissionHandler.handle (save, then publish, with an await at each) *)
(* and the later load - command - save sessions of concurrent writers.     *)
(*                                                                         *)
(* The repository and the event bus are ports (IMissionRepository and      *)
(* EventBus); what is behind them is external.  By its declaration, save   *)
(* persists the whole aggregate and throws on a version mismatch, which is *)
(* one between the version stored and the one the writer loaded.  A call   *)
(* that rejects says nothing of what it did: save may have committed, and  *)
(* publishAll, which delivers all or nothing, may have delivered.          *)
(***************************************************************************)
EXTENDS MissionAggregate

CONSTANTS Writer,       \* concurrent command handlers
          Hours         \* how long a mission may have run by the clock

ASSUME MissionStoreAssumption == Hours \subseteq Nat

VARIABLES store,        \* the persisted aggregate, or NoMission
          creator,      \* CreateMissionHandler.handle: [pc, m]
          published,    \* events the bus accepted
          session,      \* writer -> what it is about to save, or NoSession
          acked         \* tasks whose completion was saved without an error

storeVars == <<store, creator, published, session, acked>>

NoMission == [status |-> "NONE"]
NoSession == [expected |-> -1]

StoreInit == /\ store = NoMission
        /\ creator = [pc |-> "idle", m |-> NoMission]
        /\ published = {}
        /\ session = [w \in Writer |-> NoSession]
        /\ acked = {}

-----------------------------------------------------------------------------
(* CreateMissionHandler.handle                                             *)

\* Step 1: the factory validates the command; nothing is saved on failure.
Create(b) ==
    /\ creator.pc = "idle"
    /\ creator' = IF ValidBudget(b) THEN [pc |-> "saving", m |-> create(b)]
                                    ELSE [pc |-> "failed", m |-> NoMission]
    /\ UNCHANGED <<store, published, session, acked>>

\* A handler that goes on to publish whatever the save did.
SaveNew_Swallow ==
    /\ creator.pc = "saving"
    /\ \/ store' = creator.m
       \/ UNCHANGED store
    /\ creator' = [pc |-> "publishing", m |-> creator.m]
    /\ UNCHANGED <<published, session, acked>>

\* Step 2: the save persists the mission, or throws with or without having
\* persisted it, and a throw is turned into a failure result.
SaveNew ==
    /\ creator.pc = "saving"
    /\ \/ store' = creator.m /\ creator' = [pc |-> "publishing", m |-> creator.m]
       \/ /\ store' \in {store, creator.m}
          /\ creator' = [pc |-> "failed", m |-> NoMission]
    /\ UNCHANGED <<published, session, acked>>

\* Step 3: the events are pulled off the aggregate, then published.  No try
\* surrounds publishAll: when it rejects, the caller sees an exception and
\* the pulled events are gone, delivered or not.
Publish ==
    /\ creator.pc = "publishing"
    /\ \/ /\ published' = published \cup creator.m.events
          /\ creator' \in {[pc |-> pc, m |-> NoMission] : pc \in {"ok", "threw"}}
       \/ UNCHANGED published /\ creator' = [pc |-> "threw", m |-> NoMission]
    /\ UNCHANGED <<store, session, acked>>

\* The process dies between two awaits and takes the aggregate with it.
CrashCreator ==
    /\ creator.pc \in {"saving", "publishing"}
    /\ creator' = [pc |-> "crashed", m |-> NoMission]
    /\ UNCHANGED <<store, published, session, acked>>

-----------------------------------------------------------------------------
(* Sessions of concurrent writers                                          *)

\* What any one command may make of a loaded mission.
Outcomes(m) ==
    {startPlanning(m), pause(m), fail(m), complete(m)}
    \cup {attachDAG(m, dag) : dag \in DAGs}
    \cup {resolveHumanGate(m, i) : i \in m.announced}
    \cup (IF Len(m.gates) < MaxGates
          THEN {openHumanGate(m, "OTHER")}
               \cup {completeTask(m, t, usd, h) : t \in Task, usd \in Cost, h \in Hours}
          ELSE {})

\* A writer loads the mission and runs one command on its copy.  The copy is
\* its own until it saves, so the two make one step.
LoadAndExecute(w) ==
    /\ store # NoMission /\ session[w] = NoSession
    /\ \E m \in Outcomes(store) :
         session' = [session EXCEPT ![w] = [expected |-> store.version, m |-> m]]
    /\ UNCHANGED <<store, creator, published, acked>>

\* A repository that writes without looking at the version.
Save_Blind(w) ==
    /\ session[w] # NoSession
    /\ store' = session[w].m
    /\ acked' = acked \cup session[w].m.completed
    /\ session' = [session EXCEPT ![w] = NoSession]
    /\ UNCHANGED <<creator, published>>

\* save(mission): a writer whose version is not the stored one gets an error.
\* Another may get one as well, after its mission was stored.
Save(w) ==
    /\ session[w] # NoSession
    /\ IF session[w].expected = store.version
       THEN /\ store' = session[w].m
            /\ acked' \in {acked, acked \cup session[w].m.completed}
       ELSE UNCHANGED <<store, acked>>
    /\ session' = [session EXCEPT ![w] = NoSession]
    /\ UNCHANGED <<creator, published>>

\* A writer dies, or its save fails for another reason, before it is stored.
Abandon(w) ==
    /\ session[w] # NoSession
    /\ session' = [session EXCEPT ![w] = NoSession]
    /\ UNCHANGED <<store, creator, published, acked>>

StoreNext == \/ \E b \in Budgets : Create(b)
        \/ SaveNew \/ Publish \/ CrashCreator
        \/ \E w \in Writer : LoadAndExecute(w) \/ Save(w) \/ Abandon(w)

StoreSpec == StoreInit /\ [][StoreNext]_storeVars

-----------------------------------------------------------------------------
Session == [expected : Nat, m : Mission]

\* The store holds a mission or none, a session a mission and its version.
StoreTypeOK ==
    /\ store \in Mission \cup {NoMission}
    /\ creator.pc \in {"idle", "saving", "publishing",
                       "ok", "failed", "threw", "crashed"}
    /\ creator.m \in Mission \cup {NoMission}
    /\ published \subseteq Event
    /\ session \in [Writer -> Session \cup {NoSession}]
    /\ acked \subseteq Task

\* The reply of the handler can be relied on: "ok" means stored and
\* announced, and a failure result that nothing was announced.  It does not
\* mean that nothing was stored: the save may have failed after it committed.
\* Whatever crashes or rejects, nothing is announced that is not stored.
ReplyIsTruthful ==
    /\ creator.pc = "ok" => store # NoMission /\ "MissionCreated" \in published
    /\ creator.pc = "failed" => published = {}
    /\ published # {} => store # NoMission

\* The stored mission, as VersionedStatus sees it.
Lock == INSTANCE VersionedStatus WITH
            status <- store.status,
            version <- IF store = NoMission THEN 0 ELSE store.version

\* Optimistic locking protects every status change: what one writer decided
\* (a gate opened, a pause, an end) is not undone by another that had loaded
\* the mission before, and no version is given out twice.  The writers
\* together implement one that changes the mission in place.
StatusMovesAsIfInTurn == Lock!Spec

\* What a saved transition decided is not undone by a writer that loaded the
\* mission before: the attached DAG stays, a gate that was announced stays
\* the gate it is, and its resolution stays, too.  (In a failed mission a
\* gate is still marked as resolved, which the version does not show.)
DecisionsStand ==
    [][store # NoMission =>
        /\ store.dag # NoDAG => store'.dag = store.dag
        /\ \A i \in store.announced :
            /\ i \in store'.announced
            /\ store'.gates[i].reason = store.gates[i].reason
            /\ i \in Resolved(store) /\ store.status # "FAILED" =>
                    i \in Resolved(store')]_storeVars

\* MissionAggregate.ts: "version field prevents concurrent write conflicts".
\* A task whose completion was saved without an error is completed.
NoSavedCompletionIsLost ==
    store # NoMission => acked \subseteq store.completed
=============================================================================
