------------------------------ MODULE Metadata ------------------------------
(***************************************************************************)
(* The metadata storages and the service that reads them.  Processes store *)
(* the metadata of applications in memory, at ZooKeeper or at Nacos, step  *)
(* by step as the remote calls go, and look for the definition of a        *)
(* service.  No call answers with an error: store() returns nothing        *)
(* whatever happened, get() returns nothing found.                         *)
(***************************************************************************)
EXTENDS Naturals, FiniteSets

CONSTANTS
  App, Interface,
  Storer,      \* processes, each with a storage object (in memory they share one)
  Nothing,     \* no node, no configuration, None
  Blank,       \* the data of a node that ensure_path() has created: no JSON
  MaxRevision  \* bound on the number of store() calls

\* MetadataInfo: what a process offers, with a revision of its own.
Info == [revision : 1 .. MaxRevision, services : SUBSET Interface]

ASSUME MetadataAssumption ==
  MaxRevision \in Nat /\ Nothing # Blank /\ {Nothing, Blank} \cap Info = {}

VARIABLES
  storage,    \* "memory", "zookeeper" or "nacos", fixed at the start
  stored,     \* what the storage holds of each application
  knownApps,  \* Nacos: the applications each storage object knows of
  call,       \* the call each process is in
  revision,   \* the revision of the last metadata that was made
  latest,     \* history: what the last call that changes an application was to leave
  untroubled  \* history: the applications whose calls did not overlap or fail

metadataVars == <<storage, stored, knownApps, call, revision, latest, untroubled>>

NoCall == [op |-> "idle"]

MetadataInit ==
  /\ storage \in {"memory", "zookeeper", "nacos"}
  /\ stored = [a \in App |-> Nothing]
  /\ knownApps = [p \in Storer |-> {}]
  /\ call = [p \in Storer |-> NoCall]
  /\ revision = 0
  /\ latest = [a \in App |-> Nothing] /\ untroubled = App

\* get() of any storage: what is not JSON is not found either.
Found(a) == IF stored[a] \in {Nothing, Blank} THEN Nothing ELSE stored[a]

\* applications(): the children of the root, or what this object knows of.
Applications(p) ==
  IF storage = "nacos" THEN knownApps[p] ELSE {a \in App : stored[a] # Nothing}

Changing(a) == {p \in Storer : call[p].op \in {"store", "remove"} /\ call[p].app = a}
Goes(p, c) == call' = [call EXCEPT ![p] = c]
At(p, op, pc) == call[p].op = op /\ call[p].pc = pc
Moves(p, pc) == Goes(p, [call[p] EXCEPT !.pc = pc])
PutInfo(a, value) == stored' = [stored EXCEPT ![a] = value]
Knows(p, apps) == knownApps' = [knownApps EXCEPT ![p] = apps]

\* What a call on application a begins with.
Begins(p, a, leaves) ==
  /\ call[p] = NoCall
  /\ latest' = [latest EXCEPT ![a] = leaves]
  /\ untroubled' = IF Changing(a) = {} THEN untroubled ELSE untroubled \ {a}

-----------------------------------------------------------------------------
(* store(): one step in memory; at ZooKeeper ensure_path() looks for the    *)
(* node and creates it, and then set_data() or create() writes; at Nacos a  *)
(* request, and a note of the application.                                 *)

StoreInfo(p, a, services) ==
  /\ revision < MaxRevision /\ revision' = revision + 1
  /\ LET info == [revision |-> revision + 1, services |-> services]
     IN /\ Begins(p, a, info)
        /\ IF storage = "memory"
           THEN PutInfo(a, info) /\ UNCHANGED call
           ELSE /\ Goes(p, [op |-> "store", app |-> a, info |-> info, pc |-> "begun"])
                /\ UNCHANGED stored
  /\ UNCHANGED <<storage, knownApps>>

LookForPath(p) ==
  /\ storage = "zookeeper" /\ At(p, "store", "begun")
  /\ Moves(p, IF stored[call[p].app] = Nothing THEN "missing" ELSE "present")
  /\ UNCHANGED <<storage, stored, knownApps, revision, latest, untroubled>>

\* Of two that create the node one fails, and gives up.
CreatePath(p) ==
  /\ At(p, "store", "missing")
  /\ IF stored[call[p].app] = Nothing
     THEN PutInfo(call[p].app, Blank) /\ Moves(p, "present")
     ELSE Goes(p, NoCall) /\ UNCHANGED stored
  /\ UNCHANGED <<storage, knownApps, revision, latest, untroubled>>

LookAgain(p) ==
  /\ At(p, "store", "present")
  /\ Moves(p, IF stored[call[p].app] = Nothing THEN "create" ELSE "set")
  /\ UNCHANGED <<storage, stored, knownApps, revision, latest, untroubled>>

\* set_data() needs the node, create() needs it not to be there.
MayWrite(there, pc) == IF pc = "set" THEN there ELSE ~there
BugMayWrite(there, pc) == pc = "create" /\ ~there
WriteInfo(p) ==
  /\ call[p].op = "store" /\ call[p].pc \in {"set", "create"}
  /\ LET a == call[p].app
     IN IF MayWrite(stored[a] # Nothing, call[p].pc) THEN PutInfo(a, call[p].info) ELSE UNCHANGED stored
  /\ Goes(p, NoCall)
  /\ UNCHANGED <<storage, knownApps, revision, latest, untroubled>>

Post(p) ==
  /\ storage = "nacos" /\ At(p, "store", "begun")
  /\ PutInfo(call[p].app, call[p].info)
  /\ Moves(p, "posted")
  /\ UNCHANGED <<storage, knownApps, revision, latest, untroubled>>

NoteKnown(p) ==
  /\ At(p, "store", "posted")
  /\ Knows(p, knownApps[p] \cup {call[p].app})
  /\ Goes(p, NoCall)
  /\ UNCHANGED <<storage, stored, revision, latest, untroubled>>

-----------------------------------------------------------------------------
(* remove(): nothing to do for what get() does not find.                   *)

RemoveInfo(p, a) ==
  /\ Begins(p, a, Nothing)
  /\ \/ storage = "memory" /\ PutInfo(a, Nothing) /\ UNCHANGED call
     \/ /\ storage # "memory"
        /\ Goes(p, IF Found(a) = Nothing THEN NoCall ELSE [op |-> "remove", app |-> a, pc |-> "begun"])
        /\ UNCHANGED stored
  /\ UNCHANGED <<storage, knownApps, revision>>

DeleteInfo(p) ==
  /\ At(p, "remove", "begun")
  /\ PutInfo(call[p].app, Nothing)
  /\ IF storage = "nacos" THEN Moves(p, "deleted") ELSE Goes(p, NoCall)
  /\ UNCHANGED <<storage, knownApps, revision, latest, untroubled>>

NoteUnknown(p) ==
  /\ At(p, "remove", "deleted")
  /\ Knows(p, knownApps[p] \ {call[p].app})
  /\ Goes(p, NoCall)
  /\ UNCHANGED <<storage, stored, revision, latest, untroubled>>

\* A remote call fails: the call is over, with what it has done so far.
Fail(p) ==
  /\ call[p].op \in {"store", "remove"} /\ call[p].pc \notin {"posted", "deleted"}
  /\ Goes(p, NoCall)
  /\ untroubled' = untroubled \ {call[p].app}
  /\ UNCHANGED <<storage, stored, knownApps, revision, latest>>

-----------------------------------------------------------------------------
(* DefaultMetadataService::get_service_definition(): the applications are   *)
(* listed, and then read one after the other.                              *)

Offers(a, i) == Found(a) # Nothing /\ i \in Found(a).services

\* hoped: history, the applications listed that have offered the service ever since
Lookup(p, i) ==
  /\ call[p] = NoCall
  /\ LET listed == Applications(p)
     IN Goes(p, [op |-> "lookup", wanted |-> i, left |-> listed, pc |-> "reading",
                 hoped |-> {a \in listed : Offers(a, i)}])
  /\ UNCHANGED <<storage, stored, knownApps, revision, latest, untroubled>>

LookAt(p, a) ==
  /\ At(p, "lookup", "reading") /\ a \in call[p].left
  /\ LET hoped == {b \in call[p].hoped : Offers(b, call[p].wanted)}
     IN Goes(p, IF Offers(a, call[p].wanted)
                THEN [call[p] EXCEPT !.pc = "found", !.left = {}, !.hoped = hoped]
                ELSE [call[p] EXCEPT !.left = @ \ {a}, !.hoped = hoped])
  /\ UNCHANGED <<storage, stored, knownApps, revision, latest, untroubled>>

LookupEnds(p) ==
  /\ call[p].op = "lookup" /\ call[p].left = {}
  /\ Goes(p, NoCall)
  /\ UNCHANGED <<storage, stored, knownApps, revision, latest, untroubled>>

MetadataNext ==
  \E p \in Storer :
    \/ \E a \in App : RemoveInfo(p, a) \/ LookAt(p, a) \/ \E s \in SUBSET Interface : StoreInfo(p, a, s)
    \/ \E i \in Interface : Lookup(p, i)
    \/ LookForPath(p) \/ CreatePath(p) \/ LookAgain(p) \/ WriteInfo(p) \/ Post(p) \/ NoteKnown(p)
    \/ DeleteInfo(p) \/ NoteUnknown(p) \/ Fail(p) \/ LookupEnds(p)

MetadataSpec == MetadataInit /\ [][MetadataNext]_metadataVars

-----------------------------------------------------------------------------

\* An application nobody is at work on, and whose calls came one after the other and were
\* not cut short, is found as the last of them left it.
LastCallCounts ==
  \A a \in untroubled : Changing(a) = {} => Found(a) = latest[a]

\* A lookup that has found nothing has listed nobody who offered the service all along.
LookupsFind ==
  \A p \in Storer :
    call[p].op = "lookup" /\ call[p].left = {} /\ call[p].pc = "reading"
      => ~ \E a \in call[p].hoped : Offers(a, call[p].wanted)

MetadataIsFound == LastCallCounts /\ LookupsFind
=============================================================================
