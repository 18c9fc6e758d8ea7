---------------------------- MODULE VectorStore ----------------------------
(***************************************************************************)
(* core/vector_database.cpp with core/hnsw_index.cpp, as the gateway uses  *)
(* them: two VectorDatabase objects on one SQLite file, the agent loop's   *)
(* (through core/embedding_manager.cpp) and that of the vector.* methods.  *)
(* Each has a dimension and an HNSW index of its own; both save the index  *)
(* to the same two files when the process ends.                            *)
(*                                                                         *)
(* A vector is its dimension; a search has a limit that does not cut and a *)
(* threshold every vector of its dimension passes.  A call of an object is *)
(* one step, because it holds the object's mutex.  The full-text table is  *)
(* left out: the gateway does not search it.                               *)
(***************************************************************************)
EXTENDS Integers, Sequences, FiniteSets

CONSTANTS
    Id,             \* of vectors
    Dim,            \* dimensions of vectors, positive
    AgentDim,       \* the dimension of the embedding provider's vectors
    MaxElements,    \* max_elements
    MaxStarts,      \* bound: starts of the process
    None

Handle == {"agent", "rpc"}

VARIABLES
    rows,       \* the table: the dimension of each vector, 0 if there is none
    db,         \* per object: dimension_ and hnsw_index_ (None until initialized)
    graph,      \* the file of the index, or None
    names,      \* the file of its mapping, or None
    phase,      \* "down", "up", or the object whose destructor runs, and where
    starts,
    writer      \* ghost: the object whose index took the row when it was written

vars == <<rows, db, graph, names, phase, starts, writer>>

Closed == [dim |-> 0, index |-> None]

Init ==
    /\ rows = [i \in Id |-> 0]
    /\ db = [h \in Handle |-> Closed]
    /\ graph = None
    /\ names = None
    /\ phase = "down"
    /\ starts = 0
    /\ writer = [i \in Id |-> None]

Stored == {i \in Id : rows[i] # 0}

-----------------------------------------------------------------------------
(* HNSWIndex.  `points' are the labels in the graph, `marked' the deleted ones, *)
(* `names' is id_to_label_ in the order of the labels.  An index that is not    *)
(* `sound' reads memory of vectors of another dimension.                        *)

Fresh(d) == [dim |-> d, room |-> MaxElements, points |-> {}, marked |-> {},
             names |-> <<>>, sound |-> TRUE]

Label(ix, id) ==
    IF \E l \in DOMAIN ix.names : ix.names[l] = id
    THEN CHOOSE l \in DOMAIN ix.names : ix.names[l] = id
    ELSE Len(ix.names) + 1

\* hnswlib restores the room it saved, but none for an index saved empty; it
\* does not compare dimensions.
LoadIndex(d) ==
    [dim |-> d, room |-> IF graph.points = {} THEN 0 ELSE graph.room,
     points |-> graph.points, marked |-> graph.marked, names |-> names,
     sound |-> graph.sound /\ graph.dim = d]

\* InitializeHNSW
OpenIndex(d) == IF graph # None /\ names # None THEN LoadIndex(d) ELSE Fresh(d)

Fits(ix, id, d) ==
    /\ ix.sound
    /\ ix.dim = d
    /\ Label(ix, id) \in ix.points \/ Cardinality(ix.points) < ix.room

\* Mutation: a point that was deleted stays deleted when it is added again.
AddVectorStillMarked(ix, id, d) ==
    IF Fits(ix, id, d)
    THEN [ix EXCEPT !.points = @ \cup {Label(ix, id)},
                    !.names = IF Label(ix, id) > Len(@) THEN Append(@, id) ELSE @]
    ELSE ix
\* A label is taken before the library finds that there is no room.
AddVector(ix, id, d) ==
    LET l == Label(ix, id)
        taken == IF l > Len(ix.names) THEN Append(ix.names, id) ELSE ix.names IN
    CASE ~ix.sound \/ ix.dim # d -> ix
      [] Fits(ix, id, d) -> [ix EXCEPT !.points = @ \cup {l}, !.marked = @ \ {l},
                                       !.names = taken]
      [] OTHER -> [ix EXCEPT !.names = taken]

MarkDeleted(ix, id) ==
    IF id \in {ix.names[l] : l \in DOMAIN ix.names} /\ Label(ix, id) \in ix.points
    THEN [ix EXCEPT !.marked = @ \cup {Label(ix, id)}]
    ELSE ix

\* Search: the names of the points that are not deleted.
Near(ix, d) ==
    IF ix.dim # d THEN {}
    ELSE {ix.names[l] : l \in (ix.points \ ix.marked) \cap DOMAIN ix.names}

-----------------------------------------------------------------------------
(* VectorDatabase *)

\* Without an index the table is scanned; the vectors of another dimension are skipped.
Scan(d) == {i \in Id : rows[i] = d}

\* What SearchVectors answers to a query of dimension d: the index, once there is
\* one, and of what it names the rows that still exist.
SearchVectors(h, d) ==
    CASE db[h].dim \notin {0, d} -> {}
      [] db[h].index # None -> Near(db[h].index, d) \cap Stored
      [] OTHER -> Scan(d)

IndexVector(h, id, d) ==
    /\ phase = "up"
    /\ db[h].dim \in {0, d}
    /\ LET ix == IF db[h].index = None THEN OpenIndex(d) ELSE db[h].index IN
          /\ db' = [db EXCEPT ![h] = [dim |-> d, index |-> AddVector(ix, id, d)]]
          /\ writer' = [writer EXCEPT ![id] = IF Fits(ix, id, d) THEN h ELSE None]
    /\ rows' = [rows EXCEPT ![id] = d]
    /\ UNCHANGED <<graph, names, phase, starts>>

DeleteVector(h, id) ==
    /\ phase = "up"
    /\ id \in Stored
    /\ rows' = [rows EXCEPT ![id] = 0]
    /\ writer' = [writer EXCEPT ![id] = None]
    /\ db' = [db EXCEPT ![h] =
                [dim |-> IF Stored = {id} THEN 0 ELSE @.dim,
                 index |-> IF @.index = None THEN None ELSE MarkDeleted(@.index, id)]]
    /\ UNCHANGED <<graph, names, phase, starts>>

\* LoadDimension takes the dimension of some row; an empty table has none.
LoadDimension == IF Stored = {} THEN {0} ELSE {rows[i] : i \in Stored}

\* Without a dimension the index waits for the first vector.
Initialize == {[dim |-> d, index |-> IF d = 0 THEN None ELSE OpenIndex(d)] : d \in LoadDimension}

-----------------------------------------------------------------------------
(* The gateway *)

Start ==
    /\ phase = "down"
    /\ starts < MaxStarts
    /\ starts' = starts + 1
    /\ phase' = "up"
    /\ db' \in [Handle -> Initialize]
    /\ UNCHANGED <<rows, graph, names, writer>>

\* EmbeddingManager: a text has the dimension of the provider's model, and is
\* neither indexed nor searched for if the provider fails.
IndexText(id) == IndexVector("agent", id, AgentDim)
SearchText == SearchVectors("agent", AgentDim)

\* The messages of a turn are indexed one by one.  What is similar only adds to the
\* metadata; the identifier is the session and the time of a clock that may be set
\* back.
IndexConversationMessages(id) == IndexText(id)

\* vector.index and vector.delete; a text is embedded in the dimension the
\* object had, which another call may have changed meanwhile.
VectorIndex(id, d) == IndexVector("rpc", id, d)
VectorDelete(id) == DeleteVector("rpc", id)
VectorSearch(d) == SearchVectors("rpc", d)

\* The destructors: first the server's object, then the agent loop's.
BeginShutdown ==
    /\ phase = "up"
    /\ phase' = "rpc"
    /\ UNCHANGED <<rows, db, graph, names, starts, writer>>

\* SaveIndex writes the index, and then its mapping.
SaveGraph(h) ==
    /\ phase = h
    /\ db[h].index # None
    /\ graph' = db[h].index
    /\ phase' = h \o "Names"
    /\ UNCHANGED <<rows, db, names, starts, writer>>

AfterClose(h) == IF h = "rpc" THEN "agent" ELSE "down"

SaveNames(h) ==
    /\ phase = h \o "Names"
    /\ names' = db[h].index.names
    /\ db' = [db EXCEPT ![h] = Closed]
    /\ phase' = AfterClose(h)
    /\ writer' = [i \in Id |-> IF writer[i] = h THEN None ELSE writer[i]]
    /\ UNCHANGED <<rows, graph, starts>>

NothingToSave(h) ==
    /\ phase = h
    /\ db[h].index = None
    /\ db' = [db EXCEPT ![h] = Closed]
    /\ phase' = AfterClose(h)
    /\ writer' = [i \in Id |-> IF writer[i] = h THEN None ELSE writer[i]]
    /\ UNCHANGED <<rows, graph, names, starts>>

\* What SQLite committed and what was written to the files stays.
Crash ==
    /\ phase # "down"
    /\ phase' = "down"
    /\ db' = [h \in Handle |-> Closed]
    /\ writer' = [i \in Id |-> None]
    /\ UNCHANGED <<rows, graph, names, starts>>

Next ==
    \/ Start \/ BeginShutdown \/ Crash
    \/ \E id \in Id : IndexConversationMessages(id) \/ VectorDelete(id) \/ \E d \in Dim : VectorIndex(id, d)
    \/ \E h \in Handle : SaveGraph(h) \/ SaveNames(h) \/ NothingToSave(h)

Spec == Init /\ [][Next]_vars

-----------------------------------------------------------------------------
(* Properties *)

Index ==
    [dim : Dim, room : 0..MaxElements, points : SUBSET (1..Cardinality(Id)),
     marked : SUBSET (1..Cardinality(Id)), names : Seq(Id), sound : BOOLEAN]

\* The table holds vectors of known dimensions; an object and the files hold an
\* index or none.
TypeOK ==
    /\ rows \in [Id -> Dim \cup {0}]
    /\ \A h \in Handle : db[h].dim \in Dim \cup {0} /\ db[h].index \in Index \cup {None}
    /\ graph \in Index \cup {None}
    /\ names \in Seq(Id) \cup {None}
    /\ phase \in {"down", "up", "rpc", "rpcNames", "agent", "agentNames"}
    /\ starts \in 0..MaxStarts
    /\ writer \in [Id -> Handle \cup {None}]

\* A row that an object's index took when it was written is found by that object
\* when it searches for that vector, whatever was deleted, written again or loaded
\* from a graph and a mapping that do not belong together, until the row is deleted
\* or written by the other object.
OwnRowsFound ==
    \A id \in Id :
        /\ writer[id] = "agent" => id \in SearchText
        /\ writer[id] = "rpc" => id \in VectorSearch(rows[id])
=============================================================================
