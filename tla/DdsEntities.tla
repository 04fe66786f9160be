---------------------------- MODULE DdsEntities ----------------------------
(***************************************************************************)
(* The skeleton shared by the four classes that own DDS entities           *)
(* (DdsPublisher, DdsSubscriber and the stand-alone JointStatePublisher    *)
(* and JointStateSubscriber): a participant, a topic, a group (Publisher   *)
(* or Subscriber) and an endpoint (DataWriter or DataReader) are created   *)
(* one after the other, each call may fail, and cleanup() deletes them.    *)
(* Lines are those of include/dds/DdsPublisher.hpp; each class adds its    *)
(* own order of deletion, callbacks and use.                               *)
(*                                                                         *)
(* Fast-DDS is external.  Of it the model keeps: a create call may fail;   *)
(* a delete call is refused while entities that depend on the entity       *)
(* exist; the match count may change at any time while the endpoint        *)
(* exists; a status change reports the difference since the last report,   *)
(* so one report may stand for several changes; callbacks may overlap;     *)
(* deleting the endpoint first detaches its listener, then waits until no  *)
(* callback is running.                                                    *)
(***************************************************************************)
EXTENDS Integers, Sequences

CONSTANTS MaxPeers, \* bound: remote endpoints that can match
          Callback  \* Fast-DDS threads that may run the listener

ASSUME PeersAssumption == MaxPeers \in Nat

VARIABLES pc,       \* the owner: control state
          step,     \* cleanup(): position in the order of deletion
          after,    \* cleanup(): control state it returns to
          handle,   \* which of the four pointers are not null
          live,     \* which Fast-DDS entities exist
          remote,   \* peers matched with the endpoint, as Fast-DDS knows
          reported, \* peers matched, as reported to the listener so far
          cb        \* current_count_change of each running callback, or 0

owner   == <<pc, step, after, handle, live>>
peers   == <<remote, reported, cb>>
ddsVars == <<owner, peers>>

Entity == {"participant", "topic", "group", "endpoint"}

\* The object whose create_ and delete_ functions manage e.
Factory(e) == IF e = "endpoint" THEN "group" ELSE "participant"

\* The entities that must be gone before e can be deleted.
Dependents(e) == CASE e = "participant" -> {"topic", "group"}
                   [] e \in {"topic", "group"} -> {"endpoint"}
                   [] e = "endpoint" -> {}

NoCallback == \A c \in Callback : cb[c] = 0

EntitiesInit(start) == /\ pc = start /\ step = 1 /\ after = "none"
                       /\ handle = [e \in Entity |-> FALSE]
                       /\ live = [e \in Entity |-> FALSE]
                       /\ remote = 0 /\ reported = 0
                       /\ cb = [c \in Callback |-> 0]

\* A step of the owner that touches no entity.
Goto(from, to) == /\ pc = from /\ pc' = to
                  /\ UNCHANGED <<step, after, handle, live, peers>>
-----------------------------------------------------------------------------
(* init_dds() *)

\* The create_ call for e, and the assignment of its pointer.
Create(e, next) == /\ pc = e /\ pc' = next
                   /\ live' = [live EXCEPT ![e] = TRUE]
                   /\ handle' = [handle EXCEPT ![e] = TRUE]
                   /\ UNCHANGED <<step, after, peers>>

\* A listener callback may run before the create_ call returns its pointer.
CreateEndpoint == /\ pc = "endpoint" /\ pc' = "assign_endpoint"
                  /\ live' = [live EXCEPT !["endpoint"] = TRUE]
                  /\ UNCHANGED <<step, after, handle, peers>>

AssignEndpoint == /\ pc = "assign_endpoint" /\ pc' = "ready"
                  /\ handle' = [handle EXCEPT !["endpoint"] = TRUE]
                  /\ UNCHANGED <<step, after, live, peers>>

ParticipantFails == Goto("participant", "failed")

BeginCleanup(then) == pc' = "cleanup" /\ step' = 1 /\ after' = then

\* Mutant: init returns false without cleanup().
CreateFails_bug == /\ pc \in {"topic", "group", "endpoint"} /\ pc' = "failed"
                   /\ UNCHANGED <<step, after, handle, live, peers>>

CreateFails == /\ pc \in {"topic", "group", "endpoint"}
               /\ BeginCleanup("failed")
               /\ UNCHANGED <<handle, live, peers>>

InitStep == \/ Create("participant", "topic") \/ Create("topic", "group")
            \/ Create("group", "endpoint") \/ CreateEndpoint \/ AssignEndpoint
            \/ ParticipantFails \/ CreateFails
-----------------------------------------------------------------------------
(* cleanup(), called by a failing init and by the destructor *)

\* The return code is ignored: the pointer is cleared either way.
Delete(e) == /\ handle' = [handle EXCEPT ![e] = FALSE]
             /\ live' = [live EXCEPT ![e] = \E d \in Dependents(e) : live[d]]

\* delete_datawriter or delete_datareader is called: no callback starts
\* any more, and the call waits for the running ones (quiet: there is none).
BeginDelete(order) == /\ pc = "cleanup" /\ step <= Len(order)
                      /\ order[step] = "endpoint" /\ handle["endpoint"]
                      /\ pc' = "deleting"
                      /\ UNCHANGED <<step, after, handle, live, peers>>

CleanupStep(order, quiet) ==
    /\ step <= Len(order)
    /\ \/ /\ pc = "deleting" /\ quiet /\ Delete("endpoint")
       \/ /\ pc = "cleanup" /\ order[step] # "endpoint"
          /\ IF handle[order[step]] THEN Delete(order[step])
                                    ELSE UNCHANGED <<handle, live>>
       \/ /\ pc = "cleanup" /\ order[step] = "endpoint" /\ ~handle["endpoint"]
          /\ UNCHANGED <<handle, live>>
    /\ pc' = "cleanup" /\ step' = step + 1
    /\ UNCHANGED <<after, peers>>

CleanupReturn(order) == /\ pc = "cleanup" /\ step > Len(order)
                        /\ pc' = after
                        /\ UNCHANGED <<step, after, handle, live, peers>>

Cleanup(order, quiet) ==
    BeginDelete(order) \/ CleanupStep(order, quiet) \/ CleanupReturn(order)

\* Mutant: the destructor does not call cleanup().
Destruct_bug(from) == /\ pc \in from /\ pc' = "destroyed"
                      /\ UNCHANGED <<step, after, handle, live, peers>>

\* The owner leaves the scope of the object, or deletes it.
Destruct(from) == /\ pc \in from
                  /\ BeginCleanup("destroyed")
                  /\ UNCHANGED <<handle, live, peers>>
-----------------------------------------------------------------------------
(* Fast-DDS threads *)

Discover == /\ live["endpoint"]
            /\ \E n \in 0 .. MaxPeers : n # remote /\ remote' = n
            /\ UNCHANGED <<owner, reported, cb>>

Report(c) == /\ live["endpoint"] /\ pc # "deleting"
             /\ cb[c] = 0 /\ remote # reported
             /\ cb' = [cb EXCEPT ![c] = remote - reported]
             /\ reported' = remote
             /\ UNCHANGED <<owner, remote>>

\* The callback on thread c returns.
Return(c) == cb' = [cb EXCEPT ![c] = 0] /\ UNCHANGED <<owner, remote, reported>>
-----------------------------------------------------------------------------
\* A pointer that is not null denotes an existing entity, and so does the
\* pointer to the factory that must delete it: cleanup() never goes through
\* a dangling or a null pointer, and uses of the endpoint (using) find it.
PointersGood(using) ==
    /\ \A e \in Entity : handle[e] => live[e] /\ live[Factory(e)]
    /\ \A e \in Entity : handle[e] /\ e # "participant" => handle[Factory(e)]
    /\ pc \in using => handle["endpoint"]

=============================================================================
