------------------------------ MODULE DdsBases ------------------------------
(***************************************************************************)
(* The two base classes DdsPublisher<Derived>, with its derived            *)
(* JointStatePublisher, and DdsSubscriber<Derived>, from which nothing in  *)
(* the repository derives (include/dds).  One object, of either class, is  *)
(* used by the thread that owns it (init, publish, destruction) and by     *)
(* Fast-DDS threads that run its listener.  The two listeners count        *)
(* matches with the same code; on_matched(count) is modelled by the count  *)
(* it was last given, on_data_available only forwards to Derived.          *)
(***************************************************************************)
EXTENDS DdsEntities

CONSTANTS DOFS,      \* NUM_DOFS
          NameCounts \* bound: sizes of joint_names given to init()

ASSUME BasesAssumption == DOFS \in Nat /\ NameCounts \subseteq Nat

VARIABLES role,      \* the class of the object
          matched_,  \* the counter of the listener
          phase,     \* how far the match callback of each thread has come
          seen,      \* what matched_.load() returned in it
          told,      \* the count derived_.on_matched was last given
          overlapped \* history: two match callbacks have run at once

listener == <<matched_, phase, seen, told>>
vars     == <<ddsVars, role, listener, overlapped>>

Init == /\ \/ role = "publisher" /\ EntitiesInit("new")
           \/ role = "subscriber" /\ EntitiesInit("participant")
        /\ matched_ = 0 /\ told = 0 /\ overlapped = FALSE
        /\ phase = [c \in Callback |-> "add"] /\ seen = [c \in Callback |-> 0]

\* Mutant: deletion in the order of creation.
CleanupOrder_bug == <<"participant", "topic", "group", "endpoint">>

CleanupOrder == <<"endpoint", "group", "topic", "participant">>

\* JointStatePublisher::init looks at the number of names first.
InitNames == \E n \in NameCounts :
                 Goto("new", IF n = DOFS THEN "participant" ELSE "failed")

cleanup == Cleanup(CleanupOrder, NoCallback)

\* Mutant: off by one.
has_subscribers_bug == matched_ > 1

has_subscribers == matched_ > 0

\* publish(): has_subscribers() first, writer_->write() later.
PublishSkip == role = "publisher" /\ ~has_subscribers /\ Goto("ready", "ready")

PublishFill == role = "publisher" /\ has_subscribers /\ Goto("ready", "write")

PublishWrite == Goto("write", "ready")

OwnerStep == /\ \/ InitNames \/ InitStep \/ cleanup
                \/ Destruct({"failed", "ready"})
                \/ PublishSkip \/ PublishFill \/ PublishWrite
             /\ UNCHANGED <<role, listener, overlapped>>

\* A status change starts a callback on thread c.
Matched(c) == /\ Report(c)
              /\ overlapped' = (overlapped \/ ~NoCallback)
              /\ UNCHANGED <<role, listener>>

\* Mutant: only changes by one are counted.
AddChange_bug(c) ==
    /\ cb[c] # 0 /\ phase[c] = "add" /\ phase' = [phase EXCEPT ![c] = "load"]
    /\ matched_' = IF cb[c] \in {-1, 1} THEN matched_ + cb[c] ELSE matched_
    /\ UNCHANGED <<ddsVars, role, seen, told, overlapped>>

\* matched_ += change, one atomic step,
AddChange(c) ==
    /\ cb[c] # 0 /\ phase[c] = "add" /\ phase' = [phase EXCEPT ![c] = "load"]
    /\ matched_' = matched_ + cb[c]
    /\ UNCHANGED <<ddsVars, role, seen, told, overlapped>>

\* then a second atomic access that loads the count,
LoadCount(c) ==
    /\ phase[c] = "load" /\ phase' = [phase EXCEPT ![c] = "tell"]
    /\ seen' = [seen EXCEPT ![c] = matched_]
    /\ UNCHANGED <<ddsVars, role, matched_, told, overlapped>>

\* then the call derived_.on_matched(count).
TellDerived(c) ==
    /\ phase[c] = "tell" /\ phase' = [phase EXCEPT ![c] = "add"]
    /\ told' = seen[c]
    /\ Return(c)
    /\ UNCHANGED <<role, matched_, seen, overlapped>>

ListenerStep(c) == Matched(c) \/ AddChange(c) \/ LoadCount(c) \/ TellDerived(c)

Done == pc = "destroyed" /\ UNCHANGED vars

Next == \/ OwnerStep \/ Done
        \/ Discover /\ UNCHANGED <<role, listener, overlapped>>
        \/ \E c \in Callback : ListenerStep(c)

\* cleanup() is straight-line code and Fast-DDS delivers its callbacks.
Fairness == /\ WF_vars(cleanup /\ UNCHANGED <<role, listener, overlapped>>)
            /\ \A c \in Callback : WF_vars(ListenerStep(c))

Spec == Init /\ [][Next]_vars /\ Fairness
-----------------------------------------------------------------------------
(* Properties *)

\* Neither write() nor cleanup() goes through a dangling or a null pointer,
\* however far init() got and whatever cleanup() already deleted.
PointersValid == PointersGood({"write"})

\* However far init() got, nothing created in Fast-DDS survives a failed
\* init() or the destructor: no delete call comes too early to be accepted.
\* No callback is running in the listener then, which is gone with the
\* object, and none can start.
NothingSurvives ==
    pc \in {"failed", "destroyed"} => (\A e \in Entity : ~live[e]) /\ NoCallback

\* When every change has been reported and no callback is running, matched_
\* is the number of matched peers, however reports were merged and callbacks
\* overlapped.  Derived was last told that number, provided no two callbacks
\* ever overlapped: += and load() are two accesses, so overlapping callbacks
\* may deliver their counts in the wrong order.
MatchedExact == remote = reported /\ NoCallback =>
                    matched_ = remote /\ (~overlapped => told = remote)

\* A peer that stays matched is noticed; it opens the gate of publish().
SubscriberNoticed ==
    remote > 0 ~> has_subscribers \/ remote = 0 \/ ~live["endpoint"]

=============================================================================
