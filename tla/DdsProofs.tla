----------------------------- MODULE DdsProofs -----------------------------
(***************************************************************************)
(* Proofs about the classes that own DDS entities: lemmas about            *)
(* DdsEntities, then DdsBases, then LegacyPublisher (as Legacy) with its   *)
(* XddpReader, for every number of peers, every set of Fast-DDS threads    *)
(* and every bound.                                                        *)
(***************************************************************************)
EXTENDS DdsBases, XddpReader, SequenceTheorems, TLAPS

CONSTANT MaxCount \* as in LegacyPublisher

Legacy == INSTANCE LegacyPublisher

\* The entities that exist while the owner is outside cleanup().
Created(at) ==
    CASE at = "topic"    -> {"participant"}
      [] at = "group"    -> {"participant", "topic"}
      [] at = "endpoint" -> {"participant", "topic", "group"}
      [] at \in {"assign_endpoint", "ready", "write",
                 "read", "gate", "close", "open"} -> Entity
      [] OTHER -> {}

\* Control states outside init_dds() and cleanup().
Plain == {"new", "connect", "participant", "ready", "read", "gate", "write", "close",
          "open", "failed", "destroyed", "exited"}

OwnerType ==
    /\ pc \in Entity \cup Plain \cup {"assign_endpoint", "cleanup", "deleting"}
    /\ step \in 1 .. 5 /\ after \in {"none", "failed", "destroyed"}
    /\ handle \in [Entity -> BOOLEAN] /\ live \in [Entity -> BOOLEAN]

\* Pointers and entities agree, except between the return of create_ and the
\* assignment; an entity exists only with the ones created before it; what
\* cleanup() has passed is gone.
OwnerOk ==
    /\ pc \notin {"cleanup", "deleting"} =>
           \A e \in Entity : live[e] <=> e \in Created(pc)
    /\ \A e \in Entity : handle[e] <=> live[e] /\ (pc = "assign_endpoint" => e # "endpoint")
    /\ live["endpoint"] => live["group"]
    /\ live["group"] => live["topic"]
    /\ live["topic"] => live["participant"]
    /\ pc \in {"cleanup", "deleting"} => after # "none"
    /\ pc = "deleting" => step = 1 /\ live["endpoint"]
    /\ pc = "cleanup" => /\ step > 1 => ~live["endpoint"]
                         /\ step > 2 => ~live["group"]
                         /\ step > 3 => ~live["topic"]
                         /\ step > 4 => ~live["participant"]

\* Callbacks run only while the endpoint exists.
CallbackType ==
    /\ remote \in Nat /\ reported \in Nat /\ cb \in [Callback -> Int]
    /\ matched_ \in Int /\ told \in Int /\ seen \in [Callback -> Int]
    /\ phase \in [Callback -> {"add", "load", "tell"}]
    /\ overlapped \in BOOLEAN

CallbackOk ==
    /\ \A c \in Callback : cb[c] # 0 => live["endpoint"]
    /\ \A c \in Callback : phase[c] # "add" => cb[c] # 0

\* Without overlap there is at most one callback, and what it loaded and what
\* Derived was told is the count.
ToldOk ==
    ~overlapped =>
        /\ \A c, d \in Callback : cb[c] # 0 /\ cb[d] # 0 => c = d
        /\ \A c \in Callback : phase[c] = "tell" => seen[c] = matched_
        /\ NoCallback => told = matched_

\* The changes that were reported and are still to be added, in the order s of
\* their callbacks, lead from matched_ to reported: p holds the partial sums.
Pending == {c \in Callback : cb[c] # 0 /\ phase[c] = "add"}

Sums(n, s, p, from, change) ==
    /\ p[0] = from
    /\ \A i \in 1 .. n : p[i] = p[i - 1] + change[s[i]]

Listed(n, s, set) ==
    /\ \A i, j \in 1 .. n : s[i] = s[j] => i = j
    /\ \A c \in Callback : c \in set <=> \E i \in 1 .. n : s[i] = c

CountOk == \E n \in Nat : \E s \in [1 .. n -> Callback], p \in [0 .. n -> Int] :
               Listed(n, s, Pending) /\ Sums(n, s, p, matched_, cb) /\ p[n] = reported

Inv == OwnerType /\ OwnerOk /\ CallbackType /\ CallbackOk /\ ToldOk /\ CountOk
-----------------------------------------------------------------------------
(* The entities *)

LEMMA GotoOk ==
    ASSUME OwnerType, OwnerOk, NEW from \in Plain, NEW to \in Plain, Goto(from, to),
           Created(to) = Created(from)
    PROVE  OwnerType' /\ OwnerOk'
  BY DEF OwnerType, OwnerOk, Goto, Entity, Plain

LEMMA InitOk == OwnerType /\ OwnerOk /\ InitStep => OwnerType' /\ OwnerOk'
<1> SUFFICES ASSUME OwnerType, OwnerOk, InitStep PROVE OwnerType' /\ OwnerOk'
    OBVIOUS
<1> USE DEF OwnerType, OwnerOk, Entity, Plain, Created
<1>1. CASE Create("participant", "topic")
    BY <1>1 DEF Create
<1>2. CASE Create("topic", "group")
    BY <1>2 DEF Create
<1>3. CASE Create("group", "endpoint")
    BY <1>3 DEF Create
<1>4. CASE CreateEndpoint
    BY <1>4 DEF CreateEndpoint
<1>5. CASE AssignEndpoint
    BY <1>5 DEF AssignEndpoint
<1>6. CASE ParticipantFails
    BY <1>6 DEF ParticipantFails, Goto
<1>7. CASE CreateFails
    BY <1>7 DEF CreateFails, BeginCleanup
<1> QED
    BY <1>1, <1>2, <1>3, <1>4, <1>5, <1>6, <1>7 DEF InitStep

\* A delete call that comes after the dependents are gone is accepted.
LEMMA DeleteOk ==
    ASSUME NEW e \in Entity, \A d \in Dependents(e) : ~live[d], Delete(e)
    PROVE  live' = [live EXCEPT ![e] = FALSE] /\ handle' = [handle EXCEPT ![e] = FALSE]
<1>1. (\E d \in Dependents(e) : live[d]) = FALSE
    OBVIOUS
<1> QED
    BY <1>1 DEF Delete

LEMMA CleanupOk == OwnerType /\ OwnerOk /\ cleanup => OwnerType' /\ OwnerOk'
<1> SUFFICES ASSUME OwnerType, OwnerOk, cleanup PROVE OwnerType' /\ OwnerOk'
    OBVIOUS
<1> USE DEF OwnerType, OwnerOk, Entity, Plain
<1>0. /\ Len(CleanupOrder) = 4
      /\ CleanupOrder[1] = "endpoint" /\ CleanupOrder[2] = "group"
      /\ CleanupOrder[3] = "topic" /\ CleanupOrder[4] = "participant"
    BY DEF CleanupOrder
<1>1. CASE BeginDelete(CleanupOrder)
    BY <1>0, <1>1 DEF BeginDelete
<1>2. CASE CleanupStep(CleanupOrder, NoCallback)
  <2> DEFINE e == CleanupOrder[step]
  <2>1. /\ step \in 1 .. 4 /\ e \in Entity
        /\ pc' = "cleanup" /\ step' = step + 1 /\ after' = after
      BY <1>0, <1>2 DEF CleanupStep
  <2>2. \A d \in Dependents(e) : ~live[d]
      BY <1>0, <1>2, <2>1 DEF CleanupStep, Dependents
  <2>3. CASE handle[e]
    <3>1. Delete(e)
        BY <1>0, <1>2, <2>1, <2>3 DEF CleanupStep
    <3>2. live' = [live EXCEPT ![e] = FALSE] /\ handle' = [handle EXCEPT ![e] = FALSE]
        BY <2>1, <2>2, <3>1, DeleteOk
    <3> QED
        BY <1>0, <1>2, <2>1, <3>2 DEF CleanupStep
  <2>4. CASE ~handle[e]
    <3>1. UNCHANGED <<live, handle>> /\ pc = "cleanup"
        BY <1>0, <1>2, <2>1, <2>4 DEF CleanupStep
    <3> QED
        BY <1>0, <2>1, <2>4, <3>1
  <2> QED
      BY <2>3, <2>4
<1>3. CASE CleanupReturn(CleanupOrder)
  <2>1. \A e \in Entity : ~live[e]
      BY <1>0, <1>3 DEF CleanupReturn
  <2> QED
      BY <1>0, <1>3, <2>1 DEF CleanupReturn, Created
<1> QED
    BY <1>1, <1>2, <1>3 DEF cleanup, Cleanup

LEMMA DestructOk ==
    ASSUME OwnerType, OwnerOk, NEW from, from \subseteq {"failed", "ready"},
           Destruct(from)
    PROVE  OwnerType' /\ OwnerOk'
  BY DEF Destruct, BeginCleanup, OwnerType, OwnerOk, Entity, Plain, Created
-----------------------------------------------------------------------------
(* DdsBases: the owner *)

\* The endpoint is deleted only when no callback is running.
LEMMA OwnerInv ==
    ASSUME Inv, OwnerStep
    PROVE  OwnerType' /\ OwnerOk' /\ UNCHANGED peers
           /\ (NoCallback \/ (live["endpoint"] => live'["endpoint"]))
<1> USE DEF Inv
<1>1. CASE InitNames
    BY <1>1, GotoOk DEF InitNames, Goto, Created, Plain
<1>2. CASE InitStep
  <2>1. UNCHANGED peers
      BY <1>2 DEF InitStep, Create, CreateEndpoint, AssignEndpoint,
                  ParticipantFails, CreateFails, Goto, peers
  <2>2. live["endpoint"] => live'["endpoint"]
      BY <1>2 DEF InitStep, Create, CreateEndpoint, AssignEndpoint, OwnerType,
                  ParticipantFails, CreateFails, Goto, Entity
  <2> QED
      BY <1>2, <2>1, <2>2, InitOk
<1>3. CASE cleanup
  <2>1. UNCHANGED peers
      BY <1>3 DEF cleanup, Cleanup, BeginDelete, CleanupStep, CleanupReturn, peers
  <2>2. NoCallback \/ (live["endpoint"] => live'["endpoint"])
    <3>1. CASE BeginDelete(CleanupOrder) \/ CleanupReturn(CleanupOrder)
        BY <3>1 DEF BeginDelete, CleanupReturn
    <3>2. CASE CleanupStep(CleanupOrder, NoCallback)
      <4>1. CASE pc = "deleting"
          BY <3>2, <4>1 DEF CleanupStep
      <4>2. CASE pc # "deleting"
          BY <3>2, <4>2 DEF CleanupStep, Delete, OwnerType, Entity, CleanupOrder
      <4> QED
          BY <4>1, <4>2
    <3> QED
        BY <1>3, <3>1, <3>2 DEF cleanup, Cleanup
  <2> QED
      BY <1>3, <2>1, <2>2, CleanupOk
<1>4. CASE Destruct({"failed", "ready"})
    BY <1>4, DestructOk DEF Destruct, peers
<1>5. CASE PublishSkip \/ PublishFill
    BY <1>5, GotoOk DEF PublishSkip, PublishFill, Goto, Created, Plain
<1>6. CASE PublishWrite
    BY <1>6, GotoOk DEF PublishWrite, Goto, Created, Plain
<1> QED
    BY <1>1, <1>2, <1>3, <1>4, <1>5, <1>6 DEF OwnerStep
-----------------------------------------------------------------------------
(* DdsBases: the listener *)

\* A report appends its change to the ones still to be added.
LEMMA ReportCounted ==
    ASSUME Inv, NEW c \in Callback, Matched(c)
    PROVE  CountOk'
<1>1. PICK n \in Nat : \E s \in [1 .. n -> Callback], p \in [0 .. n -> Int] :
          Listed(n, s, Pending) /\ Sums(n, s, p, matched_, cb) /\ p[n] = reported
    BY DEF Inv, CountOk
<1>2. PICK s \in [1 .. n -> Callback], p \in [0 .. n -> Int] :
          Listed(n, s, Pending) /\ Sums(n, s, p, matched_, cb) /\ p[n] = reported
    BY <1>1
<1> DEFINE s2 == [i \in 1 .. n + 1 |-> IF i = n + 1 THEN c ELSE s[i]]
           p2 == [i \in 0 .. n + 1 |-> IF i = n + 1 THEN remote ELSE p[i]]
<1>3. /\ cb \in [Callback -> Int] /\ remote \in Int /\ reported \in Int
      /\ cb' = [cb EXCEPT ![c] = remote - reported] /\ remote # reported
      /\ reported' = remote /\ matched_' = matched_ /\ phase' = phase
      /\ cb[c] = 0 /\ phase[c] = "add"
    BY DEF Matched, Report, listener, Inv, CallbackType, CallbackOk
<1>4. /\ c \notin Pending
      /\ \A d \in Callback : d \in Pending' <=> d \in Pending \/ d = c
    BY <1>3 DEF Pending
<1>5. s2 \in [1 .. n + 1 -> Callback] /\ p2 \in [0 .. n + 1 -> Int]
    BY <1>3
<1>6. \A i \in 1 .. n : i \in 1 .. n + 1 /\ s2[i] = s[i] /\ s[i] # c
    BY <1>2, <1>4 DEF Listed
<1>7. s2[n + 1] = c /\ n + 1 \in 1 .. n + 1
    OBVIOUS
<1>8. Listed(n + 1, s2, Pending')
  <2>1. \A i, j \in 1 .. n + 1 : s2[i] = s2[j] => i = j
    <3> SUFFICES ASSUME NEW i \in 1 .. n + 1, NEW j \in 1 .. n + 1, s2[i] = s2[j]
                 PROVE  i = j
        OBVIOUS
    <3>1. (i \in 1 .. n \/ i = n + 1) /\ (j \in 1 .. n \/ j = n + 1)
        OBVIOUS
    <3> HIDE DEF s2
    <3> QED
        BY <1>2, <1>6, <1>7, <3>1 DEF Listed
  <2>2. ASSUME NEW d \in Callback
        PROVE  d \in Pending' <=> \E i \in 1 .. n + 1 : s2[i] = d
    <3>1. \A i \in 1 .. n + 1 : i \in 1 .. n \/ i = n + 1
        OBVIOUS
    <3> HIDE DEF s2
    <3>2. CASE d = c
        BY <1>4, <1>7, <3>2
    <3>3. CASE d # c
      <4>1. d \in Pending' <=> \E i \in 1 .. n : s[i] = d
          BY <1>2, <1>4, <3>3 DEF Listed
      <4> QED
          BY <4>1, <1>6, <1>7, <3>1, <3>3
    <3> QED
        BY <3>2, <3>3
  <2> QED
      BY <2>1, <2>2 DEF Listed
<1>9. Sums(n + 1, s2, p2, matched_', cb')
  <2>1. p2[0] = matched_'
      BY <1>2, <1>3 DEF Sums
  <2>2. ASSUME NEW i \in 1 .. n + 1 PROVE p2[i] = p2[i - 1] + cb'[s2[i]]
    <3>1. CASE i \in 1 .. n
      <4>1. p[i] = p[i - 1] + cb[s[i]] /\ cb'[s2[i]] = cb[s[i]]
          BY <1>2, <1>3, <1>6, <3>1 DEF Sums
      <4> QED
          BY <3>1, <4>1
    <3>2. CASE i = n + 1
      <4>1. p2[i] = remote /\ p2[i - 1] = reported /\ cb'[s2[i]] = remote - reported
          BY <1>2, <1>3, <3>2
      <4> QED
          BY <1>3, <4>1
    <3> QED
        BY <3>1, <3>2
  <2> QED
      BY <2>1, <2>2 DEF Sums
<1>10. p2[n + 1] = reported' /\ n + 1 \in Nat
    BY <1>3
<1> HIDE DEF s2, p2
<1> QED
    BY <1>5, <1>8, <1>9, <1>10 DEF CountOk

\* Adding a change takes it out of the list, wherever in it it stands.
LEMMA AddCounted ==
    ASSUME Inv, NEW c \in Callback, AddChange(c)
    PROVE  CountOk'
<1>1. PICK n \in Nat : \E s \in [1 .. n -> Callback], p \in [0 .. n -> Int] :
          Listed(n, s, Pending) /\ Sums(n, s, p, matched_, cb) /\ p[n] = reported
    BY DEF Inv, CountOk
<1>2. PICK s \in [1 .. n -> Callback], p \in [0 .. n -> Int] :
          Listed(n, s, Pending) /\ Sums(n, s, p, matched_, cb) /\ p[n] = reported
    BY <1>1
<1>3. /\ cb \in [Callback -> Int] /\ matched_ \in Int /\ cb[c] \in Int
      /\ cb' = cb /\ reported' = reported /\ matched_' = matched_ + cb[c]
      /\ phase \in [Callback -> {"add", "load", "tell"}]
      /\ phase' = [phase EXCEPT ![c] = "load"] /\ c \in Pending
    BY DEF AddChange, ddsVars, peers, Inv, CallbackType, Pending
<1>4. \A d \in Callback : d \in Pending' <=> d \in Pending /\ d # c
    BY <1>3 DEF Pending
<1>5. PICK k \in 1 .. n : s[k] = c
    BY <1>2, <1>3 DEF Listed
<1> DEFINE At(i) == IF i < k THEN i ELSE i + 1
           s2 == [i \in 1 .. n - 1 |-> s[At(i)]]
           p2 == [i \in 0 .. n - 1 |-> IF i < k THEN p[i] + cb[c] ELSE p[i + 1]]
<1>6. n - 1 \in Nat /\ s2 \in [1 .. n - 1 -> Callback] /\ p2 \in [0 .. n - 1 -> Int]
    BY <1>3
<1>7. /\ \A i \in 1 .. n - 1 : At(i) \in 1 .. n /\ At(i) # k /\ s2[i] = s[At(i)]
      /\ \A i, j \in 1 .. n - 1 : At(i) = At(j) => i = j
      /\ \A i \in 1 .. n : i # k => \E j \in 1 .. n - 1 : At(j) = i
  <2>1. ASSUME NEW i \in 1 .. n, i # k PROVE \E j \in 1 .. n - 1 : At(j) = i
    <3>1. CASE i < k
        BY <3>1
    <3>2. CASE i > k
      <4>1. i - 1 \in 1 .. n - 1 /\ At(i - 1) = i
          BY <3>2
      <4> QED
          BY <4>1
    <3> QED
        BY <2>1, <3>1, <3>2
  <2> QED
      BY <2>1
<1>8. Listed(n - 1, s2, Pending')
  <2> HIDE DEF At, s2
  <2>1. \A i, j \in 1 .. n - 1 : s2[i] = s2[j] => i = j
      BY <1>2, <1>7 DEF Listed
  <2>2. ASSUME NEW d \in Callback
        PROVE  d \in Pending' <=> \E i \in 1 .. n - 1 : s2[i] = d
    <3>1. d \in Pending' <=> \E i \in 1 .. n : s[i] = d /\ i # k
        BY <1>2, <1>4, <1>5 DEF Listed
    <3> QED
        BY <1>7, <3>1
  <2> QED
      BY <2>1, <2>2 DEF Listed
<1>9. Sums(n - 1, s2, p2, matched_', cb')
  <2>1. p2[0] = matched_'
      BY <1>2, <1>3, <1>6 DEF Sums
  <2>2. ASSUME NEW i \in 1 .. n - 1 PROVE p2[i] = p2[i - 1] + cb'[s2[i]]
    <3>1. /\ \A j \in 1 .. n : p[j] = p[j - 1] + cb[s[j]]
          /\ i \in 1 .. n /\ i + 1 \in 1 .. n /\ i - 1 \in 0 .. n - 1
          /\ \A j \in 1 .. n : cb[s[j]] \in Int
        BY <1>2, <1>3 DEF Sums
    <3>2. CASE i < k
      <4>1. p2[i] = p[i] + cb[c] /\ p2[i - 1] = p[i - 1] + cb[c] /\ s2[i] = s[i]
          BY <3>1, <3>2
      <4>2. p[i] = p[i - 1] + cb[s[i]] /\ p[i - 1] \in Int /\ cb[s[i]] \in Int
          BY <3>1
      <4>3. cb'[s2[i]] = cb[s[i]]
          BY <1>3, <4>1
      <4> HIDE DEF At, s2, p2
      <4> QED
          BY <1>3, <4>1, <4>2, <4>3
    <3>3. CASE i = k
      <4>1. p2[i] = p[i + 1] /\ p2[i - 1] = p[i - 1] + cb[c] /\ s2[i] = s[i + 1]
          BY <3>1, <3>3
      <4>2. p[i] = p[i - 1] + cb[c] /\ p[i + 1] = p[i] + cb[s[i + 1]]
          BY <1>5, <3>1, <3>3
      <4> QED
          BY <1>3, <3>1, <4>1, <4>2
    <3>4. CASE i > k
      <4>1. p2[i] = p[i + 1] /\ p2[i - 1] = p[i] /\ s2[i] = s[i + 1]
          BY <3>1, <3>4
      <4>2. p[i + 1] = p[i] + cb[s[i + 1]]
          BY <3>1
      <4> QED
          BY <1>3, <4>1, <4>2
    <3> QED
        BY <3>2, <3>3, <3>4
  <2> QED
      BY <2>1, <2>2 DEF Sums
<1>10. p2[n - 1] = reported'
  <2>1. p[k] = p[k - 1] + cb[c]
      BY <1>2, <1>5 DEF Sums
  <2>2. CASE k = n
      BY <1>2, <1>3, <2>1, <2>2
  <2>3. CASE k < n
      BY <1>2, <1>3, <2>3
  <2> QED
      BY <2>2, <2>3
<1> HIDE DEF At, s2, p2
<1> QED
    BY <1>6, <1>8, <1>9, <1>10 DEF CountOk

\* The other steps leave the pending changes as they are.
LEMMA CountKept ==
    ASSUME Inv, Pending' = Pending, UNCHANGED <<matched_, reported>>,
           \A d \in Pending : cb'[d] = cb[d]
    PROVE  CountOk'
<1>1. PICK n \in Nat : \E s \in [1 .. n -> Callback], p \in [0 .. n -> Int] :
          Listed(n, s, Pending) /\ Sums(n, s, p, matched_, cb) /\ p[n] = reported
    BY DEF Inv, CountOk
<1>2. PICK s \in [1 .. n -> Callback], p \in [0 .. n -> Int] :
          Listed(n, s, Pending) /\ Sums(n, s, p, matched_, cb) /\ p[n] = reported
    BY <1>1
<1>3. \A i \in 1 .. n : s[i] \in Pending
    BY <1>2 DEF Listed
<1>4. Sums(n, s, p, matched_', cb')
    BY <1>2, <1>3 DEF Sums
<1> QED
    BY <1>2, <1>4 DEF CountOk

LEMMA ListenerInv ==
    ASSUME Inv, NEW c \in Callback, ListenerStep(c)
    PROVE  Inv'
<1> USE DEF Inv, CallbackType, CallbackOk, ToldOk, NoCallback
<1>1. UNCHANGED owner
    BY DEF ListenerStep, Matched, AddChange, LoadCount, TellDerived, Report, Return,
           ddsVars
<1>2. OwnerType' /\ OwnerOk' /\ live' = live
    BY <1>1 DEF OwnerType, OwnerOk, owner
<1>3. CASE Matched(c)
  <2>1. CallbackType' /\ CallbackOk'
      BY <1>2, <1>3 DEF Matched, Report, listener
  <2>2. ToldOk'
      BY <1>3 DEF Matched, Report, listener
  <2> QED
      BY <1>2, <1>3, <2>1, <2>2, ReportCounted
<1>4. CASE AddChange(c)
  <2>1. CallbackType' /\ CallbackOk'
      BY <1>2, <1>4 DEF AddChange, ddsVars, peers
  <2>2. ToldOk'
      BY <1>4 DEF AddChange, ddsVars, peers
  <2> QED
      BY <1>2, <1>4, <2>1, <2>2, AddCounted
<1>5. CASE LoadCount(c)
  <2>1. CallbackType' /\ CallbackOk'
      BY <1>2, <1>5 DEF LoadCount, ddsVars, peers
  <2>2. ToldOk'
      BY <1>5 DEF LoadCount, ddsVars, peers
  <2>3. Pending' = Pending /\ UNCHANGED <<matched_, reported, cb>>
      BY <1>5 DEF LoadCount, ddsVars, peers, Pending
  <2> QED
      BY <1>2, <2>1, <2>2, <2>3, CountKept
<1>6. CASE TellDerived(c)
  <2>1. CallbackType' /\ CallbackOk'
      BY <1>2, <1>6 DEF TellDerived, Return
  <2>2. ToldOk'
      BY <1>6 DEF TellDerived, Return
  <2>3. /\ Pending' = Pending /\ UNCHANGED <<matched_, reported>>
        /\ \A d \in Pending : cb'[d] = cb[d]
      BY <1>6 DEF TellDerived, Return, Pending
  <2> QED
      BY <1>2, <2>1, <2>2, <2>3, CountKept
<1> QED
    BY <1>3, <1>4, <1>5, <1>6 DEF ListenerStep
-----------------------------------------------------------------------------
LEMMA InitInv == Init => Inv
<1> SUFFICES ASSUME Init PROVE Inv
    OBVIOUS
<1>1. OwnerType /\ OwnerOk
  <2>1. /\ pc \in {"new", "participant"} /\ step = 1 /\ after = "none"
        /\ handle = [e \in Entity |-> FALSE] /\ live = [e \in Entity |-> FALSE]
      BY DEF Init, EntitiesInit
  <2>2. OwnerType
      BY <2>1 DEF OwnerType, Entity, Plain
  <2>3. \A e \in Entity : ~live[e] /\ ~handle[e]
      BY <2>1
  <2> QED
      BY <2>1, <2>2, <2>3 DEF OwnerOk, Entity, Created
<1>2. CallbackType /\ CallbackOk /\ ToldOk
  <2>1. /\ cb = [c \in Callback |-> 0] /\ remote = 0 /\ reported = 0
        /\ phase = [c \in Callback |-> "add"] /\ seen = [c \in Callback |-> 0]
        /\ matched_ = 0 /\ told = 0 /\ overlapped = FALSE
      BY DEF Init, EntitiesInit
  <2>2. \A c \in Callback : cb[c] = 0 /\ phase[c] = "add"
      BY <2>1
  <2>3. CallbackType
    <3>1. overlapped \in BOOLEAN
        BY <2>1
    <3> QED
        BY <2>1, <3>1 DEF CallbackType
  <2> QED
      BY <2>1, <2>2, <2>3 DEF CallbackOk, ToldOk, NoCallback
<1>3. Pending = {} /\ matched_ = 0 /\ reported = 0
    BY DEF Init, EntitiesInit, Pending
<1>4. CountOk
  <2> DEFINE s == [i \in 1 .. 0 |-> CHOOSE c \in Callback : TRUE]
             p == [i \in 0 .. 0 |-> 0]
  <2>1. s \in [1 .. 0 -> Callback] /\ p \in [0 .. 0 -> Int] /\ 0 \in Nat
      OBVIOUS
  <2>2. Listed(0, s, Pending) /\ Sums(0, s, p, matched_, cb) /\ p[0] = reported
      BY <1>3 DEF Listed, Sums
  <2> HIDE DEF s, p
  <2> QED
      BY <2>1, <2>2 DEF CountOk
<1> QED
    BY <1>1, <1>2, <1>4 DEF Inv

LEMMA StepInv == Inv /\ [Next]_vars => Inv'
<1> SUFFICES ASSUME Inv, [Next]_vars PROVE Inv'
    OBVIOUS
<1>1. CASE OwnerStep
  <2>1. /\ OwnerType' /\ OwnerOk'
        /\ NoCallback \/ (live["endpoint"] => live'["endpoint"])
        /\ UNCHANGED <<peers, listener, overlapped>>
      BY <1>1, OwnerInv DEF OwnerStep
  <2>2. CallbackType' /\ CallbackOk' /\ ToldOk'
      BY <2>1 DEF Inv, CallbackType, CallbackOk, ToldOk, NoCallback, peers, listener
  <2>3. Pending' = Pending /\ UNCHANGED <<matched_, reported, cb>>
      BY <2>1 DEF Pending, peers, listener
  <2> QED
      BY <2>1, <2>2, <2>3, CountKept DEF Inv
<1>2. CASE Discover /\ UNCHANGED <<role, listener, overlapped>>
  <2>1. /\ remote' \in Nat /\ UNCHANGED <<owner, reported, cb, listener, overlapped>>
      BY <1>2, PeersAssumption DEF Discover
  <2>2. OwnerType' /\ OwnerOk' /\ live' = live
      BY <2>1 DEF Inv, OwnerType, OwnerOk, owner
  <2>3. CallbackType' /\ CallbackOk' /\ ToldOk'
      BY <2>1, <2>2 DEF Inv, CallbackType, CallbackOk, ToldOk, NoCallback, listener
  <2>4. Pending' = Pending /\ UNCHANGED <<matched_, reported, cb>>
      BY <2>1 DEF Pending, listener
  <2> QED
      BY <2>2, <2>3, <2>4, CountKept DEF Inv
<1>3. CASE \E c \in Callback : ListenerStep(c)
    BY <1>3, ListenerInv
<1>4. CASE UNCHANGED vars
  <2>1. UNCHANGED <<owner, peers, listener, overlapped>>
      BY <1>4 DEF vars, ddsVars
  <2>2. OwnerType' /\ OwnerOk'
      BY <2>1 DEF Inv, OwnerType, OwnerOk, owner
  <2>3. CallbackType' /\ CallbackOk' /\ ToldOk' /\ Pending' = Pending
      BY <2>1, <2>2 DEF Inv, CallbackType, CallbackOk, ToldOk, NoCallback, listener,
                        peers, owner, Pending
  <2>4. CountOk'
      BY <2>1, <2>3, CountKept DEF peers, listener
  <2> QED
      BY <2>2, <2>3, <2>4 DEF Inv
<1> QED
    BY <1>1, <1>2, <1>3, <1>4 DEF Next, Done

LEMMA Invariance == Spec => []Inv
  BY InitInv, StepInv, PTL DEF Spec

\* Neither write() nor cleanup() goes through a dangling or a null pointer,
\* wherever init_dds() failed and whatever callbacks are running.
THEOREM PointersStayValid == Spec => []PointersValid
<1>1. Inv => PointersValid
    BY DEF Inv, OwnerType, OwnerOk, Created, PointersValid, PointersGood, Factory, Entity
<1> QED
    BY <1>1, Invariance, PTL

\* After a failed init() and after the destructor no entity is left and no
\* callback is running: deleting the endpoint waits for all of them.
THEOREM EverythingDeleted == Spec => []NothingSurvives
<1>1. Inv => NothingSurvives
  <2> SUFFICES ASSUME Inv, pc \in {"failed", "destroyed"}
               PROVE  (\A e \in Entity : ~live[e]) /\ NoCallback
      BY DEF NothingSurvives
  <2>1. \A e \in Entity : ~live[e]
      BY DEF Inv, OwnerOk, Created
  <2> QED
      BY <2>1 DEF Inv, CallbackOk, NoCallback, Entity
<1> QED
    BY <1>1, Invariance, PTL

\* For any number of peers and of overlapping callbacks, matched_ is exact as
\* soon as every change is reported and no callback is running; without
\* overlap Derived was told that number last.
THEOREM MatchesCounted == Spec => []MatchedExact
<1>1. Inv => MatchedExact
  <2> SUFFICES ASSUME Inv, remote = reported, NoCallback
               PROVE  matched_ = remote /\ (~overlapped => told = remote)
      BY DEF MatchedExact
  <2>1. Pending = {}
      BY DEF NoCallback, Pending
  <2>2. PICK n \in Nat : \E s \in [1 .. n -> Callback], p \in [0 .. n -> Int] :
            Listed(n, s, Pending) /\ Sums(n, s, p, matched_, cb) /\ p[n] = reported
      BY DEF Inv, CountOk
  <2>3. PICK s \in [1 .. n -> Callback], p \in [0 .. n -> Int] :
            Listed(n, s, Pending) /\ Sums(n, s, p, matched_, cb) /\ p[n] = reported
      BY <2>2
  <2>4. n = 0
    <3> SUFFICES ASSUME n # 0 PROVE FALSE
        OBVIOUS
    <3>1. 1 \in 1 .. n /\ s[1] \in Callback
        OBVIOUS
    <3> QED
        BY <2>1, <2>3, <3>1 DEF Listed
  <2>5. matched_ = reported
      BY <2>3, <2>4 DEF Sums
  <2> QED
      BY <2>5 DEF Inv, ToldOk
<1> QED
    BY <1>1, Invariance, PTL
-----------------------------------------------------------------------------
(* LegacyPublisher *)

Message == [id : Nat, whole : BOOLEAN]
Buffer  == [first : Nat, last : Nat]

\* The reader holds a descriptor exactly when fd is not 0, and none where it
\* opens one.
ReaderOk == /\ fd \in Nat /\ device \in Nat /\ (up => device > 0)
            /\ opened = (IF fd = 0 THEN 0 ELSE 1)
            /\ pc \in {"connect", "open", "exited"} => fd = 0

\* The device holds messages in the order of sending, later than all that was
\* read; a buffer that is about to be published is whole and new.
BufferOk ==
    /\ sent \in Nat /\ queue \in Seq(Message) /\ msg \in Buffer
    /\ msg.first <= sent /\ written \in Seq(Buffer)
    /\ \A i \in 1 .. Len(written) : written[i].first <= msg.first
    /\ \A i \in 1 .. Len(queue) : msg.first < queue[i].id /\ queue[i].id <= sent
    /\ \A i, j \in 1 .. Len(queue) : i < j => queue[i].id < queue[j].id
    /\ pc \in {"gate", "write"} => /\ msg.first = msg.last
                                  /\ \A i \in 1 .. Len(written) : written[i].first < msg.first

LegacyInv == OwnerType /\ OwnerOk /\ ReaderOk /\ BufferOk

\* The steps on entities are those of DdsBases, in the same order of deletion.
LEMMA SameEntities ==
    /\ Legacy!InitStep => InitStep
    /\ Legacy!Cleanup(Legacy!CleanupOrder, Legacy!NoCallback) => cleanup
<1>1. Legacy!InitStep => InitStep
    BY DEF Legacy!InitStep, InitStep, Legacy!Create, Create, Legacy!CreateEndpoint,
           CreateEndpoint, Legacy!AssignEndpoint, AssignEndpoint,
           Legacy!ParticipantFails, ParticipantFails, Legacy!CreateFails, CreateFails,
           Legacy!BeginCleanup, BeginCleanup, Legacy!Goto, Goto, Legacy!peers, peers
<1>2. Legacy!Cleanup(Legacy!CleanupOrder, Legacy!NoCallback) => cleanup
    BY DEF cleanup, Legacy!Cleanup, Cleanup, Legacy!CleanupOrder, CleanupOrder,
           Legacy!NoCallback, NoCallback, Legacy!BeginDelete, BeginDelete,
           Legacy!CleanupStep, CleanupStep, Legacy!CleanupReturn, CleanupReturn,
           Legacy!Delete, Delete, Legacy!Dependents, Dependents, Legacy!peers, peers
<1> QED
    BY <1>1, <1>2

LEMMA LegacyGoto ==
    ASSUME LegacyInv, NEW from \in Plain, NEW to \in Plain, Legacy!Goto(from, to),
           Created(to) = Created(from)
    PROVE  OwnerType' /\ OwnerOk' /\ pc = from /\ pc' = to
<1>1. Goto(from, to)
    BY DEF Legacy!Goto, Goto, Legacy!peers, peers
<1> QED
    BY <1>1, GotoOk DEF LegacyInv, Goto

\* Moves that leave reader, device and buffers alone.
LEMMA BufferKept ==
    ASSUME LegacyInv, OwnerType', OwnerOk',
           UNCHANGED <<fd, opened, device, up, queue, sent, msg, written>>,
           pc' \in {"connect", "open", "exited"} => pc' = pc,
           pc' \in {"gate", "write"} => pc \in {"gate", "write"}
    PROVE  LegacyInv'
  BY DEF LegacyInv, ReaderOk, BufferOk

LEMMA EntitySteps ==
    ASSUME LegacyInv, Legacy!Entities \/ Legacy!LoopExit \/ Legacy!InitFailed
    PROVE  LegacyInv' /\ UNCHANGED written
<1>1. UNCHANGED <<fd, opened, device, up, queue, sent, msg, written>>
    BY DEF Legacy!Entities, Legacy!LoopExit, Legacy!InitFailed, Legacy!reader, Legacy!xddp
<1>2. CASE InitStep
  <2>1. pc' \notin {"connect", "open", "exited", "gate", "write"}
      BY <1>2 DEF InitStep, Create, CreateEndpoint, AssignEndpoint, ParticipantFails,
                  CreateFails, BeginCleanup, Goto
  <2> QED
      BY <1>1, <1>2, <2>1, InitOk, BufferKept DEF LegacyInv
<1>3. CASE cleanup
  <2>1. pc' \notin {"connect", "open", "exited", "gate", "write"}
      BY <1>3 DEF cleanup, Cleanup, BeginDelete, CleanupStep, CleanupReturn, LegacyInv,
                  OwnerType
  <2> QED
      BY <1>1, <1>3, <2>1, CleanupOk, BufferKept DEF LegacyInv
<1>4. CASE Legacy!LoopExit \/ Legacy!InitFailed
  <2>1. Destruct({"ready"}) \/ Destruct({"failed"})
      BY <1>4 DEF Legacy!LoopExit, Legacy!InitFailed, Legacy!Destruct, Destruct,
                  Legacy!BeginCleanup, BeginCleanup, Legacy!peers, peers
  <2>2. OwnerType' /\ OwnerOk'
      BY <2>1, DestructOk DEF LegacyInv
  <2>3. pc' = "cleanup"
      BY <2>1 DEF Destruct, BeginCleanup
  <2> QED
      BY <1>1, <2>2, <2>3, BufferKept
<1> QED
    BY <1>2, <1>3, <1>4, SameEntities DEF Legacy!Entities

LEMMA MoveSteps ==
    ASSUME LegacyInv,
           \/ Legacy!ConnectRetry \/ Legacy!ConnectStops \/ Legacy!ReadFails
           \/ Legacy!ReadInterrupted \/ Legacy!ReadError \/ Legacy!LoopContinue
           \/ Legacy!PublishSkip \/ Legacy!PublishFill
    PROVE  LegacyInv' /\ UNCHANGED written
<1>1. UNCHANGED <<fd, opened, device, up, queue, sent, msg, written>>
    BY DEF Legacy!ConnectRetry, Legacy!ConnectStops, Legacy!ReadFails,
           Legacy!ReadInterrupted, Legacy!ReadError, Legacy!LoopContinue, Legacy!PublishSkip,
           Legacy!PublishFill, Legacy!Move, Legacy!reader, Legacy!xddp
<1>2. \/ Legacy!Goto("connect", "connect") \/ Legacy!Goto("connect", "destroyed")
      \/ Legacy!Goto("read", "close") \/ Legacy!Goto("read", "ready")
      \/ Legacy!Goto("ready", "read") \/ Legacy!Goto("gate", "ready")
      \/ Legacy!Goto("gate", "write")
    BY DEF Legacy!ConnectRetry, Legacy!ConnectStops, Legacy!ReadFails,
           Legacy!ReadInterrupted, Legacy!ReadError, Legacy!LoopContinue, Legacy!PublishSkip,
           Legacy!PublishFill, Legacy!Move
<1>3. /\ OwnerType' /\ OwnerOk'
      /\ pc' \in {"connect", "open", "exited"} => pc' = pc
      /\ pc' \in {"gate", "write"} => pc \in {"gate", "write"}
    BY <1>2, LegacyGoto DEF Plain, Created
<1> QED
    BY <1>1, <1>3, BufferKept

\* The steps that open or close a descriptor.
LEMMA DescriptorSteps ==
    ASSUME LegacyInv,
           \/ Legacy!ConnectOpen \/ Legacy!ReconnectClose \/ Legacy!ReconnectOpen
           \/ Legacy!ReconnectFails \/ Legacy!MainReturns
    PROVE  LegacyInv' /\ UNCHANGED written
<1>1. CASE Legacy!ConnectOpen
  <2>1. OwnerType' /\ OwnerOk' /\ pc = "connect" /\ pc' = "participant"
      BY <1>1, LegacyGoto DEF Legacy!ConnectOpen, Plain, Created
  <2> QED
      BY <1>1, <2>1 DEF Legacy!ConnectOpen, Legacy!Open, Legacy!xddp, LegacyInv,
                        ReaderOk, BufferOk
<1>2. CASE Legacy!ReconnectClose
  <2>1. OwnerType' /\ OwnerOk' /\ pc = "close" /\ pc' = "open"
      BY <1>2, LegacyGoto DEF Legacy!ReconnectClose, Plain, Created
  <2>2. ReaderOk' /\ UNCHANGED <<sent, msg, written>> /\ queue' \in {queue, <<>>}
      BY <1>2, <2>1 DEF Legacy!ReconnectClose, Legacy!Close, LegacyInv, ReaderOk
  <2>3. BufferOk'
    <3>1. CASE queue' = queue
        BY <2>1, <2>2, <3>1 DEF LegacyInv, BufferOk
    <3>2. CASE queue' = <<>>
        BY <2>1, <2>2, <3>2 DEF LegacyInv, BufferOk
    <3> QED
        BY <2>2, <3>1, <3>2
  <2> QED
      BY <2>1, <2>2, <2>3 DEF LegacyInv
<1>3. CASE Legacy!ReconnectOpen
  <2>1. OwnerType' /\ OwnerOk' /\ pc = "open" /\ pc' = "ready"
      BY <1>3, LegacyGoto DEF Legacy!ReconnectOpen, Plain, Created
  <2> QED
      BY <1>3, <2>1 DEF Legacy!ReconnectOpen, Legacy!Open, Legacy!xddp, LegacyInv,
                        ReaderOk, BufferOk
<1>4. CASE Legacy!ReconnectFails
  <2>1. OwnerType' /\ OwnerOk' /\ pc = "open" /\ pc' = "ready"
      BY <1>4, LegacyGoto DEF Legacy!ReconnectFails, Plain, Created
  <2> QED
      BY <1>4, <2>1 DEF Legacy!ReconnectFails, Legacy!xddp, LegacyInv, ReaderOk, BufferOk
<1>5. CASE Legacy!MainReturns
  <2>1. OwnerType' /\ OwnerOk' /\ pc = "destroyed" /\ pc' = "exited"
      BY <1>5, LegacyGoto DEF Legacy!MainReturns, Plain, Created
  <2> QED
      BY <1>5, <2>1 DEF Legacy!MainReturns, Legacy!Close, Legacy!xddp, LegacyInv,
                        ReaderOk, BufferOk
<1> QED
    BY <1>1, <1>2, <1>3, <1>4, <1>5

\* Taking the oldest message out of the device.
LEMMA QueueTail ==
    ASSUME BufferOk, queue # <<>>
    PROVE  /\ Head(queue).id \in Nat /\ msg.first < Head(queue).id
           /\ Head(queue).id <= sent /\ Tail(queue) \in Seq(Message)
           /\ \A i \in 1 .. Len(Tail(queue)) :
                  Head(queue).id < Tail(queue)[i].id /\ Tail(queue)[i].id <= sent
           /\ \A i, j \in 1 .. Len(Tail(queue)) :
                  i < j => Tail(queue)[i].id < Tail(queue)[j].id
<1> DEFINE r == Tail(queue)
<1>1. /\ Len(queue) \in Nat \ {0} /\ 1 \in 1 .. Len(queue) /\ Head(queue) = queue[1]
      /\ Head(queue) \in Message /\ r \in Seq(Message) /\ Len(r) = Len(queue) - 1
      /\ \A i \in 1 .. Len(r) : r[i] = queue[i + 1]
    BY HeadTailProperties DEF BufferOk
<1> HIDE DEF r
<1>2. \A i \in 1 .. Len(r) :
          i + 1 \in 1 .. Len(queue) /\ 1 < i + 1 /\ r[i] = queue[i + 1]
    BY <1>1
<1>3. ASSUME NEW i \in 1 .. Len(r) PROVE Head(queue).id < r[i].id /\ r[i].id <= sent
    BY <1>1, <1>2 DEF BufferOk
<1>4. ASSUME NEW i \in 1 .. Len(r), NEW j \in 1 .. Len(r), i < j PROVE r[i].id < r[j].id
  <2>1. i + 1 < j + 1
      BY <1>4
  <2> QED
      BY <1>2, <2>1 DEF BufferOk
<1>5. /\ Head(queue).id \in Nat /\ msg.first < Head(queue).id /\ Head(queue).id <= sent
    BY <1>1 DEF BufferOk, Message
<1> QED
    BY <1>1, <1>3, <1>4, <1>5 DEF r

LEMMA ReadSteps ==
    ASSUME LegacyInv, Legacy!ReadWhole \/ Legacy!ReadShort
    PROVE  LegacyInv' /\ UNCHANGED written
<1> DEFINE h == Head(queue).id
           r == Tail(queue)
<1>1. /\ UNCHANGED <<fd, opened, device, up, sent, written>>
      /\ queue # <<>> /\ queue' = r
      /\ \/ Legacy!Goto("read", "gate") /\ msg' = [first |-> h, last |-> h]
         \/ Legacy!Goto("read", "close") /\ msg' = [msg EXCEPT !.first = h]
    BY DEF Legacy!ReadWhole, Legacy!ReadShort, Legacy!AfterShort, Legacy!reader
<1>2. OwnerType' /\ OwnerOk' /\ pc = "read" /\ pc' \in {"gate", "close"}
    BY <1>1, LegacyGoto DEF Plain, Created
<1>3. /\ h \in Nat /\ msg.first < h /\ h <= sent /\ r \in Seq(Message)
      /\ \A i \in 1 .. Len(r) : h < r[i].id /\ r[i].id <= sent
      /\ \A i, j \in 1 .. Len(r) : i < j => r[i].id < r[j].id
    BY <1>1, QueueTail DEF LegacyInv
<1>4. pc' = "gate" => msg' = [first |-> h, last |-> h]
    BY <1>1 DEF Legacy!Goto
<1> HIDE DEF h, r
<1>5. /\ msg' \in Buffer /\ msg'.first = h /\ (pc' = "gate" => msg'.last = h)
      /\ written \in Seq(Buffer) /\ sent \in Nat
      /\ \A i \in 1 .. Len(written) : written[i].first <= h /\ written[i].first < h
  <2>1. /\ msg' \in Buffer /\ msg'.first = h /\ (pc' = "gate" => msg'.last = h)
        /\ written \in Seq(Buffer) /\ sent \in Nat
      BY <1>1, <1>3, <1>4 DEF LegacyInv, BufferOk, Buffer
  <2>2. ASSUME NEW i \in 1 .. Len(written) PROVE written[i].first <= h /\ written[i].first < h
    <3>1. written[i] \in Buffer
        BY <2>1
    <3>2. written[i].first \in Nat /\ msg.first \in Nat
        BY <3>1 DEF LegacyInv, BufferOk, Buffer
    <3>3. written[i].first <= msg.first
        BY DEF LegacyInv, BufferOk
    <3> QED
        BY <1>3, <3>2, <3>3
  <2> QED
      BY <2>1, <2>2
<1>6. BufferOk'
    BY <1>1, <1>2, <1>3, <1>5 DEF BufferOk, Buffer
<1>7. ReaderOk'
    BY <1>1, <1>2 DEF LegacyInv, ReaderOk
<1> QED
    BY <1>1, <1>2, <1>6, <1>7 DEF LegacyInv

\* What PublishedWhole demands of a step.
WholeAndNew == /\ written' = Append(written, msg) /\ msg.first = msg.last
               /\ \A i \in DOMAIN written : written[i].first < msg.first

LEMMA WriteStep ==
    ASSUME LegacyInv, Legacy!PublishWrite
    PROVE  LegacyInv' /\ WholeAndNew
<1>1. OwnerType' /\ OwnerOk' /\ pc = "write" /\ pc' = "ready"
    BY LegacyGoto DEF Legacy!PublishWrite, Plain, Created
<1>2. written' = Append(written, msg) /\ UNCHANGED <<fd, opened, device, up, queue, sent, msg>>
    BY DEF Legacy!PublishWrite, Legacy!reader, Legacy!xddp
<1>3. ReaderOk'
    BY <1>1, <1>2 DEF LegacyInv, ReaderOk
<1>4. BufferOk'
  <2>1. /\ msg \in Buffer /\ msg.first \in Nat /\ written \in Seq(Buffer) /\ Len(written) \in Nat
        /\ \A i \in 1 .. Len(written) : written[i].first <= msg.first
      BY DEF LegacyInv, BufferOk, Buffer
  <2>2. /\ written' \in Seq(Buffer) /\ Len(written') = Len(written) + 1
        /\ written'[Len(written) + 1] = msg
        /\ \A i \in 1 .. Len(written) : written'[i] = written[i]
      BY <1>2, <2>1
  <2>3. ASSUME NEW i \in 1 .. Len(written') PROVE written'[i].first <= msg.first
    <3>1. CASE i \in 1 .. Len(written)
        BY <2>1, <2>2, <3>1
    <3>2. CASE i = Len(written) + 1
        BY <2>1, <2>2, <3>2
    <3> QED
        BY <2>1, <2>2, <3>1, <3>2
  <2> QED
      BY <1>1, <1>2, <2>2, <2>3 DEF LegacyInv, BufferOk
<1>5. WholeAndNew
  <2>1. written \in Seq(Buffer)
      BY DEF LegacyInv, BufferOk
  <2>2. DOMAIN written = 1 .. Len(written)
      BY <2>1
  <2> QED
      BY <1>1, <1>2, <2>2 DEF LegacyInv, BufferOk, WholeAndNew
<1> QED
    BY <1>1, <1>3, <1>4, <1>5 DEF LegacyInv

\* Fast-DDS, the real-time side and signals.
LEMMA OutsideSteps ==
    ASSUME LegacyInv,
           Legacy!sigint_handler \/ Legacy!FastDds \/ Legacy!RealTime \/ UNCHANGED Legacy!vars
    PROVE  LegacyInv' /\ UNCHANGED written
<1>1. UNCHANGED <<owner, fd, opened, msg, written>>
    BY DEF Legacy!sigint_handler, Legacy!FastDds, Legacy!RealTime, Legacy!vars,
           Legacy!ddsVars, Legacy!owner, owner, Legacy!reader, Legacy!Discover,
           Legacy!Matched, Legacy!Report, Legacy!on_publication_matched, Legacy!Return
<1>2. OwnerType' /\ OwnerOk' /\ pc' = pc
    BY <1>1 DEF LegacyInv, OwnerType, OwnerOk, owner
<1>3. CASE UNCHANGED <<device, up, queue, sent>>
    BY <1>1, <1>2, <1>3, BufferKept
<1>4. CASE Legacy!DeviceUp \/ Legacy!DeviceDown
  <2>1. /\ queue' = <<>> /\ sent' = sent
        /\ device' \in Nat /\ (up' => device' > 0)
      BY <1>4 DEF Legacy!DeviceUp, Legacy!DeviceDown, LegacyInv, ReaderOk
  <2>2. ReaderOk' /\ BufferOk'
      BY <1>1, <1>2, <2>1 DEF LegacyInv, ReaderOk, BufferOk
  <2> QED
      BY <1>1, <1>2, <2>2 DEF LegacyInv
<1>5. CASE Legacy!Send
  <2>1. PICK w \in BOOLEAN : queue' = Append(queue, [id |-> sent + 1, whole |-> w])
      BY <1>5 DEF Legacy!Send
  <2> DEFINE m == [id |-> sent + 1, whole |-> w]
  <2>2. /\ sent' = sent + 1 /\ UNCHANGED <<device, up>> /\ sent \in Nat
        /\ queue \in Seq(Message) /\ m \in Message /\ m.id = sent + 1
      BY <1>5 DEF Legacy!Send, LegacyInv, BufferOk, Message
  <2> HIDE DEF m
  <2>3. /\ queue' \in Seq(Message) /\ Len(queue') = Len(queue) + 1
        /\ \A i \in 1 .. Len(queue) : queue'[i] = queue[i]
        /\ queue'[Len(queue) + 1] = m /\ Len(queue) \in Nat
      BY <2>1, <2>2 DEF m
  <2>4. /\ msg \in Buffer /\ msg.first \in Nat /\ msg.first <= sent
        /\ \A i \in 1 .. Len(queue) : /\ queue[i].id \in Nat /\ queue[i].id <= sent
                                      /\ msg.first < queue[i].id
    <3>1. ASSUME NEW i \in 1 .. Len(queue) PROVE queue[i].id \in Nat
      <4>1. queue[i] \in Message
          BY <2>2
      <4> QED
          BY <4>1 DEF Message
    <3>2. msg \in Buffer /\ msg.first \in Nat /\ msg.first <= sent
        BY DEF LegacyInv, BufferOk, Buffer
    <3>3. \A i \in 1 .. Len(queue) : msg.first < queue[i].id /\ queue[i].id <= sent
        BY DEF LegacyInv, BufferOk
    <3> QED
        BY <3>1, <3>2, <3>3
  <2>5. ASSUME NEW i \in 1 .. Len(queue')
        PROVE  msg.first < queue'[i].id /\ queue'[i].id <= sent + 1
    <3>1. CASE i \in 1 .. Len(queue)
        BY <2>2, <2>3, <2>4, <3>1
    <3>2. CASE i = Len(queue) + 1
        BY <2>2, <2>3, <2>4, <3>2
    <3> QED
        BY <2>3, <3>1, <3>2
  <2>6. ASSUME NEW i \in 1 .. Len(queue'), NEW j \in 1 .. Len(queue'), i < j
        PROVE  queue'[i].id < queue'[j].id
    <3>1. i \in 1 .. Len(queue) /\ queue'[i] = queue[i]
        BY <2>3, <2>6
    <3>2. CASE j \in 1 .. Len(queue)
        BY <2>3, <2>6, <3>1, <3>2 DEF LegacyInv, BufferOk
    <3>3. CASE j = Len(queue) + 1
        BY <2>2, <2>3, <2>4, <3>1, <3>3
    <3> QED
        BY <2>3, <3>2, <3>3
  <2>7. BufferOk'
    <3>1. sent + 1 \in Nat /\ msg.first <= sent + 1
        BY <2>2, <2>4
    <3> QED
        BY <1>1, <1>2, <2>2, <2>3, <2>5, <2>6, <3>1 DEF LegacyInv, BufferOk
  <2>8. ReaderOk'
      BY <1>1, <1>2, <2>2 DEF LegacyInv, ReaderOk
  <2> QED
      BY <1>1, <1>2, <2>7, <2>8 DEF LegacyInv
<1>6. \/ UNCHANGED <<device, up, queue, sent>>
      \/ Legacy!DeviceUp \/ Legacy!DeviceDown \/ Legacy!Send
    BY DEF Legacy!sigint_handler, Legacy!FastDds, Legacy!RealTime, Legacy!vars,
           Legacy!xddp
<1> QED
    BY <1>3, <1>4, <1>5, <1>6

LEMMA LegacyStep ==
    LegacyInv /\ [Legacy!Next]_(Legacy!vars) =>
        LegacyInv' /\ (written' # written => WholeAndNew)
  BY EntitySteps, MoveSteps, DescriptorSteps, ReadSteps, WriteStep, OutsideSteps
     DEF Legacy!Next, Legacy!MainStep, Legacy!Idle

LEMMA LegacyInvariance == Legacy!Spec => []LegacyInv
<1>1. Legacy!Init => LegacyInv
  <2> SUFFICES ASSUME Legacy!Init PROVE LegacyInv
      OBVIOUS
  <2>1. /\ pc = "connect" /\ step = 1 /\ after = "none" /\ fd = 0 /\ opened = 0
        /\ device = 0 /\ up = FALSE /\ queue = <<>> /\ sent = 0
        /\ msg = [first |-> 0, last |-> 0] /\ written = <<>>
        /\ handle = [e \in Entity |-> FALSE] /\ live = [e \in Entity |-> FALSE]
      BY DEF Legacy!Init, Legacy!ReaderInit, Legacy!EntitiesInit, Legacy!Blank, Legacy!Entity, Entity
  <2>2. OwnerType
      BY <2>1 DEF OwnerType, Entity, Plain
  <2>3. \A e \in Entity : ~live[e] /\ ~handle[e]
      BY <2>1
  <2>4. OwnerOk
      BY <2>1, <2>3 DEF OwnerOk, Entity, Created
  <2> QED
      BY <2>1, <2>2, <2>4 DEF LegacyInv, ReaderOk, BufferOk, Buffer
<1> QED
    BY <1>1, LegacyStep, PTL DEF Legacy!Spec

\* The reader of the stand-alone publisher never holds two descriptors nor
\* forgets one, its DDS pointers are good whenever they are used, and when it
\* exits descriptor and entities are given back, however often the device
\* comes and goes.
THEOREM DescriptorHeldOnce == Legacy!Spec => []OneDescriptor
<1>1. LegacyInv => OneDescriptor
  <2> SUFFICES ASSUME LegacyInv PROVE OneDescriptor
      OBVIOUS
  <2>1. \A e \in Entity : handle[e] => live[e] /\ live[Factory(e)]
      BY DEF LegacyInv, OwnerOk, Factory, Entity
  <2>2. \A e \in Entity : handle[e] /\ e # "participant" => handle[Factory(e)]
      BY DEF LegacyInv, OwnerOk, Factory, Entity
  <2>3. pc \in {"read", "gate", "write", "close", "open"} => handle["endpoint"]
      BY DEF LegacyInv, OwnerOk, Entity, Created
  <2>4. pc = "exited" => opened = 0 /\ \A e \in Entity : ~live[e]
      BY DEF LegacyInv, ReaderOk, OwnerOk, Created
  <2> QED
      BY <2>1, <2>2, <2>3, <2>4 DEF OneDescriptor, PointersGood, Entity,
         LegacyInv, ReaderOk
<1> QED
    BY <1>1, LegacyInvariance, PTL

\* The stand-alone publisher never publishes a message that a short read has
\* mixed from two, nor one twice or after a later one.
THEOREM OnlyWholePublished == Legacy!Spec => PublishedWhole
<1>1. LegacyInv /\ [Legacy!Next]_(Legacy!vars) => (written' # written => WholeAndNew)
    BY LegacyStep
<1> QED
    BY <1>1, LegacyInvariance, PTL DEF Legacy!Spec, PublishedWhole, WholeAndNew

=============================================================================
