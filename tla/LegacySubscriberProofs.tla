----------------------- MODULE LegacySubscriberProofs -----------------------
(***************************************************************************)
(* Proofs about LegacySubscriber, for every number of peers, samples and   *)
(* Fast-DDS threads and every distance between two printed samples.        *)
(***************************************************************************)
EXTENDS LegacySubscriber, FunctionTheorems, SequenceTheorems, TLAPS

(* The match counter *)

MatchType == /\ remote \in Nat /\ reported \in Nat /\ cb \in [Callback -> Int]
             /\ matched_ \in Int /\ irregular \in BOOLEAN
             /\ clamping \in [Callback -> {"count", "test", "store"}]

\* A negative count is one that a running callback is going to clamp.
ClampOk == /\ \A c \in Callback : clamping[c] # "count" => cb[c] # 0
           /\ matched_ < 0 => \E c \in Callback : clamping[c] # "count"

\* Without merged reports and overlap there is at most one change by one, and
\* the count lacks it until the callback has counted it.
RegularOk ==
    ~irregular =>
        /\ \A c, d \in Callback : cb[c] # 0 /\ cb[d] # 0 => c = d
        /\ \A c \in Callback : cb[c] # 0 =>
               /\ cb[c] \in {-1, 1} /\ clamping[c] # "store"
               /\ clamping[c] = "count" => matched_ + cb[c] = reported
               /\ clamping[c] = "test" => matched_ = reported
        /\ NoCallback => matched_ = reported

MatchInv == MatchType /\ ClampOk /\ RegularOk

\* Steps of main, of the data callbacks and of discovery do not disturb it.
LEMMA MatchKept ==
    ASSUME MatchInv, remote' \in Nat, UNCHANGED <<reported, cb, match>>
    PROVE  MatchInv'
  BY DEF MatchInv, MatchType, ClampOk, RegularOk, NoCallback, match

LEMMA MatchedKeeps ==
    ASSUME MatchInv, NEW c \in Callback, Matched(c)
    PROVE  MatchInv'
<1>1. /\ cb[c] = 0 /\ cb' = [cb EXCEPT ![c] = remote - reported] /\ reported' = remote
      /\ UNCHANGED <<remote, matched_, clamping>> /\ remote # reported
      /\ irregular' = (irregular \/ ~NoCallback \/ remote - reported \notin {-1, 1})
    BY DEF Matched, Report
<1>2. /\ remote \in Nat /\ reported \in Nat /\ cb \in [Callback -> Int]
      /\ remote - reported \in Int /\ remote - reported # 0 /\ clamping[c] = "count"
    BY <1>1 DEF MatchInv, MatchType, ClampOk
<1>3. MatchType'
  <2>1. irregular' \in BOOLEAN
      BY <1>1
  <2> QED
      BY <1>1, <1>2, <2>1 DEF MatchInv, MatchType
<1>4. ClampOk'
    BY <1>1, <1>2 DEF MatchInv, ClampOk
<1>5. RegularOk'
  <2> SUFFICES ASSUME ~irregular' PROVE RegularOk'
      BY DEF RegularOk
  <2>1. NoCallback /\ remote - reported \in {-1, 1} /\ matched_ = reported
      BY <1>1 DEF MatchInv, RegularOk
  <2>2. \A d \in Callback : cb'[d] # 0 => d = c
      BY <1>1, <1>2, <2>1 DEF NoCallback
  <2>3. cb'[c] = remote - reported /\ matched_ + (remote - reported) = remote
      BY <1>1, <1>2, <2>1
  <2> QED
      BY <1>1, <1>2, <2>1, <2>2, <2>3 DEF RegularOk, NoCallback
<1> QED
    BY <1>3, <1>4, <1>5 DEF MatchInv

LEMMA CountKeeps ==
    ASSUME MatchInv, NEW c \in Callback, CountChange(c)
    PROVE  MatchInv'
<1>1. /\ cb[c] # 0 /\ clamping[c] = "count"
      /\ clamping' = [clamping EXCEPT ![c] = "test"]
      /\ matched_' = IF cb[c] \in {-1, 1} THEN matched_ + cb[c] ELSE matched_
      /\ UNCHANGED <<remote, reported, cb, irregular>>
    BY DEF CountChange, ddsVars, peers
<1>2. MatchType' /\ ClampOk'
    BY <1>1 DEF MatchInv, MatchType, ClampOk
<1>3. RegularOk'
    BY <1>1 DEF MatchInv, MatchType, RegularOk, NoCallback
<1> QED
    BY <1>2, <1>3 DEF MatchInv

LEMMA ClampKeeps ==
    ASSUME MatchInv, NEW c \in Callback, ClampTest(c) \/ ClampStore(c)
    PROVE  MatchInv'
<1> USE DEF MatchInv, MatchType
<1>1. CASE ClampTest(c) /\ matched_ < 0
  <2>1. /\ clamping[c] = "test" /\ clamping' = [clamping EXCEPT ![c] = "store"]
        /\ UNCHANGED <<remote, reported, cb, irregular, matched_>>
      BY <1>1 DEF ClampTest, ddsVars, peers
  <2>2. MatchType' /\ ClampOk'
      BY <2>1 DEF ClampOk
  <2>3. RegularOk'
      BY <1>1, <2>1 DEF ClampOk, RegularOk, NoCallback
  <2> QED
      BY <2>2, <2>3
<1>2. CASE ClampTest(c) /\ ~(matched_ < 0)
  <2>1. /\ clamping[c] = "test" /\ clamping' = [clamping EXCEPT ![c] = "count"]
        /\ cb' = [cb EXCEPT ![c] = 0]
        /\ UNCHANGED <<remote, reported, irregular, matched_>>
      BY <1>2 DEF ClampTest, Return
  <2>2. MatchType' /\ ClampOk'
      BY <1>2, <2>1 DEF ClampOk
  <2>3. RegularOk'
      BY <2>1 DEF ClampOk, RegularOk, NoCallback
  <2> QED
      BY <2>2, <2>3
<1>3. CASE ClampStore(c)
  <2>1. /\ clamping[c] = "store" /\ clamping' = [clamping EXCEPT ![c] = "count"]
        /\ cb' = [cb EXCEPT ![c] = 0] /\ matched_' = 0
        /\ UNCHANGED <<remote, reported, irregular>>
      BY <1>3 DEF ClampStore, Return
  <2>2. MatchType' /\ ClampOk'
      BY <2>1 DEF ClampOk
  <2>3. RegularOk'
      BY <2>1 DEF ClampOk, RegularOk
  <2> QED
      BY <2>2, <2>3
<1> QED
    BY <1>1, <1>2, <1>3
-----------------------------------------------------------------------------
(* The printed samples *)

PrintType == /\ message_count_ \in Nat /\ printed \in Seq(Nat)
             /\ msg_id \in [Callback -> Nat]
             /\ reading \in [Callback -> {"idle", "take", "count", "test"}]

\* Threads hold ids of different samples that were counted.
HeldOk ==
    /\ \A c \in Callback : reading[c] = "test" => msg_id[c] \in 1 .. message_count_
    /\ \A c, d \in Callback :
           reading[c] = "test" /\ reading[d] = "test" /\ msg_id[c] = msg_id[d] => c = d

\* What was printed was counted and due, is held by no thread any more,
PrintedOk ==
    \A i \in 1 .. Len(printed) :
        /\ printed[i] \in 1 .. message_count_ /\ printed[i] % PrintEvery = 0
        /\ \A c \in Callback : reading[c] = "test" => printed[i] # msg_id[c]

\* and was printed once.
OnceOk == \A i, j \in 1 .. Len(printed) : printed[i] = printed[j] => i = j

\* A due sample was printed, or a thread holds it.
NoneMissing ==
    \A n \in 1 .. message_count_ : n % PrintEvery = 0 =>
        \/ \E i \in 1 .. Len(printed) : printed[i] = n
        \/ \E c \in Callback : reading[c] = "test" /\ msg_id[c] = n

PrintOk == HeldOk /\ PrintedOk /\ OnceOk /\ NoneMissing

PrintInv == PrintType /\ PrintOk

LEMMA PrintKept ==
    ASSUME PrintInv, UNCHANGED <<message_count_, printed, msg_id>>,
           reading' \in [Callback -> {"idle", "take", "count", "test"}],
           \A c \in Callback : reading'[c] = "test" <=> reading[c] = "test"
    PROVE  PrintInv'
  BY DEF PrintInv, PrintType, PrintOk, HeldOk, PrintedOk, OnceOk, NoneMissing

LEMMA CountedKeeps ==
    ASSUME PrintInv, NEW c \in Callback, Count(c)
    PROVE  PrintInv'
<1> USE DEF PrintInv, PrintType, PrintOk
<1>1. /\ reading[c] = "count" /\ message_count_' = message_count_ + 1
      /\ msg_id' = [msg_id EXCEPT ![c] = message_count_ + 1]
      /\ reading' = [reading EXCEPT ![c] = "test"] /\ printed' = printed
    BY DEF Count
<1>2. /\ reading'[c] = "test" /\ msg_id'[c] = message_count_ + 1
      /\ \A d \in Callback : d # c => reading'[d] = reading[d] /\ msg_id'[d] = msg_id[d]
      /\ PrintType'
    BY <1>1
<1>3. /\ \A n \in 1 .. message_count_ :
             n # message_count_ + 1 /\ n \in 1 .. message_count_'
      /\ \A n \in 1 .. message_count_' :
             n \in 1 .. message_count_ \/ n = message_count_ + 1
      /\ message_count_ + 1 \in 1 .. message_count_'
    BY <1>1
<1>4. HeldOk'
    BY <1>2, <1>3 DEF HeldOk
<1>5. ASSUME NEW i \in 1 .. Len(printed)
      PROVE  /\ printed[i] \in 1 .. message_count_' /\ printed[i] % PrintEvery = 0
             /\ \A d \in Callback : reading'[d] = "test" => printed[i] # msg_id'[d]
  <2>1. /\ printed[i] \in 1 .. message_count_ /\ printed[i] % PrintEvery = 0
        /\ \A d \in Callback : reading[d] = "test" => printed[i] # msg_id[d]
      BY DEF PrintedOk
  <2>2. printed[i] # message_count_ + 1 /\ printed[i] \in 1 .. message_count_'
      BY <1>3, <2>1
  <2> QED
      BY <1>2, <2>1, <2>2
<1>6. PrintedOk' /\ OnceOk'
    BY <1>1, <1>5 DEF PrintedOk, OnceOk
<1>7. ASSUME NEW n \in 1 .. message_count_', n % PrintEvery = 0
      PROVE  \/ \E i \in 1 .. Len(printed) : printed[i] = n
             \/ \E d \in Callback : reading'[d] = "test" /\ msg_id'[d] = n
  <2>1. CASE n = message_count_ + 1
      BY <1>2, <2>1
  <2>2. CASE n \in 1 .. message_count_
    <3>1. \/ \E i \in 1 .. Len(printed) : printed[i] = n
          \/ \E d \in Callback : reading[d] = "test" /\ msg_id[d] = n
        BY <1>7, <2>2 DEF NoneMissing
    <3> QED
        BY <1>1, <1>2, <3>1
  <2> QED
      BY <1>3, <2>1, <2>2
<1>8. NoneMissing'
    BY <1>1, <1>7 DEF NoneMissing
<1> QED
    BY <1>2, <1>4, <1>6, <1>8

LEMMA PrintKeeps ==
    ASSUME PrintInv, NEW c \in Callback, PrintSample(c)
    PROVE  PrintInv'
<1> USE DEF PrintInv, PrintType, PrintOk
<1>1. /\ reading[c] = "test" /\ message_count_' = message_count_
      /\ reading' = [reading EXCEPT ![c] = "take"]
      /\ msg_id' = [msg_id EXCEPT ![c] = 0]
      /\ printed' = IF Due(c) THEN Append(printed, msg_id[c]) ELSE printed
    BY DEF PrintSample
<1>2. /\ \A d \in Callback : d # c => reading'[d] = reading[d] /\ msg_id'[d] = msg_id[d]
      /\ reading'[c] # "test" /\ msg_id[c] \in Nat
      /\ msg_id' \in [Callback -> Nat]
      /\ reading' \in [Callback -> {"idle", "take", "count", "test"}]
    BY <1>1
<1>3. HeldOk'
    BY <1>1, <1>2 DEF HeldOk
<1>4. ASSUME NEW i \in 1 .. Len(printed)
      PROVE  /\ printed[i] \in 1 .. message_count_ /\ printed[i] % PrintEvery = 0
             /\ \A d \in Callback : reading'[d] = "test" => printed[i] # msg_id'[d]
             /\ printed[i] # msg_id[c]
  <2>1. /\ printed[i] \in 1 .. message_count_ /\ printed[i] % PrintEvery = 0
        /\ \A d \in Callback : reading[d] = "test" => printed[i] # msg_id[d]
      BY DEF PrintedOk
  <2> QED
      BY <1>1, <1>2, <2>1
<1>5. ASSUME NEW n \in 1 .. message_count_, n % PrintEvery = 0
      PROVE  \/ \E i \in 1 .. Len(printed) : printed[i] = n
             \/ \E d \in Callback : reading'[d] = "test" /\ msg_id'[d] = n
             \/ n = msg_id[c]
  <2>1. \/ \E i \in 1 .. Len(printed) : printed[i] = n
        \/ \E d \in Callback : reading[d] = "test" /\ msg_id[d] = n
      BY <1>5 DEF NoneMissing
  <2> QED
      BY <1>2, <2>1
<1>6. CASE ~Due(c)
  <2>1. printed' = printed
      BY <1>1, <1>6
  <2>2. PrintedOk' /\ OnceOk'
      BY <1>1, <1>4, <2>1 DEF PrintedOk, OnceOk
  <2>3. NoneMissing'
      BY <1>1, <1>5, <1>6, <2>1 DEF NoneMissing, Due
  <2> QED
      BY <1>1, <1>2, <1>3, <2>1, <2>2, <2>3
<1>7. CASE Due(c)
  <2>1. /\ printed' \in Seq(Nat) /\ Len(printed') = Len(printed) + 1
        /\ \A i \in 1 .. Len(printed) : printed'[i] = printed[i]
        /\ printed'[Len(printed) + 1] = msg_id[c] /\ Len(printed) \in Nat
      BY <1>1, <1>2, <1>7
  <2>2. /\ \A i \in 1 .. Len(printed') : i \in 1 .. Len(printed) \/ i = Len(printed) + 1
        /\ \A i \in 1 .. Len(printed) : i \in 1 .. Len(printed')
        /\ Len(printed) + 1 \in 1 .. Len(printed')
      BY <2>1
  <2>3. /\ msg_id[c] \in 1 .. message_count_ /\ msg_id[c] % PrintEvery = 0
        /\ \A d \in Callback : reading'[d] = "test" => msg_id[c] # msg_id'[d]
      BY <1>1, <1>2, <1>7 DEF HeldOk, Due
  <2>4. ASSUME NEW i \in 1 .. Len(printed')
        PROVE  /\ printed'[i] \in 1 .. message_count_ /\ printed'[i] % PrintEvery = 0
               /\ \A d \in Callback : reading'[d] = "test" => printed'[i] # msg_id'[d]
    <3>1. CASE i \in 1 .. Len(printed)
        BY <1>4, <2>1, <3>1
    <3>2. CASE i = Len(printed) + 1
        BY <2>1, <2>3, <3>2
    <3> QED
        BY <2>2, <3>1, <3>2
  <2>5. PrintedOk'
      BY <1>1, <2>4 DEF PrintedOk
  <2>6. ASSUME NEW i \in 1 .. Len(printed'), NEW j \in 1 .. Len(printed'),
               printed'[i] = printed'[j]
        PROVE  i = j
    <3>1. CASE i \in 1 .. Len(printed) /\ j \in 1 .. Len(printed)
        BY <2>1, <2>6, <3>1 DEF OnceOk
    <3>2. CASE i = Len(printed) + 1 \/ j = Len(printed) + 1
        BY <1>4, <2>1, <2>2, <2>6, <3>2
    <3> QED
        BY <2>2, <3>1, <3>2
  <2>7. OnceOk'
      BY <2>6 DEF OnceOk
  <2>8. ASSUME NEW n \in 1 .. message_count_, n % PrintEvery = 0
        PROVE  \/ \E i \in 1 .. Len(printed') : printed'[i] = n
               \/ \E d \in Callback : reading'[d] = "test" /\ msg_id'[d] = n
      BY <1>5, <2>1, <2>2, <2>8
  <2>9. NoneMissing'
      BY <1>1, <2>8 DEF NoneMissing
  <2> QED
      BY <1>1, <1>2, <1>3, <2>1, <2>5, <2>7, <2>9
<1> QED
    BY <1>6, <1>7
-----------------------------------------------------------------------------
Inv == MatchInv /\ PrintInv

LEMMA OwnerLeaves == MainStep => UNCHANGED <<remote, reported, cb, match, data>>
  BY DEF MainStep, InitStep, Create, CreateEndpoint, AssignEndpoint, ParticipantFails,
         CreateFails, Goto, cleanup, Cleanup, BeginDelete, CleanupStep, CleanupReturn,
         Sleep, RunReturns, Destruct, ReturnZero, ReturnOne, peers

LEMMA StepInv == Inv /\ [Next]_vars => Inv'
<1> SUFFICES ASSUME Inv, [Next]_vars PROVE Inv'
    OBVIOUS
<1> USE DEF Inv
<1>1. ASSUME UNCHANGED data PROVE PrintInv'
    BY <1>1, PrintKept DEF data, PrintInv, PrintType
<1>2. ASSUME UNCHANGED <<ddsVars, match>> PROVE MatchInv'
    BY <1>2, MatchKept DEF ddsVars, peers, MatchInv, MatchType
<1>3. CASE MainStep
  <2>1. UNCHANGED <<remote, reported, cb, match, data>>
      BY <1>3, OwnerLeaves
  <2>2. remote' \in Nat
      BY <2>1 DEF MatchInv, MatchType
  <2> QED
      BY <1>1, <2>1, <2>2, MatchKept
<1>4. CASE sigint_handler \/ Done \/ UNCHANGED vars
    BY <1>1, <1>2, <1>4 DEF sigint_handler, Done, vars
<1>5. CASE Discover /\ UNCHANGED <<process, match, data>>
    BY <1>1, <1>5, MatchKept, PeersAssumption DEF Discover
<1>6. CASE Receive
    BY <1>2, <1>6, PrintKept DEF Receive, PrintInv, PrintType
<1>7. ASSUME NEW c \in Callback, Matched(c) PROVE Inv'
    BY <1>1, <1>7, MatchedKeeps DEF Matched
<1>8. ASSUME NEW c \in Callback, CountChange(c) PROVE Inv'
    BY <1>1, <1>8, CountKeeps DEF CountChange
<1>9. ASSUME NEW c \in Callback, ClampTest(c) \/ ClampStore(c) PROVE Inv'
    BY <1>1, <1>9, ClampKeeps DEF ClampTest, ClampStore
<1>10. ASSUME NEW c \in Callback, DataAvailable(c) \/ Take(c) \/ TakeNothing(c) PROVE Inv'
  <2>1. MatchInv'
      BY <1>2, <1>10 DEF DataAvailable, Take, TakeNothing
  <2>2. /\ UNCHANGED <<message_count_, printed, msg_id>>
        /\ reading' \in [Callback -> {"idle", "take", "count", "test"}]
        /\ \A d \in Callback : reading'[d] = "test" <=> reading[d] = "test"
      BY <1>10 DEF DataAvailable, Take, TakeNothing, PrintInv, PrintType
  <2> QED
      BY <2>1, <2>2, PrintKept
<1>11. ASSUME NEW c \in Callback, Count(c) PROVE Inv'
    BY <1>2, <1>11, CountedKeeps DEF Count
<1>12. ASSUME NEW c \in Callback, PrintSample(c) PROVE Inv'
    BY <1>2, <1>12, PrintKeeps DEF PrintSample
<1> QED
    BY <1>3, <1>4, <1>5, <1>6, <1>7, <1>8, <1>9, <1>10, <1>11, <1>12
       DEF Next, Listener, FastDds

LEMMA Invariance == Spec => []Inv
<1>1. Init => Inv
  <2> SUFFICES ASSUME Init PROVE Inv
      OBVIOUS
  <2>1. /\ cb = [c \in Callback |-> 0] /\ remote = 0 /\ reported = 0 /\ matched_ = 0
        /\ irregular = FALSE /\ clamping = [c \in Callback |-> "count"]
      BY DEF Init, EntitiesInit
  <2>2. MatchInv
    <3>1. irregular \in BOOLEAN
        BY <2>1
    <3> QED
        BY <2>1, <3>1 DEF MatchInv, MatchType, ClampOk, RegularOk
  <2>3. /\ message_count_ = 0 /\ printed = <<>> /\ msg_id = [c \in Callback |-> 0]
        /\ reading = [c \in Callback |-> "idle"]
      BY DEF Init
  <2>4. PrintInv
      BY <2>3 DEF PrintInv, PrintType, PrintOk, HeldOk, PrintedOk, OnceOk, NoneMissing
  <2> QED
      BY <2>2, <2>4 DEF Inv
<1> QED
    BY <1>1, StepInv, PTL DEF Spec

\* The count of publishers is never left negative, whatever callbacks overlap,
\* and exact when each change was reported on its own, for any number of them.
THEOREM CountedOnce == Spec => []PublishersCounted
<1>1. Inv => PublishersCounted
    BY DEF Inv, MatchInv, MatchType, ClampOk, RegularOk, PublishersCounted, NoCallback
<1> QED
    BY <1>1, Invariance, PTL

\* The multiples of PrintEvery up to m are PrintEvery, 2 * PrintEvery, ...
LEMMA Multiples ==
    ASSUME NEW m \in Nat
    PROVE  /\ m \div PrintEvery \in Nat
           /\ \A n \in 1 .. m : n % PrintEvery = 0 =>
                  /\ n \div PrintEvery \in 1 .. m \div PrintEvery
                  /\ n = (n \div PrintEvery) * PrintEvery
           /\ \A k \in 1 .. m \div PrintEvery :
                  /\ k * PrintEvery \in 1 .. m /\ (k * PrintEvery) % PrintEvery = 0
                  /\ (k * PrintEvery) \div PrintEvery = k
  BY SubscriberAssumption

\* Two numbers that number the same things are equal.
LEMMA SameLength ==
    ASSUME NEW n \in Nat, NEW m \in Nat, NEW f \in Bijection(1 .. n, 1 .. m)
    PROVE  n = m
<1>1. ExistsBijection(1 .. n, 1 .. m)
    BY DEF ExistsBijection
<1>2. ExistsBijection(1 .. m, 1 .. m)
    BY Fun_ExistsBijReflexive
<1> QED
    BY <1>1, <1>2, Fun_NatBijSame

\* Exactly every PrintEvery-th valid sample is printed, once, by whichever
\* thread took it, for any number of threads taking samples at once.
THEOREM PrintedOnce == Spec => []PrintsEveryNth
<1>1. Inv => PrintsEveryNth
  <2> SUFFICES ASSUME Inv, \A c \in Callback : reading[c] # "test"
               PROVE  /\ Len(printed) = message_count_ \div PrintEvery
                      /\ \A n \in 1 .. message_count_ : n % PrintEvery = 0 =>
                             \E i \in 1 .. Len(printed) : printed[i] = n
      BY DEF PrintsEveryNth
  <2> DEFINE m == message_count_ \div PrintEvery
             f == [i \in 1 .. Len(printed) |-> printed[i] \div PrintEvery]
  <2>1. \A n \in 1 .. message_count_ : n % PrintEvery = 0 =>
            \E i \in 1 .. Len(printed) : printed[i] = n
      BY DEF Inv, PrintInv, PrintOk, NoneMissing
  <2>2. message_count_ \in Nat /\ printed \in Seq(Nat) /\ Len(printed) \in Nat
      BY DEF Inv, PrintInv, PrintType
  <2>3. \A i \in 1 .. Len(printed) :
            /\ printed[i] \div PrintEvery \in 1 .. m
            /\ printed[i] = (printed[i] \div PrintEvery) * PrintEvery
      BY <2>2, Multiples DEF Inv, PrintInv, PrintOk, PrintedOk
  <2>4. m \in Nat /\ f \in [1 .. Len(printed) -> 1 .. m]
      BY <2>2, <2>3, Multiples
  <2>5. ASSUME NEW i \in 1 .. Len(printed), NEW j \in 1 .. Len(printed), f[i] = f[j]
        PROVE  i = j
    <3>1. printed[i] = printed[j]
        BY <2>3, <2>5
    <3> QED
        BY <3>1 DEF Inv, PrintInv, PrintOk, OnceOk
  <2>6. ASSUME NEW k \in 1 .. m PROVE \E i \in 1 .. Len(printed) : f[i] = k
    <3>1. /\ k * PrintEvery \in 1 .. message_count_ /\ (k * PrintEvery) % PrintEvery = 0
          /\ (k * PrintEvery) \div PrintEvery = k
        BY <2>2, Multiples
    <3>2. PICK i \in 1 .. Len(printed) : printed[i] = k * PrintEvery
        BY <2>1, <3>1
    <3> QED
        BY <3>1, <3>2
  <2> HIDE DEF m, f
  <2>7. f \in Bijection(1 .. Len(printed), 1 .. m)
      BY <2>4, <2>5, <2>6, Fun_IsBij
  <2>8. Len(printed) = m
      BY <2>2, <2>4, <2>7, SameLength
  <2> QED
      BY <2>1, <2>8 DEF m
<1> QED
    BY <1>1, Invariance, PTL

=============================================================================
