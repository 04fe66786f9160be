-------------------------- MODULE LegacySubscriber --------------------------
(***************************************************************************)
(* The stand-alone program src/dds/JointStateSubscriber.cpp: main creates  *)
(* the subscriber, sleeps until SIGINT, and deletes it; Fast-DDS threads   *)
(* run SubListener, for matches and for data.  The reader keeps one sample *)
(* (KEEP_LAST, depth 1); what is printed of a sample is left out, only     *)
(* which samples are printed is kept.                                      *)
(***************************************************************************)
EXTENDS DdsEntities

CONSTANTS PrintEvery, \* 100 in the code
          MaxSamples, \* bound: samples that reach the reader
          MaxCount    \* bound: no report once matched_ is beyond it

ASSUME SubscriberAssumption == /\ PrintEvery \in Nat \ {0}
                               /\ MaxSamples \in Nat /\ MaxCount \in Nat

VARIABLES running, exit_code,
          matched_, clamping,   \* the counter; per thread, position in the callback
          irregular,            \* history: a merged report or overlapping callbacks
          arrived, cache,       \* samples so far; the reader's cache
          reading, msg_id,      \* per thread: on_data_available and its msg_id
          message_count_, printed

process == <<running, exit_code>>
match   == <<matched_, clamping, irregular>>
data    == <<arrived, cache, reading, msg_id, message_count_, printed>>
vars    == <<ddsVars, process, match, data>>

Init == /\ EntitiesInit("participant")
        /\ running = TRUE /\ exit_code = 0
        /\ matched_ = 0 /\ irregular = FALSE
        /\ clamping = [c \in Callback |-> "count"]
        /\ arrived = 0 /\ cache = "empty" /\ message_count_ = 0 /\ printed = <<>>
        /\ reading = [c \in Callback |-> "idle"] /\ msg_id = [c \in Callback |-> 0]
-----------------------------------------------------------------------------
(* main, run(), cleanup() *)

CleanupOrder == <<"endpoint", "topic", "group", "participant">>

Quiet == NoCallback /\ \A c \in Callback : reading[c] = "idle"

cleanup == Cleanup(CleanupOrder, Quiet)

\* while (running) sleep_for(10 ms)
Sleep == running /\ Goto("ready", "ready")

\* Mutant: the loop does not look at running.
RunReturns_bug == FALSE /\ Destruct({"ready"})

\* run() returns and main deletes the subscriber.
RunReturns == ~running /\ Destruct({"ready"})

ReturnZero == Goto("destroyed", "exited") /\ UNCHANGED exit_code

\* main returns 1 without deleting the subscriber.
ReturnOne == Goto("failed", "exited") /\ exit_code' = 1

MainStep == /\ \/ (InitStep \/ cleanup \/ Sleep \/ RunReturns) /\ UNCHANGED exit_code
               \/ ReturnZero \/ ReturnOne
            /\ UNCHANGED <<running, match, data>>

sigint_handler == /\ running /\ pc # "exited" /\ running' = FALSE
                  /\ UNCHANGED <<ddsVars, exit_code, match, data>>
-----------------------------------------------------------------------------
(* SubListener::on_subscription_matched *)

\* A thread runs one callback at a time.
Matched(c) == /\ matched_ <= MaxCount /\ reading[c] = "idle" /\ Report(c)
              /\ irregular' = \/ irregular \/ ~NoCallback
                              \/ remote - reported \notin {-1, 1}
              /\ UNCHANGED <<process, matched_, clamping, data>>

\* Mutant: an unmatched publisher is not counted down.
CountChange_bug(c) ==
    /\ cb[c] # 0 /\ clamping[c] = "count"
    /\ clamping' = [clamping EXCEPT ![c] = "test"]
    /\ matched_' = IF cb[c] = 1 THEN matched_ + 1 ELSE matched_
    /\ UNCHANGED <<ddsVars, process, irregular, data>>

\* Changes other than one up or one down are ignored.
CountChange(c) ==
    /\ cb[c] # 0 /\ clamping[c] = "count"
    /\ clamping' = [clamping EXCEPT ![c] = "test"]
    /\ matched_' = IF cb[c] \in {-1, 1} THEN matched_ + cb[c] ELSE matched_
    /\ UNCHANGED <<ddsVars, process, irregular, data>>

\* if (matched_ < 0) matched_ = 0: a test and a store, each atomic.
ClampTest(c) ==
    /\ clamping[c] = "test"
    /\ IF matched_ < 0
       THEN clamping' = [clamping EXCEPT ![c] = "store"] /\ UNCHANGED ddsVars
       ELSE clamping' = [clamping EXCEPT ![c] = "count"] /\ Return(c)
    /\ UNCHANGED <<process, matched_, irregular, data>>

ClampStore(c) ==
    /\ clamping[c] = "store" /\ clamping' = [clamping EXCEPT ![c] = "count"]
    /\ matched_' = 0
    /\ Return(c)
    /\ UNCHANGED <<process, irregular, data>>
-----------------------------------------------------------------------------
(* SubListener::on_data_available *)

\* A sample reaches the reader and replaces one that was not taken; a sample
\* without valid data tells that a writer or an instance has gone.
Receive == /\ live["endpoint"] /\ arrived < MaxSamples
           /\ arrived' = arrived + 1
           /\ cache' \in {"valid", "invalid"}
           /\ UNCHANGED <<ddsVars, process, match, reading, msg_id, message_count_, printed>>

DataAvailable(c) ==
    /\ live["endpoint"] /\ pc # "deleting" /\ cache # "empty"
    /\ reading[c] = "idle" /\ cb[c] = 0
    /\ reading' = [reading EXCEPT ![c] = "take"]
    /\ UNCHANGED <<ddsVars, process, match, arrived, cache, msg_id, message_count_, printed>>

\* take_next_sample; what has no valid data is passed over.
Take(c) ==
    /\ reading[c] = "take" /\ cache # "empty" /\ cache' = "empty"
    /\ reading' = IF cache = "valid" THEN [reading EXCEPT ![c] = "count"] ELSE reading
    /\ UNCHANGED <<ddsVars, process, match, arrived, msg_id, message_count_, printed>>

\* ++message_count_, which is atomic.
Count(c) ==
    /\ reading[c] = "count" /\ reading' = [reading EXCEPT ![c] = "test"]
    /\ message_count_' = message_count_ + 1
    /\ msg_id' = [msg_id EXCEPT ![c] = message_count_ + 1]
    /\ UNCHANGED <<ddsVars, process, match, arrived, cache, printed>>

TakeNothing(c) ==
    /\ reading[c] = "take" /\ cache = "empty"
    /\ reading' = [reading EXCEPT ![c] = "idle"]
    /\ UNCHANGED <<ddsVars, process, match, arrived, cache, msg_id, message_count_, printed>>

\* Mutant: the counter is read again instead of the id of this sample.
Due_bug(c) == message_count_ % PrintEvery = 0

Due(c) == msg_id[c] % PrintEvery = 0

PrintSample(c) ==
    /\ reading[c] = "test"
    /\ printed' = IF Due(c) THEN Append(printed, msg_id[c]) ELSE printed
    /\ reading' = [reading EXCEPT ![c] = "take"]
    /\ msg_id' = [msg_id EXCEPT ![c] = 0]
    /\ UNCHANGED <<ddsVars, process, match, arrived, cache, message_count_>>
-----------------------------------------------------------------------------
Listener == \E c \in Callback : \/ CountChange(c) \/ ClampTest(c) \/ ClampStore(c)
                                \/ Take(c) \/ TakeNothing(c) \/ Count(c)
                                \/ PrintSample(c)

FastDds == \/ Discover /\ UNCHANGED <<process, match, data>>
           \/ Receive
           \/ \E c \in Callback : Matched(c) \/ DataAvailable(c)

Done == pc = "exited" /\ UNCHANGED vars

Next == MainStep \/ sigint_handler \/ Listener \/ FastDds \/ Done

\* main is scheduled and callbacks return.
Fairness == WF_vars(MainStep) /\ WF_vars(Listener)

Spec == Init /\ [][Next]_vars /\ Fairness
-----------------------------------------------------------------------------
(* Properties *)

\* Between callbacks the count of publishers is never negative, and it is
\* exact as long as Fast-DDS reported every change on its own and one after
\* the other.  Merged reports are dropped by the filter, and the clamp of one
\* callback can overwrite the count of another, so no more can be said.
PublishersCounted ==
    NoCallback => /\ matched_ >= 0
                  /\ ~irregular /\ remote = reported => matched_ = remote

\* Every PrintEvery-th valid sample is printed, once, whichever threads take
\* the samples between.
PrintsEveryNth ==
    (\A c \in Callback : reading[c] # "test") =>
        /\ Len(printed) = message_count_ \div PrintEvery
        /\ \A n \in 1 .. message_count_ : n % PrintEvery = 0 =>
               \E i \in 1 .. Len(printed) : printed[i] = n

\* SIGINT ends the program, also when it arrives during init() or while
\* callbacks are running, and nothing is left in Fast-DDS then, although the
\* failing path of main never deletes the subscriber.
SigintEnds ==
    ~running ~> pc = "exited" /\ Quiet /\ \A e \in Entity : ~live[e]

=============================================================================
