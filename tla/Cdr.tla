-------------------------------- MODULE Cdr --------------------------------
(***************************************************************************)
(* Serialisation of sensor_msgs::msg::JointState by the code generated in  *)
(* generated/idl, and the way a sample takes: the writer asks for the      *)
(* size, serialises into a payload, the payload reaches the reader whole   *)
(* or cut, and is deserialised into an object that is used again for every *)
(* sample.                                                                 *)
(*                                                                         *)
(* Bytes are cells: a primitive of w bytes with value v is w cells         *)
(* <<v, i, w>>.  A string is represented by its length, its characters and *)
(* the final NUL by cells of its own; a double by an integer.  Fast-CDR is *)
(* external: alignment, at most 8 bytes in XCDRv1 and 4 in XCDRv2, counted *)
(* after the encapsulation; a 4-byte length before strings and sequences;  *)
(* in XCDRv2 the byte length of a sequence of strings before it; an        *)
(* exception when the buffer ends within a member.  The members of a type  *)
(* are read in a loop that also stops, without an exception, when nothing  *)
(* is left of the buffer (Cdr::deserialize_type, for both plain encodings  *)
(* the generated code asks for).  A member whose reading fails keeps its   *)
(* value here; Fast-CDR may leave it resized, but the object is then only  *)
(* good for being read into again.                                         *)
(***************************************************************************)
EXTENDS Integers, Sequences, SequencesExt

CONSTANTS Sample,   \* the samples to be sent
          Slack     \* bound: payload sizes tried around the computed one

\* The values a sample can have; a length is not bounded here.
JointState == [sec : Int, nanosec : Nat, frame_id : Nat, name : Seq(Nat),
               position : Seq(Int), velocity : Seq(Int), effort : Seq(Int)]

ASSUME SampleAssumption == Sample \subseteq JointState /\ Slack \in Nat

VARIABLES phase, xcdr2,
          sample, size,   \* what is sent, and its computed size
          payload,        \* [max_size, length, cells] as serialised
          cut,            \* how many of the cells reached the reader
          obj, accepted   \* the reader's object; deserialize's result

cdrVars == <<phase, xcdr2, sample, size, payload, cut, obj, accepted>>

Encapsulation == 4

Fresh == [sec |-> 0, nanosec |-> 0, frame_id |-> 0, name |-> <<>>,
          position |-> <<>>, velocity |-> <<>>, effort |-> <<>>]

Pad(n, a) == (a - (n % a)) % a

DoubleAlign == IF xcdr2 THEN 4 ELSE 8
-----------------------------------------------------------------------------
(* CdrSizeCalculator: the position n after a member *)

SizeOf(n, w, a) == n + Pad(n, a) + w

size_string(n, s) == SizeOf(n, 4, 4) + s + 1

size_doubles(n, v) == IF v = <<>> THEN SizeOf(n, 4, 4)
                      ELSE SizeOf(SizeOf(n, 4, 4), 8 * Len(v), DoubleAlign)

size_strings(n, v) ==
    FoldLeft(size_string, SizeOf(IF xcdr2 THEN SizeOf(n, 4, 4) ELSE n, 4, 4), v)

size_time(n, d) == SizeOf(SizeOf(n, 4, 4), 4, 4)

size_header(n, d) == size_string(size_time(n, d), d.frame_id)

\* Mutant: the efforts are left out.
size_joint_state_bug(n, d) ==
    size_doubles(size_doubles(size_strings(size_header(n, d), d.name),
                              d.position), d.velocity)

size_joint_state(n, d) ==
    size_doubles(size_doubles(size_doubles(size_strings(size_header(n, d), d.name),
                                           d.position), d.velocity), d.effort)

calculate_serialized_size(d) == size_joint_state(0, d) + Encapsulation
-----------------------------------------------------------------------------
(* Cdr, writing: s is what has been written *)

Put(s, v, w, a) == s \o [i \in 1 .. Pad(Len(s), a) |-> <<0, 0, 0>>]
                     \o [i \in 1 .. w |-> <<v, i, w>>]

put_string(s, n) == Put(Put(s, n + 1, 4, 4), n, n + 1, 1)

put_doubles(s, v) == LET PutDouble(r, x) == Put(r, x, 8, DoubleAlign)
                     IN  FoldLeft(PutDouble, Put(s, Len(v), 4, 4), v)

\* The length before the sequence is filled in after its elements.
put_strings(s, v) ==
    LET r    == IF xcdr2 THEN Put(s, 0, 4, 4) ELSE s
        done == FoldLeft(put_string, Put(r, Len(v), 4, 4), v)
    IN  IF xcdr2 THEN Put(s, Len(done) - Len(r), 4, 4)
                      \o SubSeq(done, Len(r) + 1, Len(done))
        ELSE done

put_time(s, d) == Put(Put(s, d.sec, 4, 4), d.nanosec, 4, 4)

put_header(s, d) == put_string(put_time(s, d), d.frame_id)

put_joint_state(s, d) ==
    put_doubles(put_doubles(put_doubles(put_strings(put_header(s, d), d.name),
                                        d.position), d.velocity), d.effort)
-----------------------------------------------------------------------------
(* Cdr, reading: r = [buf, pos, ok, v], v being what was read last *)

\* What is read is a primitive only where one of that width was written.
Get(r, w, a) ==
    LET p == r.pos + Pad(r.pos, a)
    IN  IF /\ r.ok /\ p + w <= Len(r.buf)
           /\ \A i \in 1 .. w : r.buf[p + i] = <<r.buf[p + 1][1], i, w>>
        THEN [r EXCEPT !.pos = p + w, !.v = r.buf[p + 1][1]]
        ELSE [r EXCEPT !.ok = FALSE]

get_string(r) == LET n == Get(r, 4, 4) IN IF n.ok THEN Get(n, n.v, 1) ELSE n

\* A sequence: its length, then as many elements.  The result carries them.
GetSeq(r, Element(_)) ==
    LET n == Get(r, 4, 4)
        More(q, i) == LET e == Element(q)
                      IN  [e EXCEPT !.list = Append(@, e.v)]
    IN  IF n.ok THEN FoldLeft(More, [n EXCEPT !.list = <<>>], [i \in 1 .. n.v |-> i])
        ELSE n

get_doubles(r) == LET GetDouble(q) == Get(q, 8, DoubleAlign)
                  IN  GetSeq(r, GetDouble)

get_strings(r) == GetSeq(IF xcdr2 THEN Get(r, 4, 4) ELSE r, get_string)

Assign(r, field, v) == IF r.ok THEN [r EXCEPT !.d[field] = v] ELSE r

\* One round of deserialize_type: r is the reader before the member, s after
\* reading its value v.  At the end of the buffer the loop stops, and so do
\* those of the enclosing types.
ReadMember(r, s, field, v) ==
    IF r.ok /\ r.pos = Len(r.buf) THEN r ELSE Assign(s, field, v)

get_time(r) == LET s == Get(r, 4, 4)
                   q == ReadMember(r, s, "sec", s.v)
                   n == Get(q, 4, 4)
               IN  ReadMember(q, n, "nanosec", n.v)

\* Mutant: an empty string leaves the old one in place.
get_header_bug(r) ==
    LET q == get_time(r)
        f == get_string(q)
    IN  ReadMember(q, f, "frame_id", IF f.v = 0 THEN r.d.frame_id ELSE f.v)

get_header(r) == LET q == get_time(r)
                     f == get_string(q)
                 IN  ReadMember(q, f, "frame_id", f.v)

get_list(r, s, field) == ReadMember(r, s, field, s.list)

get_joint_state(r) ==
    LET h == get_header(r)
        n == get_list(h, get_strings(h), "name")
        p == get_list(n, get_doubles(n), "position")
        v == get_list(p, get_doubles(p), "velocity")
    IN  get_list(v, get_doubles(v), "effort")
-----------------------------------------------------------------------------
(* JointStatePubSubType *)

NoPayload == [max_size |-> 0, length |-> 0, cells |-> <<>>]

CdrInit == /\ phase = "idle" /\ xcdr2 \in BOOLEAN
        /\ sample = Fresh /\ size = 0 /\ payload = NoPayload /\ cut = 0
        /\ obj = Fresh /\ accepted = FALSE

\* The writer asks for the size of a sample.
Calculate == /\ phase = "idle" /\ phase' = "sized"
             /\ sample' \in Sample
             /\ size' = calculate_serialized_size(sample')
             /\ UNCHANGED <<xcdr2, payload, cut, obj, accepted>>

\* serialize() into a payload of max_size bytes; false when it does not fit.
serialize == /\ phase = "sized"
             /\ \E m \in size - Slack .. size + Slack :
                LET cells == put_joint_state(<<>>, sample)
                    fits  == Len(cells) + Encapsulation <= m
                IN  /\ payload' = [max_size |-> m,
                                   length |-> IF fits THEN Len(cells) + Encapsulation ELSE 0,
                                   cells |-> IF fits THEN cells ELSE <<>>]
                    /\ phase' = IF fits THEN "sent" ELSE "refused"
             /\ UNCHANGED <<xcdr2, sample, size, cut, obj, accepted>>

\* Mutant: an exception does not make the result false.
deserialize_bug(n) ==
    LET r == get_joint_state([buf |-> SubSeq(payload.cells, 1, n), pos |-> 0,
                              ok |-> TRUE, v |-> 0, list |-> <<>>, d |-> obj])
    IN  /\ obj' = r.d /\ accepted' = TRUE

\* deserialize() of the first n bytes after the encapsulation.
deserialize(n) ==
    LET r == get_joint_state([buf |-> SubSeq(payload.cells, 1, n), pos |-> 0,
                              ok |-> TRUE, v |-> 0, list |-> <<>>, d |-> obj])
    IN  /\ obj' = r.d /\ accepted' = r.ok

\* The payload arrives whole, or cut short.
Receive == /\ phase = "sent" /\ phase' = "whole"
           /\ cut' = Len(payload.cells) /\ deserialize(cut')
           /\ UNCHANGED <<xcdr2, sample, size, payload>>

ReceiveCut == /\ phase = "sent" /\ phase' = "cut"
              /\ cut' \in 0 .. Len(payload.cells) - 1 /\ deserialize(cut')
              /\ UNCHANGED <<xcdr2, sample, size, payload>>

\* The writer goes on with its next sample; the reader keeps its object.
Again == /\ phase \in {"whole", "cut", "refused"} /\ phase' = "idle"
         /\ sample' = Fresh /\ size' = 0 /\ payload' = NoPayload
         /\ cut' = 0 /\ accepted' = FALSE
         /\ UNCHANGED <<xcdr2, obj>>

CdrNext == Calculate \/ serialize \/ Receive \/ ReceiveCut \/ Again

CdrSpec == CdrInit /\ [][CdrNext]_cdrVars
-----------------------------------------------------------------------------
(* Properties *)

\* The computed size is exact: the sample is serialised whenever the payload
\* has that size, is refused by any smaller one, and fills it to the byte.
SizeExact == /\ phase \in {"sent", "whole", "cut"} => /\ payload.length = size
                                                      /\ payload.max_size >= size
             /\ phase = "refused" => payload.max_size < size

\* A payload that arrives whole gives the reader the sample that was sent,
\* whatever its object held before: shorter and empty sequences, empty
\* strings and the remains of a rejected payload included.
RoundTrip == phase = "whole" => accepted /\ obj = sample

\* Where each member of a sample ends in its payload.
MemberEnd(d) ==
    LET h == size_header(0, d)
        n == size_strings(h, d.name)
        p == size_doubles(n, d.position)
        v == size_doubles(p, d.velocity)
    IN  [sec |-> SizeOf(0, 4, 4), nanosec |-> size_time(0, d), frame_id |-> h,
         name |-> n, position |-> p, velocity |-> v,
         effort |-> size_doubles(v, d.effort)]

\* deserialize() of a payload that was cut succeeds exactly when the cut falls
\* between two members.  The members before the cut are then the sample's and
\* those after it keep what the object held: no member is made of two.
CutBetweenMembers ==
    [][phase = "sent" /\ phase' = "cut" =>
         LET end == MemberEnd(sample)
         IN  /\ accepted' <=> cut' \in {0} \cup {end[m] : m \in DOMAIN end}
             /\ accepted' => \A m \in DOMAIN end :
                    obj'[m] = IF end[m] <= cut' THEN sample[m] ELSE obj[m]]_cdrVars

=============================================================================
