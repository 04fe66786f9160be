------------------------------- MODULE CdrMC -------------------------------
(***************************************************************************)
(* Instance of Cdr for TLC: samples in which the lengths of the strings    *)
(* shift the doubles through all alignments and in which the sequences are *)
(* empty or not, independently.                                            *)
(***************************************************************************)
EXTENDS Cdr

CONSTANT FrameLengths \* bound: lengths of frame_id

MCSample == [sec : {1}, nanosec : {2}, frame_id : FrameLengths,
             name : {<<>>, <<0, 2>>}, position : {<<>>, <<7, 8>>},
             velocity : {<<>>, <<9>>}, effort : {<<>>, <<3>>}]

=============================================================================
