------------------------------- MODULE MCParts --------------------------------
(***************************************************************************)
(* An instance of Parts for TLC.                                           *)
(***************************************************************************)
EXTENDS Parts

(* An editor can leave an id twice or a setting that is not valid.         *)
Left(n, ids) == [seconds |-> [t \in Tables |-> n], sensors |-> ids]
MCHandWritten == {Left(1, << "a", "a" >>), Left(-1, << "b" >>)}

(* The texts of the messages; that of "large" is longer than a frame is    *)
(* allowed to be.                                                          *)
MCLength == [k \in Kinds |-> CASE k = "schema" -> 2
                               [] k = "large" -> MAX_FRAME_SIZE + 1
                               [] OTHER -> 1]
=============================================================================
