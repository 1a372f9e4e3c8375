---------------------------- MODULE MCPayloadSystem ----------------------------
(* Instances of PayloadSystem for TLC. *)
EXTENDS PayloadSystem

Cmd(o, a) == [op |-> o, arg |-> a]

\* A command of each kind of effect; experiment 3 does not fit the field.
MCCommands == {Cmd("RUN", 3), Cmd("ABORT", 0), Cmd("UNKNOWN", 0), Cmd("SHORT", 0),
               Cmd("DCE_ACK", 0)}

Scene(t, n, f, s) == [traffic |-> t, frames |-> n, faults |-> f, seconds |-> s]

MCScenarios == {Scene("commands", 2, 1, 0), Scene("commands", 1, 0, 2),
                Scene("bulk", 4, 0, 0), Scene("bulk", 2, 1, 0),
                Scene("upload", 0, 1, 0), Scene("none", 0, 1, 2)}

UploadOnly == {Scene("upload", 0, 0, 0)}

Chunk(t, q, n) == [tid |-> t, seq |-> q, total |-> n, big |-> FALSE]

\* A transfer of two chunks, one of which only the second is ever sent, and one whose
\* numbering is inconsistent: its chunks disagree on the total, which is too large in
\* one and no more than seq in the other.
MCChunks == {Chunk(1, 0, 2), Chunk(1, 1, 2), Chunk(2, 1, 2), Chunk(3, 0, 3), Chunk(3, 1, 1)}
=============================================================================
