--------------------------- MODULE MCTranscriptScan ---------------------------
(* An instance of TranscriptScan for TLC: an opencode root with session 1,  *)
(* then a root of files with the other sessions.                            *)
EXTENDS TranscriptScan

MCRootOf == [s \in Sessions |-> IF s = 1 THEN 1 ELSE 2]

(* A file may be written before it is read and while it is; an export is    *)
(* one step, so one write of session 1 will do.                             *)
MCMaxWrites ==
    {[s \in Sessions |-> IF s = 1 THEN 0 ELSE 2], [s \in Sessions |-> IF s = 1 THEN 1 ELSE 0]}
=============================================================================
