----------------------------- MODULE RecordStream -----------------------------
(***************************************************************************)
(* What a generation reader promises its session: the records the writer   *)
(* completes come out one at a time, in order, each exactly once, until    *)
(* the reader gives up.  Nothing is said of bytes, chunks or offsets.      *)
(***************************************************************************)
EXTENDS Naturals, Sequences

VARIABLES written,    \* the records complete in the generation
          delivered   \* the records handed over and committed

streamVars == <<written, delivered>>

StreamInit == written = <<>> /\ delivered = <<>>

Complete ==
    /\ Len(written') = Len(written) + 1
    /\ SubSeq(written', 1, Len(written)) = written
    /\ UNCHANGED delivered

Deliver ==
    /\ Len(delivered) < Len(written)
    /\ delivered' = Append(delivered, written[Len(delivered) + 1])
    /\ UNCHANGED written

StreamNext == Complete \/ Deliver

StreamSpec == StreamInit /\ [][StreamNext]_streamVars
=============================================================================
