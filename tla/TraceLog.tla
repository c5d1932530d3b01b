------------------------------ MODULE TraceLog ------------------------------
(***************************************************************************)
(* What the tracing runtime promises, with no buffers, threads or locks:   *)
(* a traced program appends events to a log, and the trace file always     *)
(* holds a prefix of that log.  Nothing is written that was not appended,  *)
(* nothing is written twice, and the order of the appends is kept.         *)
(*                                                                         *)
(* "appended" is the order in which CircularBuffer::StartAppend handed out *)
(* addresses, "written" is the content of the trace file once its blocks   *)
(* are decompressed one after the other.                                   *)
(***************************************************************************)
EXTENDS Naturals, Sequences

CONSTANT Event

VARIABLES appended, written

logVars == <<appended, written>>

LogInit ==
    /\ appended = <<>>
    /\ written = <<>>

(* A record function stores one event. *)
LogAppend ==
    /\ \E e \in Event : appended' = Append(appended, e)
    /\ UNCHANGED written

(* A whole block of appended events reaches the file, after the blocks     *)
(* that are there already.                                                 *)
LogWrite ==
    /\ \E n \in Len(written) .. Len(appended) :
          written' = SubSeq(appended, 1, n)
    /\ UNCHANGED appended

LogNext == LogAppend \/ LogWrite

LogSpec == LogInit /\ [][LogNext]_logVars
=============================================================================
