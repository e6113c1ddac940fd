------------------------------ MODULE ByteStream ------------------------------
(***************************************************************************)
(* What one gRPC stream promises its owner (the class comment of           *)
(* grpc_stream.h): it is opened once, messages go out one by one in the    *)
(* order they were written, messages come in the order the server sent     *)
(* them, an interruption is reported exactly once, a close by the owner is *)
(* not reported at all, and after either nothing more is said: "the stream *)
(* is disposable".  How completions, threads and waiting bring that about  *)
(* is in GrpcStream, which implements this specification.                  *)
(***************************************************************************)
EXTENDS Naturals, Sequences

VARIABLES phase,      \* "new", "open", "ended"
          wire,       \* messages handed to gRPC, as the numbers of the calls of Write
          delivered,  \* messages given to the observer, as the server numbered them
          reports     \* interruptions reported to the observer

vars == <<phase, wire, delivered, reports>>

Init == phase = "new" /\ wire = <<>> /\ delivered = <<>> /\ reports = 0

Open == /\ phase = "new"
        /\ phase' = "open"
        /\ UNCHANGED <<wire, delivered, reports>>

Send == /\ phase = "open"
        /\ wire' = Append(wire, Len(wire) + 1)
        /\ UNCHANGED <<phase, delivered, reports>>

Deliver == /\ phase = "open"
           /\ delivered' = Append(delivered, Len(delivered) + 1)
           /\ UNCHANGED <<phase, wire, reports>>

\* A close by the owner is not reported, an interruption is, once.
End == /\ phase = "open"
       /\ phase' = "ended"
       /\ reports' \in {0, 1}
       /\ UNCHANGED <<wire, delivered>>

Next == Open \/ Send \/ Deliver \/ End

Spec == Init /\ [][Next]_vars
===============================================================================
