----------------------------- MODULE ClaimQueue -----------------------------
(***************************************************************************)
(* What Aeron's concurrent buffers promise: producers claim a place in one *)
(* queue, fill it in at their own pace, and the consumer takes the places  *)
(* in the order they were claimed, waiting for each to be filled.  A place *)
(* whose owner died is skipped.  The ring buffers, the array queues and    *)
(* the log buffers are shown to implement this specification.              *)
(***************************************************************************)
EXTENDS Naturals, Sequences

CONSTANTS
  Ids,         \* the messages
  MaxBatch     \* the most places that are claimed at once

VARIABLES
  claims,      \* the places in claim order: the message and its state
  taken,       \* how many places the consumer has passed
  delivered    \* the messages handed to the consumer, in order

vars == <<claims, taken, delivered>>

TypeOK ==
  /\ claims \in Seq([id : Ids, state : {"open", "done", "void"}])
  /\ taken \in 0 .. Len(claims)
  /\ delivered \in Seq(Ids)

Init == claims = <<>> /\ taken = 0 /\ delivered = <<>>

Claim ==
  /\ Len(claims') \in (Len(claims) + 1) .. (Len(claims) + MaxBatch)
  /\ SubSeq(claims', 1, Len(claims)) = claims
  /\ \A i \in (Len(claims) + 1) .. Len(claims') :
       claims'[i] \in [id : Ids, state : {"open"}]
  /\ UNCHANGED <<taken, delivered>>

(* The owner finishes its message, or dies. *)
Close ==
  /\ \E i \in (taken + 1) .. Len(claims), s \in {"done", "void"} :
       /\ claims[i].state = "open"
       /\ claims' = [claims EXCEPT ![i].state = s]
  /\ UNCHANGED <<taken, delivered>>

(* The consumer passes any abandoned places and at most one message. *)
Take ==
  /\ \E n \in (taken + 1) .. Len(claims) :
       /\ \A i \in (taken + 1) .. (n - 1) : claims[i].state = "void"
       /\ claims[n].state # "open"
       /\ taken' = n
       /\ delivered' = IF claims[n].state = "done"
                       THEN Append(delivered, claims[n].id) ELSE delivered
  /\ UNCHANGED claims

Next == Claim \/ Close \/ Take

Spec == Init /\ [][Next]_vars
=============================================================================
