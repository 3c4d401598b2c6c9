--------------------------- MODULE MCEmailPipeline ---------------------------
(***************************************************************************)
(* Instances of EmailPipeline for TLC.  The workers are interchangeable.   *)
(***************************************************************************)
EXTENDS EmailPipeline, TLC

WorkerSymmetry == Permutations(Workers)

(* What later steps and the properties of the run with the reset depend on:  *)
(* no step reads dropped, which is a history; and none reads the status that *)
(* the merge task saw after MarkFailed, the charge and the refund after      *)
(* ErrorHandler, or any memory of a task that is about to end.               *)
LiveMem(w) ==
  IF pc[w] = "release" THEN NoMem
  ELSE [mem[w] EXCEPT
          !.seen = IF pc[w] \in {"enqueue", "markFailed"} THEN @ ELSE None,
          !.charged = IF pc[w] \in {"nodes", "errorHandler"} THEN @ ELSE FALSE,
          !.refunded = FALSE]

WhatCounts ==
  << [e \in Emails |-> [row[e] EXCEPT !.dropped = FALSE]], queue, locks, pc, msg,
     [w \in Workers |-> LiveMem(w)], node, event, client, reset, budget >>
=============================================================================
