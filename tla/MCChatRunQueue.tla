--------------------------- MODULE MCChatRunQueue ---------------------------
(* Instances of ChatRunQueue for TLC.  The cfg files give the constants. *)
EXTENDS ChatRunQueue, TLC

\* ai-runtime processes are interchangeable: the claim order is over rows.
WorkerSymmetry == Permutations(Workers)
==============================================================================
