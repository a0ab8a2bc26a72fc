---------------------------- MODULE YmoResponses ----------------------------
(***************************************************************************)
(* What an HTTP session promises about its output: every request is        *)
(* answered once, in the order of the requests, the answer optionally      *)
(* preceded by one interim (100 Continue) response, and no response begins *)
(* before the one before it has ended.                                     *)
(*                                                                         *)
(* Responses are ranked: 2n is the final response to the n-th request,     *)
(* 2n - 1 the interim one.                                                 *)
(***************************************************************************)
EXTENDS Naturals

VARIABLES
    rank,  \* rank of the response last begun, 0 before the first
    open   \* has it not ended yet?

InitialState == rank = 0 /\ open = FALSE

\* The rank r may follow: a final response is never skipped.
Follows(r) == r > rank /\ r <= 2 * (rank \div 2) + 2

Begin == /\ ~open
         /\ rank' \in {rank + 1, rank + 2} /\ Follows(rank')
         /\ open' = TRUE

End == open /\ open' = FALSE /\ UNCHANGED rank

\* A response that fits in one send.
Whole == /\ ~open
         /\ rank' \in {rank + 1, rank + 2} /\ Follows(rank')
         /\ UNCHANGED open

Spec == InitialState /\ [][Begin \/ End \/ Whole]_<<rank, open>>
=============================================================================
