------------------------ MODULE MCConversationTurn ------------------------
(* Instances of ConversationTurn for TLC: the members of each of its sets  *)
(* are interchangeable.                                                    *)
EXTENDS ConversationTurn, TLC

Symmetry == UNION {Permutations(S) : S \in {Kicks, Workers, Clients, Asks, Tasks}}

(* What the mutual exclusion of runs depends on: no guard reads the history*)
(* or what is only recorded.                                               *)
ClaimView == <<row, [c \in Clients |-> [req[c] EXCEPT !.stint = 0]], queue,
               [w \in Workers |->
                   [run[w] EXCEPT !.batch = [NoBatch EXCEPT
                       !.said = run[w].batch.said \/ run[w].batch.results # {}]]],
               flag # 0, job, reported, made, ran, mishaps>>
=============================================================================
