---------------------------- MODULE FrameChannel ----------------------------
(***************************************************************************)
(* What the framing protocol promises.  On a stream nobody damages, frames *)
(* come out as they went in, in order, each once, and all of them.  Damage *)
(* may stop the delivery, and a restart of the receiver may skip frames,   *)
(* but neither alters, repeats or reorders any.                            *)
(***************************************************************************)
EXTENDS Naturals, Sequences

VARIABLES
    sent, received,
    damaged,      \* the stream has been damaged: delivery is not promised
    restarted     \* the receiver has started over: frames may be missing

vars == << sent, received, damaged, restarted >>

\* r is s with some elements left out: an increasing choice of positions.
IsSubsequence(r, s) ==
    \E at \in [DOMAIN r -> DOMAIN s] :
        /\ \A i \in DOMAIN r : r[i] = s[at[i]]
        /\ \A i, j \in DOMAIN r : i < j => at[i] < at[j]

Init == sent = << >> /\ received = << >> /\ ~ damaged /\ ~ restarted

Send ==
    /\ Len(sent') = Len(sent) + 1
    /\ sent = SubSeq(sent', 1, Len(sent))
    /\ UNCHANGED << received, damaged, restarted >>

Receive ==
    /\ ~ restarted
    /\ Len(received) < Len(sent)
    /\ received' = Append(received, sent[Len(received) + 1])
    /\ UNCHANGED << sent, damaged, restarted >>

ReceiveLater ==
    /\ restarted
    /\ \E i \in DOMAIN sent : received' = Append(received, sent[i])
    /\ IsSubsequence(received', sent)
    /\ UNCHANGED << sent, damaged, restarted >>

Fault ==
    /\ damaged'
    /\ restarted => restarted'
    /\ UNCHANGED << sent, received >>

Next == Send \/ Receive \/ ReceiveLater \/ Fault
Spec == Init /\ [][Next]_vars /\ WF_vars(Receive /\ ~ damaged)
=============================================================================
