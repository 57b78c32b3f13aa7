--------------------------- MODULE OrderedChannel ---------------------------
(***************************************************************************)
(* What one direction of an IPCChannel promises to the code on both ends.  *)
(* Envelopes are accepted in the order SendAsync was called and handed to  *)
(* the receiver's callback in that order, each at most once.  As long as   *)
(* the channel is lossless the deliveries are exactly a prefix of what was *)
(* accepted.  Once the byte stream has been damaged (see IPCChannel) an    *)
(* envelope may be skipped, or replaced by any number of meaningless ones, *)
(* but the channel never goes back: envelopes are not reordered or         *)
(* repeated.                                                               *)
(***************************************************************************)
EXTENDS Naturals, Sequences

CONSTANTS Msgs,     \* the envelopes that can be sent
          Garbage   \* the envelope decoded from damaged bytes

VARIABLES sent,       \* envelopes accepted by SendAsync, in call order
          pos,        \* how many of them the channel is done with
          delivered,  \* envelopes handed to onMessage_, in order
          lossless    \* no damage has been noticed so far

vars == <<sent, pos, delivered, lossless>>

Init == /\ sent = <<>>
        /\ pos = 0
        /\ delivered = <<>>
        /\ lossless = TRUE

Send(m) == /\ sent' = Append(sent, m)
           /\ UNCHANGED <<pos, delivered, lossless>>

Deliver == /\ pos < Len(sent)
           /\ pos' = pos + 1
           /\ delivered' = Append(delivered, sent[pos + 1])
           /\ UNCHANGED <<sent, lossless>>

\* What came before stays, and all that follows it is meaningless.
MeaninglessAdded ==
    /\ Len(delivered') >= Len(delivered)
    /\ \A i \in 1..Len(delivered') :
           delivered'[i] = IF i <= Len(delivered) THEN delivered[i] ELSE Garbage

Damage == /\ pos < Len(sent)
          /\ pos' = pos + 1
          /\ lossless' = FALSE
          /\ MeaninglessAdded
          /\ UNCHANGED sent

Next == (\E m \in Msgs : Send(m)) \/ Deliver \/ Damage

Spec == Init /\ [][Next]_vars
=============================================================================
