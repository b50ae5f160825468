-------------------------------- MODULE Relay --------------------------------
(***************************************************************************)
(* What one direction of commelecd promises: every packet it accepts is    *)
(* translated once, and each of its destinations gets those translations   *)
(* in order of acceptance, at most once each.  The relay may stop for good *)
(* at any moment; until it does, every accepted packet reaches every       *)
(* destination.                                                            *)
(***************************************************************************)
EXTENDS Naturals, Sequences

CONSTANTS Inputs,        \* packets the relay may accept
          Destinations,  \* where it sends the translations
          Translate      \* [Inputs -> outputs]

VARIABLES accepted,      \* the packets accepted so far, in order
          delivered,     \* what was sent to each destination, in order
          open           \* FALSE once the relay stopped

vars == <<accepted, delivered, open>>

Init ==
  /\ accepted = <<>>
  /\ delivered = [e \in Destinations |-> <<>>]
  /\ open = TRUE

Accept(d) ==
  /\ open
  /\ accepted' = Append(accepted, d)
  /\ UNCHANGED <<delivered, open>>

Deliver(e) ==
  /\ open
  /\ Len(delivered[e]) < Len(accepted)
  /\ delivered' = [delivered EXCEPT
       ![e] = Append(@, Translate[accepted[Len(@) + 1]])]
  /\ UNCHANGED <<accepted, open>>

Stop ==
  /\ open
  /\ open' = FALSE
  /\ UNCHANGED <<accepted, delivered>>

Next ==
  \/ \E d \in Inputs : Accept(d)
  \/ \E e \in Destinations : Deliver(e)
  \/ Stop

SafeSpec == Init /\ [][Next]_vars

Spec == SafeSpec /\ \A e \in Destinations : WF_vars(Deliver(e))
==============================================================================
