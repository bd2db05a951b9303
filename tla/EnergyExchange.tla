--------------------------- MODULE EnergyExchange ---------------------------
(***************************************************************************)
(* What a network of markets promises to the assets that trade in it: it is*)
(* one exchange.  Energy is posted and withdrawn by the assets, and a trade*)
(* takes the same energy from what one asset offers and another bids,      *)
(* however many markets lie between them.                                  *)
(***************************************************************************)
EXTENDS Integers

CONSTANT Assets

VARIABLES
    open,    \* "offer", "bid" -> asset -> energy open
    traded   \* asset -> energy sold minus energy bought

Init ==
    /\ open = [s \in {"offer", "bid"} |-> [a \in Assets |-> 0]]
    /\ traded = [a \in Assets |-> 0]

Post(s, a) ==
    /\ \E energy \in 1..(open'[s][a] - open[s][a]) :
          open' = [open EXCEPT ![s][a] = @ + energy]
    /\ UNCHANGED traded

Withdraw(s, a) ==
    /\ \E energy \in 1..open[s][a] : open' = [open EXCEPT ![s][a] = @ - energy]
    /\ UNCHANGED traded

Trade(seller, buyer) ==
    /\ seller # buyer
    /\ \E energy \in 1..open["offer"][seller] :
          /\ energy <= open["bid"][buyer]
          /\ open' = [open EXCEPT !["offer"][seller] = @ - energy,
                                  !["bid"][buyer] = @ - energy]
          /\ traded' = [traded EXCEPT ![seller] = @ + energy, ![buyer] = @ - energy]

Next ==
    \/ \E s \in {"offer", "bid"}, a \in Assets : Post(s, a) \/ Withdraw(s, a)
    \/ \E seller, buyer \in Assets : Trade(seller, buyer)

Spec == Init /\ [][Next]_<<open, traded>>
=============================================================================
