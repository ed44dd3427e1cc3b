------------------------------ MODULE UtxoLedger ------------------------------
(***************************************************************************)
(* What the coin database of the top chain promises: the unspent coins of  *)
(* the best block, changed by whole blocks only, and a durable state that  *)
(* a crash goes back to.  A flush makes the present state durable, at once *)
(* and as a whole.  CoinsView is shown to implement this.                  *)
(***************************************************************************)
CONSTANTS Blocks, Genesis, Parent,  \* the tree of blocks
          Applied(_, _),            \* the coins after a block, given those before it
          Removed(_, _),            \* the coins before a block, given those after it
          NoCoins

VARIABLES best, coins, durable

vars == <<best, coins, durable>>

Init == best = Genesis /\ coins = NoCoins /\ durable = [best |-> best, coins |-> coins]

Connect(b) == /\ b \in Blocks \ {Genesis} /\ Parent[b] = best
              /\ best' = b /\ coins' = Applied(b, coins)
              /\ UNCHANGED durable

Disconnect == /\ best # Genesis
              /\ best' = Parent[best] /\ coins' = Removed(best, coins)
              /\ UNCHANGED durable

Flush == /\ durable' = [best |-> best, coins |-> coins]
         /\ UNCHANGED <<best, coins>>

Crash == /\ best' = durable.best /\ coins' = durable.coins
         /\ UNCHANGED durable

(* The ledger is built again from the blocks. *)
Rebuild == /\ best' = Genesis /\ coins' = NoCoins
           /\ durable' = [best |-> Genesis, coins |-> NoCoins]

Next == (\E b \in Blocks : Connect(b)) \/ Disconnect \/ Flush \/ Crash \/ Rebuild

Spec == Init /\ [][Next]_vars
===============================================================================
