----------------------------- MODULE FillsLedger -----------------------------
(***************************************************************************)
(* What the fills registry promises, with no queue in sight.               *)
(*                                                                         *)
(* The trades lie one after the other on a line of SOL: trade i covers the *)
(* stretch from solSold[i-1] to solSold[i] and carries the 2Z between      *)
(* tokenSold[i-1] and tokenSold[i].  The fills consumer moves along that   *)
(* line and never jumps, skips or turns back: a request for max lamports   *)
(* moves it by exactly max, or to the end of the line.  The 2Z it has been *)
(* credited with is exact at the end of every trade, and inside a trade it *)
(* is at most the trade's pro-rata share.                                  *)
(*                                                                         *)
(* FillsRegistry implements this specification (FillsRegistry_proofs).     *)
(***************************************************************************)
EXTENDS Integers

CONSTANTS
  SolAmounts,     \* lamports a trade may carry
  TokenAmounts,   \* 2Z units a trade may carry
  DequeueLimits,  \* max_sol_amount arguments of dequeue_fills
  MaxTrades       \* bound on the trades of a behaviour

VARIABLES
  sold,       \* how many trades there have been
  solSold,    \* solSold[i]: lamports sold by the first i trades
  tokenSold,  \* tokenSold[i]: 2Z paid by the first i trades
  solPaid,    \* lamports reported by all FillsDequeued events so far
  tokenPaid   \* 2Z reported by all FillsDequeued events so far

ledgerVars == <<sold, solSold, tokenSold, solPaid, tokenPaid>>

\* The 2Z position token is a fair credit for the SOL position sol.
Settled(sol, token) ==
  \A i \in 1..sold :
    /\ solSold[i] <= sol => tokenSold[i] <= token
    /\ sol <= solSold[i-1] => token <= tokenSold[i-1]
    /\ solSold[i-1] <= sol /\ sol < solSold[i] =>
         (token - tokenSold[i-1]) * (solSold[i] - solSold[i-1])
           <= (tokenSold[i] - tokenSold[i-1]) * (sol - solSold[i-1])

Init ==
  /\ sold = 0
  /\ solSold = [i \in 0..MaxTrades |-> 0]
  /\ tokenSold = [i \in 0..MaxTrades |-> 0]
  /\ solPaid = 0
  /\ tokenPaid = 0

\* buy_sol appends a trade to the line.
Sell(sol, token) ==
  /\ sold < MaxTrades
  /\ sold' = sold + 1
  /\ solSold' = [solSold EXCEPT ![sold + 1] = solSold[sold] + sol]
  /\ tokenSold' = [tokenSold EXCEPT ![sold + 1] = tokenSold[sold] + token]
  /\ UNCHANGED <<solPaid, tokenPaid>>

\* dequeue_fills moves the consumer by max lamports, or to the end of the line.
Pay(max) ==
  /\ solPaid' = IF solPaid + max <= solSold[sold] THEN solPaid + max ELSE solSold[sold]
  /\ tokenPaid <= tokenPaid'
  /\ tokenPaid' <= tokenSold[sold]
  /\ Settled(solPaid', tokenPaid')
  /\ UNCHANGED <<sold, solSold, tokenSold>>

Next ==
  \/ \E sol \in SolAmounts, token \in TokenAmounts : Sell(sol, token)
  \/ \E max \in DequeueLimits : Pay(max)

Spec == Init /\ [][Next]_ledgerVars
=============================================================================
