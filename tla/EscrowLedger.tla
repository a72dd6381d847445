---------------------------- MODULE EscrowLedger ----------------------------
(***************************************************************************)
(* What the payment program promises, with no accounts, clocks, sequence    *)
(* numbers or vaults in sight: every (payer, payee) pair has one amount in  *)
(* escrow.  Only the payer adds to it, each payment takes a positive part   *)
(* of it to the payee against a nonce nobody has spent, and the payer can   *)
(* only ever take all that is left.  AeeronProtocol implements this.        *)
(***************************************************************************)
EXTENDS Integers

CONSTANTS Payers, Payees, Nonces, InitialFunds

VARIABLES
  wallet,  \* lamports of every user
  escrow,  \* lamports held for every pair
  lost,    \* lamports sent where no operation can spend them
  spent    \* nonces that can never pay again

vars == <<wallet, escrow, lost, spent>>

Users == Payers \cup Payees
Pairs == Payers \X Payees

Init ==
  /\ wallet = InitialFunds
  /\ escrow = [c \in Pairs |-> 0]
  /\ lost = [c \in Pairs |-> 0]
  /\ spent = {}

Deposit(c, amount) ==
  /\ amount \in 1..wallet[c[1]]
  /\ wallet' = [wallet EXCEPT ![c[1]] = @ - amount]
  /\ escrow' = [escrow EXCEPT ![c] = @ + amount]
  /\ UNCHANGED <<lost, spent>>

Claim(c, amount, n) ==
  /\ n \notin spent
  /\ amount \in 1..escrow[c]
  /\ escrow' = [escrow EXCEPT ![c] = @ - amount]
  /\ wallet' = [wallet EXCEPT ![c[2]] = @ + amount]
  /\ spent' = spent \cup {n}
  /\ UNCHANGED lost

Refund(c) ==
  /\ wallet' = [wallet EXCEPT ![c[1]] = @ + escrow[c]]
  /\ escrow' = [escrow EXCEPT ![c] = 0]
  /\ UNCHANGED <<lost, spent>>

Pay(payer, payee, amount, n) ==
  /\ n \notin spent
  /\ amount \in 1..wallet[payer]
  /\ wallet' = [u \in Users |->
                  wallet[u] - (IF u = payer THEN amount ELSE 0)
                            + (IF u = payee THEN amount ELSE 0)]
  /\ spent' = spent \cup {n}
  /\ UNCHANGED <<escrow, lost>>

Burn(n) ==
  /\ n \notin spent
  /\ spent' = spent \cup {n}
  /\ UNCHANGED <<wallet, escrow, lost>>

Lose(c, amount) ==
  /\ amount \in 1..wallet[c[1]]
  /\ wallet' = [wallet EXCEPT ![c[1]] = @ - amount]
  /\ lost' = [lost EXCEPT ![c] = @ + amount]
  /\ UNCHANGED <<escrow, spent>>

Next ==
  \/ \E c \in Pairs : \E amount \in 1..wallet[c[1]] :
       Deposit(c, amount) \/ Lose(c, amount)
  \/ \E c \in Pairs, n \in Nonces : \E amount \in 1..escrow[c] :
       Claim(c, amount, n)
  \/ \E c \in Pairs : Refund(c)
  \/ \E p \in Payers, q \in Payees, n \in Nonces : \E amount \in 1..wallet[p] :
       Pay(p, q, amount, n)
  \/ \E n \in Nonces : Burn(n)

Spec == Init /\ [][Next]_vars

=============================================================================
