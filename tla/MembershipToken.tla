--------------------------- MODULE MembershipToken ---------------------------
(***************************************************************************)
(* The MEAL token: balances, allowances and the total supply.  A failing   *)
(* require() reverts the call, so it is a disabled action here.            *)
(***************************************************************************)
EXTENDS Integers, Sums

CONSTANTS
  Members,      \* wallets of the people who use MealVote
  Contract,     \* address of the deployed VotingSystem
  MintAmounts,  \* amounts the token owner mints
  MaxSupply     \* bound: minting stops here

Accounts == Members \cup {Contract}

ASSUME TokenAssumption ==
  /\ IsFiniteSet(Members)
  /\ Contract \notin Members
  /\ MintAmounts \subseteq Nat
  /\ MaxSupply \in Nat

VARIABLES balanceOf, allowance, totalSupply

tokenVars == <<balanceOf, allowance, totalSupply>>

TokenInit ==
  /\ balanceOf = [a \in Accounts |-> 0]
  /\ allowance = [a \in Accounts |-> [b \in Accounts |-> 0]]
  /\ totalSupply = 0

Mint(to, amount) ==
  /\ totalSupply + amount <= MaxSupply
  /\ totalSupply' = totalSupply + amount
  /\ balanceOf' = [balanceOf EXCEPT ![to] = @ + amount]
  /\ UNCHANGED allowance

\* Mutant: both balances are read before either is written.
MoveTokensStale(from, to, amount) ==
  /\ balanceOf[from] >= amount
  /\ balanceOf' = [balanceOf EXCEPT ![from] = @ - amount, ![to] = balanceOf[to] + amount]
  /\ UNCHANGED totalSupply

\* The internal _transfer: debit first, then credit, so that from = to is harmless.
MoveTokens(from, to, amount) ==
  /\ balanceOf[from] >= amount
  /\ LET debited == [balanceOf EXCEPT ![from] = @ - amount]
     IN  balanceOf' = [debited EXCEPT ![to] = @ + amount]
  /\ UNCHANGED totalSupply

Transfer(from, to, amount) ==
  /\ MoveTokens(from, to, amount)
  /\ UNCHANGED allowance

Approve(owner, spender, amount) ==
  /\ allowance' = [allowance EXCEPT ![owner][spender] = amount]
  /\ UNCHANGED <<balanceOf, totalSupply>>

TransferFrom(spender, from, to, amount) ==
  /\ allowance[from][spender] >= amount
  /\ allowance' = [allowance EXCEPT ![from][spender] = @ - amount]
  /\ MoveTokens(from, to, amount)

TokenTypeOK ==
  /\ balanceOf \in [Accounts -> Nat]
  /\ allowance \in [Accounts -> [Accounts -> Nat]]
  /\ totalSupply \in Nat

(***************************************************************************)
(* Every token minted is held by exactly one account: no transfer, reward, *)
(* withdrawal or self-transfer creates or destroys MEAL                    *)
(* (VotingSystem-v3.sol, MembershipToken._transfer).                       *)
(***************************************************************************)
SupplyConserved == Sum(balanceOf) = totalSupply

=============================================================================
