-------------------------- MODULE TransactionClient --------------------------
(***************************************************************************)
(* The command line tools of one payer and the transaction executor they   *)
(* share (cli-common/src/transaction_executor.rs): buy_sol and get_price   *)
(* of the user CLI, dequeue_fills of the integration CLI, and of the admin *)
(* CLI the halt switch, the deny list and the minting of mock 2Z.          *)
(*                                                                         *)
(* A command is a call: it looks up what it needs, takes the latest block  *)
(* hash, signs, sends, waits for the confirmation and reads the return     *)
(* data; any of these RPC calls may fail, and the node may have done what  *)
(* it was asked all the same.  A signature is a function of the payer, the *)
(* instruction and the block hash, so a transaction is the record of these *)
(* and the cluster executes it at most once.  Commands run one after the   *)
(* other or side by side, and a failed one may be repeated.                *)
(*                                                                         *)
(* The program's part is the SOL of its fills, bought and dequeued, with   *)
(* which the 2Z goes as FillsLedger says, and two switches that stop       *)
(* purchases: is_halted, and the payer's entry in the deny list.  Setting  *)
(* a switch that is set, or clearing one that is clear, is refused.        *)
(***************************************************************************)
EXTENDS Integers, FiniteSetsExt

CONSTANTS
  Calls,          \* the commands of a behaviour
  RETRY_COUNT,    \* attempts to read a transaction, 5 in constant.rs
  HashValidity,   \* how many block hashes, the newest included, are accepted
  Attestations,   \* answers of the swap oracle, numbered
  SolQuantity,    \* the SOL of a trade
  DequeueLimits,  \* limits a dequeue may be given
  MintAmounts,    \* amounts of 2Z to mint
  Switches,       \* is_halted, and whether the payer is denied
  OtherTrades     \* bound on the trades of other payers

ASSUME ClientAssumption ==
  /\ RETRY_COUNT \in Nat \ {0} /\ HashValidity \in Nat \ {0}
  /\ SolQuantity \in Nat \ {0} /\ OtherTrades \in Nat
  /\ DequeueLimits \subseteq Nat \ {0} /\ Attestations \subseteq Nat \ {0}
  /\ MintAmounts \subseteq Nat \ {0}

VARIABLES
  call,       \* call[c]: the command, where it stands, and how it ended
  blockhash,  \* the newest block hash
  account,    \* the payer's associated token account exists
  switches,   \* the switches that are set
  submitted,  \* transactions that a node has accepted
  receipts    \* what the executed transactions of the program returned

clientVars == <<call, blockhash, account, switches, submitted, receipts>>
clusterVars == <<blockhash, account, switches, submitted, receipts>>

-----------------------------------------------------------------------------
(* Transactions and receipts *)

Stages == {"idle", "lookup", "rate", "registry", "blockhash", "send", "confirm", "read", "answered", "failed"}
Kinds == {"create", "buy", "price", "dequeue", "mint", "set", "clear"}
Payments == {"buy", "dequeue", "mint"}   \* the kinds that move SOL or 2Z

OtherPayer == 0   \* stands for the data of another payer's instruction

\* An instruction with its data (an attestation, an amount or a switch) and its block hash.
Tx(kind, arg, hash) == [kind |-> kind, arg |-> arg, hash |-> hash]
NoTx == Tx("none", 0, 0)

\* What an executed transaction returns: whether it succeeded, and the SOL of a payment.
Receipt(tx, ok, sol) == [tx |-> tx, ok |-> ok, sol |-> sol]
NoReceipt == Receipt(NoTx, FALSE, 0)

Executed == {r.tx : r \in receipts}
Succeeded(tx) == \E r \in receipts : r.tx = tx /\ r.ok
ReceiptOf(tx) == CHOOSE r \in receipts : r.tx = tx

Valid(tx) == blockhash - tx.hash < HashValidity

Sol(kind) == MapThenSumSet(LAMBDA r : r.sol, {r \in receipts : r.tx.kind = kind})
Pending == Sol("buy") - Sol("dequeue")

Ended(c) == call[c].stage \in {"answered", "failed"}

-----------------------------------------------------------------------------
(* The cluster *)

\* Whether the program accepts the instruction in its present state.
Accepts(tx) ==
  CASE tx.kind = "create"  -> ~account
    [] tx.kind = "buy"     -> switches = {}
    [] tx.kind = "dequeue" -> Pending > 0
    [] tx.kind = "set"     -> tx.arg \notin switches
    [] tx.kind = "clear"   -> tx.arg \in switches
    [] OTHER               -> TRUE

\* The SOL that the instruction moves now.
Moves(tx) ==
  CASE tx.kind = "buy"     -> SolQuantity
    [] tx.kind = "dequeue" -> IF tx.arg <= Pending THEN tx.arg ELSE Pending
    [] OTHER               -> 0

\* What the instruction does besides.
Effect(tx) ==
  /\ account' = (account \/ tx.kind = "create")
  /\ switches' = CASE tx.kind = "set"   -> switches \cup {tx.arg}
                   [] tx.kind = "clear" -> switches \ {tx.arg}
                   [] OTHER             -> switches

\* Mutant of PreflightPasses: the preflight is skipped.
PreflightSkipped(tx) == TRUE

\* A node has simulated the transaction on its confirmed state and accepts it.
PreflightPasses(tx) == Valid(tx) /\ tx \notin Executed /\ Accepts(tx)

\* A submitted transaction is executed; the program may refuse it for its own reasons.
Execute(tx) ==
  /\ tx \in submitted \ Executed
  /\ Valid(tx)
  /\ \/ /\ Accepts(tx)
        /\ receipts' = receipts \cup {Receipt(tx, TRUE, Moves(tx))}
        /\ Effect(tx)
     \/ /\ receipts' = receipts \cup {Receipt(tx, FALSE, 0)}
        /\ UNCHANGED <<account, switches>>
  /\ UNCHANGED <<call, blockhash, submitted>>

\* Another payer buys SOL.
OtherTrade ==
  /\ \E n \in 1..OtherTrades :
       /\ Tx("buy", OtherPayer, n) \notin Executed
       /\ receipts' = receipts \cup {Receipt(Tx("buy", OtherPayer, n), TRUE, SolQuantity)}
  /\ UNCHANGED <<call, blockhash, account, switches, submitted>>

\* Time passes.  Hashes nobody has used are not told apart, so they are skipped.
NextHash ==
  /\ \E c \in Calls : call[c].tx.hash > 0 /\ Valid(call[c].tx)
  /\ blockhash' = blockhash + 1
  /\ UNCHANGED <<call, account, switches, submitted, receipts>>

-----------------------------------------------------------------------------
(* The client *)

ClientInit ==
  /\ call = [c \in Calls |-> [stage |-> "idle", goal |-> "none", tx |-> NoTx, tries |-> 0, error |-> "none",
                             answer |-> NoReceipt, after |-> {}]]
  /\ blockhash = 1
  /\ account \in BOOLEAN
  /\ switches = {}
  /\ submitted = {}
  /\ receipts = {}

\* What a step of a call does to it.
Go(c, stage) == call' = [call EXCEPT ![c].stage = stage]
Prepare(c, stage, kind, arg) ==
  call' = [call EXCEPT ![c].stage = stage, ![c].tx = Tx(kind, arg, 0)]
Fail(c, error) == call' = [call EXCEPT ![c].stage = "failed", ![c].error = error]
Answer(c, r) == call' = [call EXCEPT ![c].stage = "answered", ![c].answer = r]

\* A command is entered: after holds the calls that have ended by then.
Start(c, goal, stage, kind, arg) ==
  /\ call[c].stage = "idle"
  /\ call' = [call EXCEPT ![c].stage = stage, ![c].goal = goal, ![c].tx = Tx(kind, arg, 0),
                          ![c].after = {d \in Calls : Ended(d)}]
  /\ UNCHANGED clusterVars

\* buy_sol and mint with a token account given, and without.
BuySol(c) == \/ Start(c, "buy", "rate", "buy", 0)
             \/ Start(c, "buy", "lookup", "create", 0)
Mint(c) == \E amount \in MintAmounts :
             \/ Start(c, "mint", "blockhash", "mint", amount)
             \/ Start(c, "mint", "lookup", "create", 0)
GetPrice(c) == Start(c, "price", "rate", "price", 0)
DequeueFills(c) == \E limit \in DequeueLimits : Start(c, "dequeue", "registry", "dequeue", limit)

\* toggle_system_state: a pause sets the switch, an activation clears it.
Toggle(c, kind) == \E s \in Switches : Start(c, kind, "blockhash", kind, s)

\* A pause or add_to_deny_list; an activation or remove_from_deny_list.
SetSwitch(c) == Toggle(c, "set")
ClearSwitch(c) == Toggle(c, "clear")

\* The token account is there.
Proceed(c) ==
  IF call[c].goal = "buy" THEN Prepare(c, "rate", "buy", 0)
  ELSE \E amount \in MintAmounts : Prepare(c, "blockhash", "mint", amount)

\* Mutant of LookUpAccount: any answer counts as an existing account.
LookUpAccountTrusting(c) ==
  /\ call[c].stage = "lookup"
  /\ Proceed(c)
  /\ UNCHANGED clusterVars

\* find_or_initialize_associated_token_account: any error counts as a missing account.
LookUpAccount(c) ==
  /\ call[c].stage = "lookup"
  /\ \/ account /\ Proceed(c)
     \/ Go(c, "blockhash")
  /\ UNCHANGED clusterVars

FetchOraclePrice(c) ==
  /\ call[c].stage = "rate"
  /\ \E rate \in Attestations :
       Prepare(c, IF call[c].goal = "buy" THEN "registry" ELSE "blockhash", call[c].goal, rate)
  /\ UNCHANGED clusterVars

GetFillsRegistryAddress(c) ==
  /\ call[c].stage = "registry"
  /\ Go(c, "blockhash")
  /\ UNCHANGED clusterVars

GetLatestBlockhash(c) ==
  /\ call[c].stage = "blockhash"
  /\ call' = [call EXCEPT ![c].stage = "send", ![c].tx.hash = blockhash]
  /\ UNCHANGED clusterVars

\* A request before the submission fails: the command ends with that error.
RequestFails(c) ==
  /\ call[c].stage \in {"rate", "registry", "blockhash"}
  /\ Fail(c, "unsent")
  /\ UNCHANGED clusterVars

\* send_and_confirm: the node takes the transaction, though its answer may be lost.
Submit(c) ==
  /\ call[c].stage = "send"
  /\ PreflightPasses(call[c].tx)
  /\ submitted' = submitted \cup {call[c].tx}
  /\ Go(c, "confirm") \/ Fail(c, "doubt")
  /\ UNCHANGED <<blockhash, account, switches, receipts>>

\* The transaction does not reach the node; the client cannot tell.
SendFails(c) ==
  /\ call[c].stage = "send"
  /\ Fail(c, "doubt")
  /\ UNCHANGED clusterVars

\* The preflight fails, as already processed, expired or refused by the program for any reason.
PreflightFails(c) ==
  /\ call[c].stage = "send"
  /\ Fail(c, "refused")
  /\ UNCHANGED clusterVars

\* The transaction is confirmed: a new token account leads on to the payment.
Confirmed(c) ==
  /\ call[c].stage = "confirm"
  /\ Succeeded(call[c].tx)
  /\ CASE call[c].tx.kind = "create" -> Proceed(c)
       [] call[c].tx.kind \in {"price", "dequeue"} -> Go(c, "read")
       [] OTHER -> Answer(c, ReceiptOf(call[c].tx))
  /\ UNCHANGED clusterVars

\* The transaction is confirmed to have failed.
Rejected(c) ==
  /\ call[c].stage = "confirm"
  /\ call[c].tx \in Executed /\ ~Succeeded(call[c].tx)
  /\ Fail(c, "refused")
  /\ UNCHANGED clusterVars

\* Mutant of Expired: without a status the client goes on asking.
ExpiredWithStatus(c) ==
  /\ call[c].stage = "confirm"
  /\ call[c].tx \in Executed /\ ~Valid(call[c].tx)
  /\ Fail(c, "doubt")
  /\ UNCHANGED clusterVars

\* The block hash has expired and there is no status.
Expired(c) ==
  /\ call[c].stage = "confirm"
  /\ call[c].tx \notin Executed /\ ~Valid(call[c].tx)
  /\ Fail(c, "doubt")
  /\ UNCHANGED clusterVars

\* Mutant of StatusFails: the instruction is sent again, with a new block hash.
StatusFailsResending(c) ==
  /\ call[c].stage = "confirm"
  /\ Go(c, "blockhash")
  /\ UNCHANGED clusterVars

\* Asking for the status fails.
StatusFails(c) ==
  /\ call[c].stage = "confirm"
  /\ Fail(c, "doubt")
  /\ UNCHANGED clusterVars

\* Mutant of ReadReturnData: the transaction is looked up by the program, not by its signature.
ReadAnother(c) ==
  /\ call[c].stage = "read"
  /\ \E r \in receipts : r.tx.kind = call[c].tx.kind /\ Answer(c, r)
  /\ UNCHANGED clusterVars

\* get_transaction and extract_return_data.
ReadReturnData(c) ==
  /\ call[c].stage = "read"
  /\ Answer(c, ReceiptOf(call[c].tx))
  /\ UNCHANGED clusterVars

\* get_transaction fails: another attempt, up to RETRY_COUNT of them.
GetTransactionFails(c) ==
  /\ call[c].stage = "read"
  /\ IF call[c].tries + 1 < RETRY_COUNT
     THEN call' = [call EXCEPT ![c].tries = @ + 1]
     ELSE Fail(c, "unread")
  /\ UNCHANGED clusterVars

\* The answer has no return data of the program: there is no further attempt.
NoReturnData(c) ==
  /\ call[c].stage = "read"
  /\ Fail(c, "unread")
  /\ UNCHANGED clusterVars

-----------------------------------------------------------------------------
(* Specification *)

Command(c) == BuySol(c) \/ Mint(c) \/ GetPrice(c) \/ DequeueFills(c) \/ SetSwitch(c) \/ ClearSwitch(c)

\* What a call does next, and that answers to a request or a confirmation end.
CallStep(c) ==
  \/ LookUpAccount(c) \/ FetchOraclePrice(c) \/ GetFillsRegistryAddress(c)
  \/ GetLatestBlockhash(c) \/ RequestFails(c) \/ Submit(c) \/ SendFails(c) \/ PreflightFails(c)
  \/ Confirmed(c) \/ Rejected(c) \/ Expired(c)
  \/ ReadReturnData(c) \/ GetTransactionFails(c) \/ NoReturnData(c)

ClientNext ==
  \/ \E c \in Calls : Command(c) \/ CallStep(c) \/ StatusFails(c)
  \/ \E tx \in submitted : Execute(tx)
  \/ OtherTrade
  \/ NextHash

ClientSpec == ClientInit /\ [][ClientNext]_clientVars

\* Every request ends, well or badly, and block hashes go on; no transaction need be executed.
ClientFairSpec ==
  /\ ClientSpec
  /\ \A c \in Calls : WF_clientVars(CallStep(c))
  /\ WF_clientVars(NextHash)

-----------------------------------------------------------------------------
(* Properties *)

(***************************************************************************)
(* What a command reports is what its own transaction returned, and that   *)
(* transaction succeeded (send_instruction_with_return_data reads the      *)
(* signature it has sent, however often it has to ask).                    *)
(***************************************************************************)
AnswersAreReceipts ==
  \A c \in Calls :
    call[c].stage = "answered" =>
      call[c].answer \in receipts /\ call[c].answer.tx = call[c].tx /\ call[c].answer.ok

\* A transaction of this payer.
Own(tx) == ~(tx.kind = "buy" /\ tx.arg = OtherPayer)

\* A command that reports its transaction, may still do so, or ended in an error that leaves it open.
Accountable(c) ==
  call[c].stage \in {"confirm", "read", "answered"} \/ call[c].error \in {"doubt", "unread"}

(***************************************************************************)
(* No trade, dequeue or mint of the payer goes unnoticed: its command      *)
(* reports it, is still under way, or ended in an error that leaves it     *)
(* open.  An error before the submission, and a refusal, mean that the     *)
(* command has traded nothing that no other command accounts for.          *)
(***************************************************************************)
PaymentsAreKnownOrInDoubt ==
  \A r \in receipts :
    r.ok /\ r.tx.kind \in Payments /\ Own(r.tx) =>
      \E c \in Calls : call[c].tx = r.tx /\ Accountable(c)

(***************************************************************************)
(* Commands run one after the other never report the same transaction, so  *)
(* their answers may be added up: a repetition with an unchanged block     *)
(* hash has the same signature, and the preflight refuses it.              *)
(***************************************************************************)
SerialAnswersDiffer ==
  \A c, d \in Calls :
    /\ call[c].stage = "answered" /\ call[d].stage = "answered"
    /\ c \in call[d].after
    => call[c].tx # call[d].tx

(***************************************************************************)
(* A payment with the payer's own token account is prepared only when that *)
(* account exists, although any failure to look it up counts as a missing  *)
(* account and leads to a creation (token_utils.rs).                       *)
(***************************************************************************)
PaymentHasItsAccount ==
  [][\A c \in Calls :
       (call[c].tx.kind = "create" /\ call'[c].tx.kind \in Payments) => account]_clientVars

\* A command that may have set the switch of c's command the other way since c was entered.
Reverses(d, c) ==
  /\ call[d].tx.kind \in {"set", "clear"} \ {call[c].tx.kind}
  /\ call[d].tx.arg = call[c].tx.arg
  /\ Accountable(d)
  /\ ~(call[d].stage = "answered" /\ d \in call[c].after)

(***************************************************************************)
(* A reported pause, activation, denial or removal stands, unless a        *)
(* command to the contrary has been reported since, is under way, or ended *)
(* in an error that leaves it open: a transaction that its command has     *)
(* given up may still arrive after a later command's, and a repeated one   *)
(* must not be taken for its first copy.                                   *)
(***************************************************************************)
ReportedSwitchStands ==
  \A c \in Calls :
    call[c].stage = "answered" /\ call[c].tx.kind \in {"set", "clear"} =>
      \/ (call[c].tx.arg \in switches) = (call[c].tx.kind = "set")
      \/ \E d \in Calls : Reverses(d, c)

\* Every command comes to an end, also when its transaction is never executed.
CommandsEnd == \A c \in Calls : (call[c].stage # "idle") ~> Ended(c)
=============================================================================
