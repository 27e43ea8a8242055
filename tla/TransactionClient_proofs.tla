----------------------- MODULE TransactionClient_proofs -----------------------
(***************************************************************************)
(* What the commands report and what their errors mean, for any number of  *)
(* commands, retries, block hashes and trades of others.                   *)
(*                                                                         *)
(* None of the properties is inductive.  ClientInv follows a transaction   *)
(* from its submission to its receipt: a submitted transaction that has    *)
(* not failed has a command that accounts for it, a confirmed one has a    *)
(* receipt, receipts belong to one transaction each, and a switch that is  *)
(* not where a successful command has put it was moved by another one that *)
(* still answers for it.                                                   *)
(*                                                                         *)
(* A command's step concerns the command alone, so it is summed up once,   *)
(* in CommandMoves, and the invariants follow from the summary.            *)
(***************************************************************************)
EXTENDS TransactionClient, TLAPS

-----------------------------------------------------------------------------
(* The inductive invariant *)

Goals == {"none", "buy", "price", "dequeue", "mint", "set", "clear"}
Errors == {"none", "unsent", "refused", "doubt", "unread"}

\* A toggle or a deny list entry names its switch.
Names(kind, arg) == kind \in {"set", "clear"} => arg \in Switches

Transactions ==
  {tx \in [kind : Kinds \cup {"none"}, arg : Nat \cup Switches, hash : Nat] : Names(tx.kind, tx.arg)}

Commands ==
  [stage : Stages, goal : Goals, tx : Transactions, tries : 0..RETRY_COUNT - 1, error : Errors,
   answer : receipts \cup {NoReceipt}, after : SUBSET Calls]

ClientTypeOK ==
  /\ call \in [Calls -> Commands]
  /\ blockhash \in Nat \ {0} /\ account \in BOOLEAN /\ switches \subseteq Switches
  /\ submitted \subseteq Transactions
  /\ \A r \in receipts : r.tx \in Transactions /\ r.ok \in BOOLEAN

Failed(tx) == \E r \in receipts : r.tx = tx /\ ~r.ok

\* Once its transaction has been sent, and the node has taken it.
Sent(c) == call[c].stage \in {"confirm", "read", "answered"}

\* What holds of a command at each stage.
CallInv(c) ==
  /\ call[c].stage = "idle" => call[c].tx.kind = "none"
  /\ call[c].stage = "rate" => call[c].tx.kind # "create" /\ call[c].goal \in {"buy", "price"}
  /\ call[c].stage \in {"lookup", "registry", "blockhash", "send"} \/ Sent(c) => Own(call[c].tx)
  /\ call[c].stage \in {"confirm", "read"} => call[c].tx \in submitted
  /\ call[c].stage \in {"read", "answered"} => Succeeded(call[c].tx)
  /\ call[c].stage = "answered" =>
       call[c].answer \in receipts /\ call[c].answer.tx = call[c].tx /\ call[c].answer.ok
  /\ call[c].error # "none" => call[c].stage = "failed"

CallsInv == \A c \in Calls : CallInv(c)

\* A command that follows another one: the other has ended, and its answer is of another transaction.
After(c, d) ==
  /\ Ended(c)
  /\ call[c].stage = "answered" /\ Sent(d) => call[c].tx # call[d].tx

AfterInv == \A d \in Calls : \A c \in call[d].after : After(c, d)

\* One receipt for each transaction, and for no transaction of the payer that was not submitted.
ReceiptsInv ==
  /\ \A r, s \in receipts : r.tx = s.tx => r = s
  /\ \A r \in receipts : r.tx \in submitted \/ ~Own(r.tx)
  /\ \A r \in receipts : r.tx.kind = "create" /\ r.ok => account

AccountedFor(tx) == \E c \in Calls : call[c].tx = tx /\ Accountable(c)

\* A creation is forgotten when it has led on to its payment.
SubmittedInv ==
  \A tx \in submitted : tx.kind # "create" /\ ~Failed(tx) => AccountedFor(tx)

\* The switch is where the command has put it.
Stands(c) == (call[c].tx.arg \in switches) = (call[c].tx.kind = "set")

\* It was moved since by a command to the contrary that succeeded.
Reversed(c) == \E d \in Calls : Reverses(d, c) /\ Succeeded(call[d].tx)

SwitchInv ==
  \A c \in Calls :
    Sent(c) /\ call[c].tx.kind \in {"set", "clear"} /\ Succeeded(call[c].tx)
      => Stands(c) \/ Reversed(c)

ClientInv ==
  /\ ClientTypeOK /\ CallsInv /\ AfterInv /\ ReceiptsInv /\ SubmittedInv /\ SwitchInv

-----------------------------------------------------------------------------
(* What a step writes into the record of a command *)

\* The fields that follow a command through its steps, but for those a step names.
SameTx(c) == call'[c].tx = call[c].tx
SameGoal(c) == call'[c].goal = call[c].goal
SameError(c) == call'[c].error = call[c].error
SameAnswer(c) == call'[c].answer = call[c].answer
SameAfter(c) == call'[c].after = call[c].after

Alone(c) == \A d \in Calls \ {c} : call'[d] = call[d]

CallTypeOK == call \in [Calls -> Commands]

LEMMA GoWrites ==
  ASSUME CallTypeOK, NEW c \in Calls, NEW stage \in Stages, Go(c, stage)
  PROVE  /\ call' \in [Calls -> Commands] /\ Alone(c)
         /\ call'[c].stage = stage
         /\ SameTx(c) /\ SameGoal(c) /\ SameError(c) /\ SameAnswer(c) /\ SameAfter(c)
  BY DEF CallTypeOK, Commands, Go, Alone, SameTx, SameGoal, SameError, SameAnswer, SameAfter

\* One record is replaced.
LEMMA RecordReplaced ==
  ASSUME CallTypeOK, NEW c \in Calls, NEW new \in Commands, call' = [call EXCEPT ![c] = new]
  PROVE  call' \in [Calls -> Commands] /\ Alone(c) /\ call'[c] = new
  BY DEF CallTypeOK, Alone

LEMMA FailWrites ==
  ASSUME CallTypeOK, NEW c \in Calls, NEW error \in Errors, Fail(c, error)
  PROVE  /\ call' \in [Calls -> Commands] /\ Alone(c)
         /\ call'[c].stage = "failed" /\ call'[c].error = error
         /\ SameTx(c) /\ SameGoal(c) /\ SameAnswer(c) /\ SameAfter(c)
<1> DEFINE new == [call[c] EXCEPT !.stage = "failed", !.error = error]
<1>1. call[c] \in Commands
  BY DEF CallTypeOK
<1>2. call' = [call EXCEPT ![c] = new]
  BY DEF Fail, CallTypeOK
<1>3. /\ new \in Commands /\ new.stage = "failed" /\ new.error = error
      /\ new.tx = call[c].tx /\ new.goal = call[c].goal
      /\ new.answer = call[c].answer /\ new.after = call[c].after
  BY <1>1 DEF Commands, Stages
<1> HIDE DEF new
<1>4. QED
  BY <1>2, <1>3, RecordReplaced DEF SameTx, SameGoal, SameAnswer, SameAfter

LEMMA AnswerWrites ==
  ASSUME CallTypeOK, NEW c \in Calls, NEW r \in receipts, Answer(c, r)
  PROVE  /\ call' \in [Calls -> Commands] /\ Alone(c)
         /\ call'[c].stage = "answered" /\ call'[c].answer = r
         /\ SameTx(c) /\ SameGoal(c) /\ SameError(c) /\ SameAfter(c)
<1> DEFINE new == [call[c] EXCEPT !.stage = "answered", !.answer = r]
<1>1. call[c] \in Commands
  BY DEF CallTypeOK
<1>2. call' = [call EXCEPT ![c] = new]
  BY DEF Answer, CallTypeOK
<1>3. /\ new \in Commands /\ new.stage = "answered" /\ new.answer = r
      /\ new.tx = call[c].tx /\ new.goal = call[c].goal
      /\ new.error = call[c].error /\ new.after = call[c].after
  BY <1>1 DEF Commands, Stages
<1> HIDE DEF new
<1>4. QED
  BY <1>2, <1>3, RecordReplaced DEF SameTx, SameGoal, SameError, SameAfter

LEMMA PrepareWrites ==
  ASSUME CallTypeOK, NEW c \in Calls, NEW stage \in Stages, NEW kind \in Kinds,
         NEW arg \in Nat \cup Switches, Names(kind, arg), Prepare(c, stage, kind, arg)
  PROVE  /\ call' \in [Calls -> Commands] /\ Alone(c)
         /\ call'[c].stage = stage /\ call'[c].tx = Tx(kind, arg, 0)
         /\ SameGoal(c) /\ SameError(c) /\ SameAnswer(c) /\ SameAfter(c)
<1> DEFINE tx  == Tx(kind, arg, 0)
           new == [call[c] EXCEPT !.stage = stage, !.tx = tx]
<1>1. call[c] \in Commands
  BY DEF CallTypeOK
<1>2. tx \in Transactions
  BY DEF Tx, Transactions
<1>3. call' = [call EXCEPT ![c] = new]
  BY DEF Prepare, CallTypeOK
<1> HIDE DEF tx
<1>4. /\ new \in Commands /\ new.stage = stage /\ new.tx = tx
      /\ new.goal = call[c].goal /\ new.error = call[c].error
      /\ new.answer = call[c].answer /\ new.after = call[c].after
  BY <1>1, <1>2 DEF Commands
<1> HIDE DEF new
<1>5. QED
  BY <1>3, <1>4, RecordReplaced DEF SameGoal, SameError, SameAnswer, SameAfter, tx

LEMMA StartWrites ==
  ASSUME CallTypeOK, NEW c \in Calls, NEW goal \in Goals, NEW stage \in Stages, NEW kind \in Kinds,
         NEW arg \in Nat \cup Switches, Names(kind, arg), Start(c, goal, stage, kind, arg)
  PROVE  /\ call' \in [Calls -> Commands] /\ Alone(c)
         /\ call[c].stage = "idle"
         /\ call'[c].stage = stage /\ call'[c].goal = goal /\ call'[c].tx = Tx(kind, arg, 0)
         /\ call'[c].after = {d \in Calls : Ended(d)}
         /\ SameError(c) /\ SameAnswer(c)
         /\ UNCHANGED clusterVars
<1> DEFINE tx    == Tx(kind, arg, 0)
           ended == {d \in Calls : Ended(d)}
           new   == [call[c] EXCEPT !.stage = stage, !.goal = goal, !.tx = tx, !.after = ended]
<1>1. call[c] \in Commands
  BY DEF CallTypeOK
<1>2. tx \in Transactions /\ ended \in SUBSET Calls
  BY DEF Tx, Transactions
<1>3. /\ call' = [call EXCEPT ![c].stage = stage, ![c].goal = goal, ![c].tx = tx,
                              ![c].after = ended]
      /\ call[c].stage = "idle" /\ UNCHANGED clusterVars
  BY DEF Start
<1> HIDE DEF tx, ended
<1>4. call' = [call EXCEPT ![c] = new]
  BY <1>3 DEF CallTypeOK
<1>5. /\ new \in Commands /\ new.stage = stage /\ new.goal = goal /\ new.tx = tx
      /\ new.after = ended /\ new.error = call[c].error /\ new.answer = call[c].answer
  BY <1>1, <1>2 DEF Commands
<1> HIDE DEF new
<1>6. QED
  BY <1>3, <1>4, <1>5, RecordReplaced DEF SameError, SameAnswer, tx, ended

LEMMA HashWrites ==
  ASSUME CallTypeOK, NEW c \in Calls, NEW hash \in Nat,
         call' = [call EXCEPT ![c].stage = "send", ![c].tx.hash = hash]
  PROVE  /\ call' \in [Calls -> Commands] /\ Alone(c)
         /\ call'[c].stage = "send"
         /\ call'[c].tx.kind = call[c].tx.kind /\ call'[c].tx.arg = call[c].tx.arg
         /\ SameGoal(c) /\ SameError(c) /\ SameAnswer(c) /\ SameAfter(c)
<1> DEFINE tx  == [call[c].tx EXCEPT !.hash = hash]
           new == [call[c] EXCEPT !.stage = "send", !.tx = tx]
<1>1. call[c] \in Commands /\ call[c].tx \in Transactions
  BY DEF CallTypeOK, Commands
<1>2. tx \in Transactions /\ tx.kind = call[c].tx.kind /\ tx.arg = call[c].tx.arg
  BY <1>1 DEF Transactions
<1>3. call' = [call EXCEPT ![c] = new]
  BY <1>1 DEF CallTypeOK, Commands
<1> HIDE DEF tx
<1>4. /\ new \in Commands /\ new.stage = "send" /\ new.tx = tx
      /\ new.goal = call[c].goal /\ new.error = call[c].error
      /\ new.answer = call[c].answer /\ new.after = call[c].after
  BY <1>1, <1>2 DEF Commands, Stages
<1> HIDE DEF new
<1>5. QED
  BY <1>2, <1>3, <1>4, RecordReplaced DEF SameGoal, SameError, SameAnswer, SameAfter

LEMMA TriesWrites ==
  ASSUME CallTypeOK, NEW c \in Calls, NEW n \in 0..RETRY_COUNT - 1,
         call' = [call EXCEPT ![c].tries = n]
  PROVE  /\ call' \in [Calls -> Commands] /\ Alone(c)
         /\ call'[c].stage = call[c].stage
         /\ SameTx(c) /\ SameGoal(c) /\ SameError(c) /\ SameAnswer(c) /\ SameAfter(c)
  BY DEF CallTypeOK, Commands, Alone, SameTx, SameGoal, SameError, SameAnswer, SameAfter

-----------------------------------------------------------------------------
(* What a step of a command may do *)

(***************************************************************************)
(* Only its own record changes, and a command that has ended stays as it   *)
(* is.  What it submits it accounts for; it stops accounting only for a    *)
(* creation and for a transaction that has failed.  The commands before    *)
(* it are fixed when it is entered, it has sent a transaction only if that *)
(* had not been executed before, and it gives up a creation only when the  *)
(* account exists.                                                         *)
(***************************************************************************)
CommandMoves(c) ==
  /\ call' \in [Calls -> Commands] /\ Alone(c)
  /\ ~Ended(c)
  /\ CallInv(c)'
  /\ UNCHANGED <<blockhash, account, switches, receipts>>
  /\ submitted \subseteq submitted'
  /\ \A tx \in submitted' \ submitted : tx = call[c].tx /\ SameTx(c) /\ Accountable(c)'
  /\ call[c].tx.kind # "create" /\ Accountable(c) =>
       Failed(call[c].tx) \/ (SameTx(c) /\ Accountable(c)')
  /\ SameAfter(c) \/ (call'[c].after = {d \in Calls : Ended(d)} /\ ~Sent(c)' /\ ~Sent(c))
  /\ Sent(c)' => SameTx(c) /\ (Sent(c) \/ call[c].tx \notin Executed)
  /\ call[c].tx.kind = "create" => call'[c].tx.kind = "create" \/ account

LEMMA InvOfCall ==
  ASSUME ClientInv, NEW c \in Calls
  PROVE  /\ CallTypeOK /\ CallInv(c) /\ ReceiptsInv
         /\ call[c] \in Commands
         /\ call[c].tx \in Transactions /\ call[c].goal \in Goals /\ call[c].stage \in Stages
         /\ call[c].error \in Errors /\ call[c].tries \in 0..RETRY_COUNT - 1
  BY DEF ClientInv, ClientTypeOK, CallTypeOK, CallsInv, Commands

\* Every failure: the error that is kept is in doubt unless nothing may have been done.
LEMMA FailMoves ==
  ASSUME ClientInv, NEW c \in Calls, NEW error \in Errors \ {"none"}, Fail(c, error),
         UNCHANGED clusterVars, ~Ended(c),
         Accountable(c) => Failed(call[c].tx) \/ error \in {"doubt", "unread"}
  PROVE  CommandMoves(c)
<1>1. CallTypeOK /\ CallInv(c)
  BY InvOfCall
<1>2. /\ call' \in [Calls -> Commands] /\ Alone(c)
      /\ call'[c].stage = "failed" /\ call'[c].error = error
      /\ SameTx(c) /\ SameAfter(c)
  BY <1>1, FailWrites
<1>3. CallInv(c)' /\ ~Sent(c)'
  BY <1>2 DEF CallInv, Sent
<1>4. Accountable(c) => Failed(call[c].tx) \/ Accountable(c)'
  BY <1>2 DEF Accountable
<1>5. UNCHANGED <<blockhash, account, switches, receipts>> /\ submitted' = submitted
  BY DEF clusterVars
<1>6. QED
  BY <1>2, <1>3, <1>4, <1>5 DEF CommandMoves, SameTx

\* A payment is prepared, or prepared anew with an attestation.
LEMMA PrepareMoves ==
  ASSUME ClientInv, NEW c \in Calls, NEW stage \in {"rate", "registry", "blockhash"},
         NEW kind \in Kinds, NEW arg \in Nat \cup Switches, Names(kind, arg),
         Prepare(c, stage, kind, arg), UNCHANGED clusterVars,
         call[c].stage \in {"lookup", "rate"} \/ (call[c].stage = "confirm" /\ call[c].tx.kind = "create"),
         account \/ call[c].tx.kind # "create",
         stage = "rate" => kind # "create" /\ call[c].goal \in {"buy", "price"},
         stage # "rate" => Own(Tx(kind, arg, 0))
  PROVE  CommandMoves(c)
<1>1. CallTypeOK /\ CallInv(c)
  BY InvOfCall
<1>2. stage \in Stages
  BY DEF Stages
<1>3. /\ call' \in [Calls -> Commands] /\ Alone(c)
      /\ call'[c].stage = stage /\ call'[c].tx = Tx(kind, arg, 0)
      /\ SameGoal(c) /\ SameError(c) /\ SameAfter(c)
  BY <1>1, <1>2, PrepareWrites
<1>4. ~Ended(c) /\ call[c].error = "none"
  BY <1>1 DEF Ended, CallInv
<1>5. call'[c].tx.kind = kind /\ call'[c].error = "none" /\ call'[c].goal = call[c].goal
  BY <1>3, <1>4 DEF Tx, SameError, SameGoal
<1>6. CallInv(c)' /\ ~Sent(c)'
  BY <1>3, <1>5 DEF CallInv, Sent
<1>7. call[c].tx.kind # "create" => ~Accountable(c)
  BY <1>4 DEF Accountable
<1>8. UNCHANGED <<blockhash, account, switches, receipts>> /\ submitted' = submitted
  BY DEF clusterVars
<1>9. QED
  BY <1>3, <1>4, <1>6, <1>7, <1>8 DEF CommandMoves, SameTx

LEMMA StartMoves ==
  ASSUME ClientInv, NEW c \in Calls, NEW goal \in Goals,
         NEW stage \in {"lookup", "rate", "registry", "blockhash"}, NEW kind \in Kinds,
         NEW arg \in Nat \cup Switches, Names(kind, arg), Start(c, goal, stage, kind, arg),
         stage = "rate" => kind # "create" /\ goal \in {"buy", "price"},
         stage # "rate" => Own(Tx(kind, arg, 0))
  PROVE  CommandMoves(c)
<1>1. CallTypeOK /\ CallInv(c)
  BY InvOfCall
<1>2. stage \in Stages
  BY DEF Stages
<1>3. /\ call' \in [Calls -> Commands] /\ Alone(c)
      /\ call[c].stage = "idle" /\ UNCHANGED clusterVars
      /\ call'[c].stage = stage /\ call'[c].goal = goal /\ call'[c].tx = Tx(kind, arg, 0)
      /\ call'[c].after = {d \in Calls : Ended(d)} /\ SameError(c)
  BY <1>1, <1>2, StartWrites
<1>4. ~Ended(c) /\ call[c].error = "none" /\ ~Sent(c) /\ call[c].tx.kind # "create"
  BY <1>1, <1>3 DEF Ended, CallInv, Sent
<1>5. call'[c].tx.kind = kind /\ call'[c].error = "none"
  BY <1>3, <1>4 DEF Tx, SameError
<1>6. CallInv(c)' /\ ~Sent(c)'
  BY <1>3, <1>5 DEF CallInv, Sent
<1>7. ~Accountable(c)
  BY <1>3, <1>4 DEF Accountable
<1>8. UNCHANGED <<blockhash, account, switches, receipts>> /\ submitted' = submitted
  BY <1>3 DEF clusterVars
<1>9. QED
  BY <1>3, <1>4, <1>6, <1>7, <1>8 DEF CommandMoves, SameTx

LEMMA CommandEntered == ASSUME ClientInv, NEW c \in Calls, Command(c) PROVE CommandMoves(c)
<1> USE ClientAssumption DEF Kinds, Goals, Own, Tx, OtherPayer, Names
<1>1. CASE BuySol(c)
  BY <1>1, StartMoves DEF BuySol
<1>2. CASE Mint(c)
  BY <1>2, StartMoves DEF Mint
<1>3. CASE GetPrice(c)
  BY <1>3, StartMoves DEF GetPrice
<1>4. CASE DequeueFills(c)
  BY <1>4, StartMoves DEF DequeueFills
<1>5. ASSUME NEW kind \in {"set", "clear"}, Toggle(c, kind) PROVE CommandMoves(c)
  <2>1. PICK s \in Switches : Start(c, kind, "blockhash", kind, s)
    BY <1>5 DEF Toggle
  <2>2. kind \in Goals /\ kind \in Kinds /\ Names(kind, s) /\ Own(Tx(kind, s, 0))
    BY <1>5
  <2>3. QED
    BY ONLY ClientInv, c \in Calls, <2>1, <2>2, StartMoves
<1>6. CASE SetSwitch(c) \/ ClearSwitch(c)
  BY <1>5, <1>6 DEF SetSwitch, ClearSwitch
<1>7. QED
  BY <1>1, <1>2, <1>3, <1>4, <1>5, <1>6 DEF Command

LEMMA ReceiptFound ==
  ASSUME ReceiptsInv, NEW tx, Succeeded(tx)
  PROVE  ReceiptOf(tx) \in receipts /\ ReceiptOf(tx).tx = tx /\ ReceiptOf(tx).ok
<1>1. PICK s \in receipts : s.tx = tx /\ s.ok
  BY DEF Succeeded
<1>2. ReceiptOf(tx) \in receipts /\ ReceiptOf(tx).tx = tx
  BY <1>1 DEF ReceiptOf
<1>3. ReceiptOf(tx) = s
  BY <1>1, <1>2 DEF ReceiptsInv
<1>4. QED
  BY <1>1, <1>2, <1>3

\* find_or_initialize_associated_token_account leads on to the payment.
LEMMA ProceedMoves ==
  ASSUME ClientInv, NEW c \in Calls, account, Proceed(c), UNCHANGED clusterVars,
         call[c].stage = "lookup" \/ (call[c].stage = "confirm" /\ call[c].tx.kind = "create")
  PROVE  CommandMoves(c)
<1>1. CASE call[c].goal = "buy"
  <2>1. Prepare(c, "rate", "buy", 0)
    BY <1>1 DEF Proceed
  <2>2. QED
    BY <1>1, <2>1, PrepareMoves DEF Kinds, Names
<1>2. CASE call[c].goal # "buy"
  <2>1. PICK amount \in MintAmounts : Prepare(c, "blockhash", "mint", amount)
    BY <1>2 DEF Proceed
  <2>2. /\ amount \in Nat \cup Switches /\ "mint" \in Kinds
        /\ Names("mint", amount) /\ Own(Tx("mint", amount, 0))
    BY ClientAssumption DEF Kinds, Own, Tx, Names
  <2>3. QED
    BY <2>1, <2>2, PrepareMoves
<1>3. QED
  BY <1>1, <1>2

\* Requests that change nothing but the stage, before anything is sent.
LEMMA LookUpMoves == ASSUME ClientInv, NEW c \in Calls, LookUpAccount(c) PROVE CommandMoves(c)
<1>1. call[c].stage = "lookup" /\ UNCHANGED clusterVars
  BY DEF LookUpAccount
<1>2. CASE account /\ Proceed(c)
  BY <1>1, <1>2, ProceedMoves
<1>3. CASE Go(c, "blockhash")
  <2>1. CallTypeOK /\ CallInv(c)
    BY InvOfCall
  <2>2. /\ call' \in [Calls -> Commands] /\ Alone(c) /\ call'[c].stage = "blockhash"
        /\ SameTx(c) /\ SameError(c) /\ SameAfter(c)
    BY <1>3, <2>1, GoWrites DEF Stages
  <2>3. CallInv(c)' /\ ~Sent(c)' /\ ~Ended(c) /\ ~Accountable(c)
    BY <1>1, <2>1, <2>2 DEF CallInv, Sent, Ended, Accountable, SameTx, SameError
  <2>4. UNCHANGED <<blockhash, account, switches, receipts>> /\ submitted' = submitted
    BY <1>1 DEF clusterVars
  <2>5. QED
    BY <2>2, <2>3, <2>4 DEF CommandMoves, SameTx
<1>4. QED
  BY <1>2, <1>3 DEF LookUpAccount

LEMMA FetchMoves == ASSUME ClientInv, NEW c \in Calls, FetchOraclePrice(c) PROVE CommandMoves(c)
<1>1. call[c].stage = "rate" /\ UNCHANGED clusterVars
  BY DEF FetchOraclePrice
<1>2. call[c].goal \in {"buy", "price"} /\ call[c].tx.kind # "create"
  BY <1>1, InvOfCall DEF CallInv
<1> DEFINE stage == IF call[c].goal = "buy" THEN "registry" ELSE "blockhash"
<1>3. PICK rate \in Attestations : Prepare(c, stage, call[c].goal, rate)
  BY DEF FetchOraclePrice
<1>4. /\ rate \in Nat \cup Switches /\ call[c].goal \in Kinds /\ stage \in {"rate", "registry", "blockhash"}
      /\ stage # "rate" /\ Names(call[c].goal, rate) /\ Own(Tx(call[c].goal, rate, 0))
  BY <1>2, ClientAssumption DEF Kinds, Own, Tx, OtherPayer, Names
<1> HIDE DEF stage
<1>5. QED
  BY <1>1, <1>2, <1>3, <1>4, PrepareMoves

LEMMA RegistryAddressMoves ==
  ASSUME ClientInv, NEW c \in Calls, GetFillsRegistryAddress(c) PROVE CommandMoves(c)
<1>1. call[c].stage = "registry" /\ Go(c, "blockhash") /\ UNCHANGED clusterVars
  BY DEF GetFillsRegistryAddress
<1>2. CallTypeOK /\ CallInv(c)
  BY InvOfCall
<1>3. /\ call' \in [Calls -> Commands] /\ Alone(c) /\ call'[c].stage = "blockhash"
      /\ SameTx(c) /\ SameError(c) /\ SameAfter(c)
  BY <1>1, <1>2, GoWrites DEF Stages
<1>4. CallInv(c)' /\ ~Sent(c)' /\ ~Ended(c) /\ ~Accountable(c)
  BY <1>1, <1>2, <1>3 DEF CallInv, Sent, Ended, Accountable, SameTx, SameError
<1>5. UNCHANGED <<blockhash, account, switches, receipts>> /\ submitted' = submitted
  BY <1>1 DEF clusterVars
<1>6. QED
  BY <1>3, <1>4, <1>5 DEF CommandMoves, SameTx

LEMMA BlockhashMoves ==
  ASSUME ClientInv, NEW c \in Calls, GetLatestBlockhash(c) PROVE CommandMoves(c)
<1>1. /\ call[c].stage = "blockhash" /\ UNCHANGED clusterVars
      /\ call' = [call EXCEPT ![c].stage = "send", ![c].tx.hash = blockhash]
  BY DEF GetLatestBlockhash
<1>2. CallTypeOK /\ CallInv(c) /\ blockhash \in Nat
  BY InvOfCall DEF ClientInv, ClientTypeOK
<1>3. /\ call' \in [Calls -> Commands] /\ Alone(c) /\ call'[c].stage = "send"
      /\ call'[c].tx.kind = call[c].tx.kind /\ call'[c].tx.arg = call[c].tx.arg
      /\ SameError(c) /\ SameAfter(c)
  BY <1>1, <1>2, HashWrites
<1>4. CallInv(c)' /\ ~Sent(c)' /\ ~Ended(c) /\ ~Accountable(c)
  BY <1>1, <1>2, <1>3 DEF CallInv, Sent, Ended, Accountable, SameError, Own
<1>5. UNCHANGED <<blockhash, account, switches, receipts>> /\ submitted' = submitted
  BY <1>1 DEF clusterVars
<1>6. QED
  BY <1>3, <1>4, <1>5 DEF CommandMoves, SameTx

\* send_and_confirm_transaction: whatever becomes of it, the command answers for it.
LEMMA SubmitMoves == ASSUME ClientInv, NEW c \in Calls, Submit(c) PROVE CommandMoves(c)
<1>1. /\ call[c].stage = "send" /\ call[c].tx \notin Executed
      /\ submitted' = submitted \cup {call[c].tx}
      /\ UNCHANGED <<blockhash, account, switches, receipts>>
  BY DEF Submit, PreflightPasses
<1>2. CallTypeOK /\ CallInv(c)
  BY InvOfCall
<1>3. ~Ended(c) /\ ~Accountable(c) /\ ~Sent(c) /\ call[c].error = "none" /\ Own(call[c].tx)
  BY <1>1, <1>2 DEF Ended, CallInv, Accountable, Sent
<1>4. CASE Go(c, "confirm")
  <2>1. /\ call' \in [Calls -> Commands] /\ Alone(c) /\ call'[c].stage = "confirm"
        /\ SameTx(c) /\ SameError(c) /\ SameAfter(c)
    BY <1>2, <1>4, GoWrites DEF Stages
  <2>2. CallInv(c)' /\ Accountable(c)'
    BY <1>1, <1>3, <2>1 DEF CallInv, Sent, Accountable, SameTx, SameError
  <2>3. QED
    BY <1>1, <1>3, <2>1, <2>2 DEF CommandMoves, SameTx
<1>5. CASE Fail(c, "doubt")
  <2>1. /\ call' \in [Calls -> Commands] /\ Alone(c)
        /\ call'[c].stage = "failed" /\ call'[c].error = "doubt"
        /\ SameTx(c) /\ SameAfter(c)
    BY <1>2, <1>5, FailWrites DEF Errors
  <2>2. CallInv(c)' /\ Accountable(c)' /\ ~Sent(c)'
    BY <2>1 DEF CallInv, Accountable, Sent
  <2>3. QED
    BY <1>1, <1>3, <2>1, <2>2 DEF CommandMoves, SameTx
<1>6. QED
  BY <1>4, <1>5 DEF Submit

\* A command answers with the receipt of its own transaction.
LEMMA AnswerMoves ==
  ASSUME ClientInv, NEW c \in Calls, call[c].stage \in {"confirm", "read"},
         Succeeded(call[c].tx), Answer(c, ReceiptOf(call[c].tx)), UNCHANGED clusterVars
  PROVE  CommandMoves(c)
<1>1. CallTypeOK /\ CallInv(c) /\ ReceiptsInv
  BY InvOfCall
<1> DEFINE r == ReceiptOf(call[c].tx)
<1>2. r \in receipts /\ r.tx = call[c].tx /\ r.ok
  BY <1>1, ReceiptFound
<1> HIDE DEF r
<1>3. /\ call' \in [Calls -> Commands] /\ Alone(c)
      /\ call'[c].stage = "answered" /\ call'[c].answer = r
      /\ SameTx(c) /\ SameError(c) /\ SameAfter(c)
  BY <1>1, <1>2, AnswerWrites DEF r
<1>4. UNCHANGED <<blockhash, account, switches, receipts>> /\ submitted' = submitted
  BY DEF clusterVars
<1>5. Succeeded(call[c].tx)'
  BY <1>3, <1>4 DEF Succeeded, SameTx
<1>6. CallInv(c)' /\ ~Ended(c) /\ Sent(c) /\ Accountable(c)'
  BY <1>1, <1>2, <1>3, <1>4, <1>5 DEF CallInv, Sent, Ended, Accountable, SameTx, SameError
<1>7. QED
  BY <1>3, <1>4, <1>6 DEF CommandMoves, SameTx

LEMMA ConfirmedMoves == ASSUME ClientInv, NEW c \in Calls, Confirmed(c) PROVE CommandMoves(c)
<1>1. call[c].stage = "confirm" /\ Succeeded(call[c].tx) /\ UNCHANGED clusterVars
  BY DEF Confirmed
<1>2. CASE call[c].tx.kind = "create"
  <2>1. Proceed(c)
    BY <1>2 DEF Confirmed
  <2>2. account
    BY <1>1, <1>2, InvOfCall DEF Succeeded, ReceiptsInv
  <2>3. QED
    BY <1>1, <1>2, <2>1, <2>2, ProceedMoves
<1>3. CASE call[c].tx.kind \in {"price", "dequeue"}
  <2>1. Go(c, "read")
    BY <1>3 DEF Confirmed
  <2>2. CallTypeOK /\ CallInv(c)
    BY InvOfCall
  <2>3. /\ call' \in [Calls -> Commands] /\ Alone(c) /\ call'[c].stage = "read"
        /\ SameTx(c) /\ SameError(c) /\ SameAfter(c)
    BY <2>1, <2>2, GoWrites DEF Stages
  <2>4. UNCHANGED <<blockhash, account, switches, receipts>> /\ submitted' = submitted
    BY <1>1 DEF clusterVars
  <2>5. Succeeded(call[c].tx)'
    BY <1>1, <2>3, <2>4 DEF Succeeded, SameTx
  <2>6. CallInv(c)' /\ ~Ended(c) /\ Sent(c) /\ Accountable(c)'
    BY <1>1, <2>2, <2>3, <2>4, <2>5 DEF CallInv, Sent, Ended, Accountable, SameTx, SameError
  <2>7. QED
    BY <2>3, <2>4, <2>6 DEF CommandMoves, SameTx
<1>4. CASE call[c].tx.kind \notin {"create", "price", "dequeue"}
  <2>1. Answer(c, ReceiptOf(call[c].tx))
    BY <1>4 DEF Confirmed
  <2>2. QED
    BY <1>1, <2>1, AnswerMoves
<1>5. QED
  BY <1>2, <1>3, <1>4

\* get_transaction fails and is tried again, or not.
LEMMA RetryMoves == ASSUME ClientInv, NEW c \in Calls, GetTransactionFails(c) PROVE CommandMoves(c)
<1>1. call[c].stage = "read" /\ UNCHANGED clusterVars
  BY DEF GetTransactionFails
<1>2. CASE call[c].tries + 1 < RETRY_COUNT
  <2>1. call' = [call EXCEPT ![c].tries = @ + 1]
    BY <1>2 DEF GetTransactionFails
  <2>2. CallTypeOK /\ CallInv(c) /\ call[c].tries \in 0..RETRY_COUNT - 1
    BY InvOfCall
  <2>3. call' = [call EXCEPT ![c].tries = call[c].tries + 1]
    BY <2>1, <2>2 DEF CallTypeOK
  <2>4. call[c].tries + 1 \in 0..RETRY_COUNT - 1
    BY <1>2, <2>2, ClientAssumption
  <2>5. /\ call' \in [Calls -> Commands] /\ Alone(c) /\ call'[c].stage = "read"
        /\ SameTx(c) /\ SameError(c) /\ SameAfter(c)
    BY <1>1, <2>2, <2>3, <2>4, TriesWrites
  <2>6. UNCHANGED <<blockhash, account, switches, receipts>> /\ submitted' = submitted
    BY <1>1 DEF clusterVars
  <2>7. Succeeded(call[c].tx)'
    BY <1>1, <2>2, <2>5, <2>6 DEF CallInv, Succeeded, SameTx
  <2>8. CallInv(c)' /\ ~Ended(c) /\ Sent(c) /\ Accountable(c)'
    BY <1>1, <2>2, <2>5, <2>6, <2>7 DEF CallInv, Sent, Ended, Accountable, SameTx, SameError
  <2>9. QED
    BY <2>5, <2>6, <2>8 DEF CommandMoves, SameTx
<1>3. CASE ~(call[c].tries + 1 < RETRY_COUNT)
  <2>1. Fail(c, "unread")
    BY <1>3 DEF GetTransactionFails
  <2>2. QED
    BY <1>1, <2>1, FailMoves DEF Errors, Ended
<1>4. QED
  BY <1>2, <1>3

LEMMA RejectedMoves == ASSUME ClientInv, NEW c \in Calls, Rejected(c) PROVE CommandMoves(c)
<1>1. /\ call[c].stage = "confirm" /\ UNCHANGED clusterVars /\ Fail(c, "refused")
      /\ call[c].tx \in Executed /\ ~Succeeded(call[c].tx)
  BY DEF Rejected
<1>2. Failed(call[c].tx)
  BY <1>1 DEF Executed, Succeeded, Failed
<1>3. QED
  BY <1>1, <1>2, FailMoves DEF Errors, Ended

\* Every step of a command is one of CommandMoves.
LEMMA CommandStep ==
  ASSUME ClientInv, NEW c \in Calls, Command(c) \/ CallStep(c) \/ StatusFails(c)
  PROVE  CommandMoves(c)
<1>1. CASE Command(c)
  BY <1>1, CommandEntered
<1>2. CASE LookUpAccount(c) \/ FetchOraclePrice(c) \/ GetFillsRegistryAddress(c)
           \/ GetLatestBlockhash(c)
  BY <1>2, LookUpMoves, FetchMoves, RegistryAddressMoves, BlockhashMoves
<1>3. CASE RequestFails(c) \/ SendFails(c) \/ PreflightFails(c)
  <2>1. /\ call[c].stage \in {"rate", "registry", "blockhash", "send"} /\ UNCHANGED clusterVars
        /\ Fail(c, "unsent") \/ Fail(c, "doubt") \/ Fail(c, "refused")
    BY <1>3 DEF RequestFails, SendFails, PreflightFails
  <2>2. ~Accountable(c) /\ ~Ended(c)
    BY <2>1, InvOfCall DEF CallInv, Accountable, Ended
  <2>3. QED
    BY <2>1, <2>2, FailMoves DEF Errors
<1>4. CASE Submit(c) \/ Confirmed(c) \/ Rejected(c)
  BY <1>4, SubmitMoves, ConfirmedMoves, RejectedMoves
<1>5. CASE Expired(c) \/ StatusFails(c)
  BY <1>5, FailMoves DEF Expired, StatusFails, Errors, Ended
<1>6. CASE ReadReturnData(c)
  <2>1. call[c].stage = "read" /\ UNCHANGED clusterVars /\ Answer(c, ReceiptOf(call[c].tx))
    BY <1>6 DEF ReadReturnData
  <2>2. Succeeded(call[c].tx)
    BY <2>1, InvOfCall DEF CallInv
  <2>3. QED
    BY <2>1, <2>2, AnswerMoves
<1>7. CASE GetTransactionFails(c)
  BY <1>7, RetryMoves
<1>8. CASE NoReturnData(c)
  BY <1>8, FailMoves DEF NoReturnData, Errors, Ended
<1>9. QED
  BY <1>1, <1>2, <1>3, <1>4, <1>5, <1>6, <1>7, <1>8 DEF CallStep

-----------------------------------------------------------------------------
(* What a command's step keeps *)

LEMMA CommandKeepsTypes ==
  ASSUME ClientInv, NEW c \in Calls, CommandMoves(c)
  PROVE  ClientTypeOK' /\ CallsInv' /\ ReceiptsInv'
<1>1. /\ call' \in [Calls -> Commands] /\ Alone(c) /\ CallInv(c)'
      /\ UNCHANGED <<blockhash, account, switches, receipts>> /\ submitted \subseteq submitted'
      /\ \A tx \in submitted' \ submitted : tx = call[c].tx
  BY DEF CommandMoves
<1>2. ClientTypeOK /\ CallsInv /\ ReceiptsInv /\ call[c].tx \in Transactions
  BY InvOfCall DEF ClientInv
<1>3. ClientTypeOK'
  BY <1>1, <1>2 DEF ClientTypeOK, Commands
<1>4. ASSUME NEW d \in Calls \ {c} PROVE CallInv(d)'
  <2>1. CallInv(d) /\ call'[d] = call[d]
    BY <1>1, <1>2 DEF CallsInv, Alone
  <2>2. QED
    BY <1>1, <2>1 DEF CallInv, Sent, Succeeded
<1>5. CallsInv'
  BY <1>1, <1>4 DEF CallsInv
<1>6. ReceiptsInv'
  BY <1>1, <1>2 DEF ReceiptsInv
<1>7. QED
  BY <1>3, <1>5, <1>6

\* A command that has ended keeps its transaction, and the ones after it take another.
LEMMA CommandKeepsOrder ==
  ASSUME ClientInv, NEW c \in Calls, CommandMoves(c) PROVE AfterInv'
<1>1. /\ Alone(c) /\ ~Ended(c) /\ UNCHANGED receipts
      /\ SameAfter(c) \/ (call'[c].after = {d \in Calls : Ended(d)} /\ ~Sent(c)')
      /\ Sent(c)' => SameTx(c) /\ (Sent(c) \/ call[c].tx \notin Executed)
  BY DEF CommandMoves
<1>2. AfterInv /\ CallsInv /\ \A d \in Calls : call[d].after \subseteq Calls
  BY DEF ClientInv, ClientTypeOK, Commands
<1> SUFFICES ASSUME NEW d \in Calls, NEW e \in call'[d].after PROVE After(e, d)'
  BY DEF AfterInv
<1>3. e \in Calls /\ Ended(e)
  <2>1. CASE d = c
    BY <1>1, <1>2, <2>1 DEF SameAfter, AfterInv, After
  <2>2. CASE d # c
    BY <1>1, <1>2, <2>2 DEF Alone, AfterInv, After
  <2>3. QED
    BY <2>1, <2>2
<1>4. e # c /\ call'[e] = call[e] /\ Ended(e)'
  BY <1>1, <1>3 DEF Alone, Ended
<1>5. SUFFICES ASSUME call[e].stage = "answered", Sent(d)' PROVE call[e].tx # call'[d].tx
  BY <1>4 DEF After
<1>6. CASE d # c
  <2>1. call'[d] = call[d] /\ e \in call[d].after
    BY <1>1, <1>6 DEF Alone
  <2>2. After(e, d) /\ Sent(d)
    BY <1>2, <1>5, <2>1 DEF AfterInv, Sent
  <2>3. QED
    BY <1>5, <2>1, <2>2 DEF After
<1>7. CASE d = c
  <2>1. SameTx(c) /\ SameAfter(c) /\ e \in call[c].after
    BY <1>1, <1>5, <1>7 DEF SameAfter
  <2>2. CASE Sent(c)
    BY <1>2, <1>5, <1>7, <2>1, <2>2 DEF AfterInv, After, SameTx
  <2>3. CASE call[c].tx \notin Executed
    <3>1. Succeeded(call[e].tx)
      BY <1>2, <1>3, <1>5 DEF CallsInv, CallInv
    <3>2. call[e].tx \in Executed
      BY <3>1 DEF Succeeded, Executed
    <3>3. QED
      BY <1>7, <2>1, <2>3, <3>2 DEF SameTx
  <2>4. QED
    BY <1>1, <1>5, <1>7, <2>2, <2>3
<1>8. QED
  BY <1>6, <1>7

\* Another command's transaction stays accounted for, and so does the command's own.
LEMMA AccountsKept ==
  ASSUME ClientInv, NEW c \in Calls, CommandMoves(c), NEW d \in Calls,
         Accountable(d), call[d].tx.kind # "create", ~Failed(call[d].tx)
  PROVE  Accountable(d)' /\ call'[d].tx = call[d].tx
  BY DEF CommandMoves, Alone, SameTx, Accountable

LEMMA CommandKeepsSubmitted ==
  ASSUME ClientInv, NEW c \in Calls, CommandMoves(c) PROVE SubmittedInv'
<1>1. /\ UNCHANGED receipts
      /\ \A tx \in submitted' \ submitted : tx = call[c].tx /\ SameTx(c) /\ Accountable(c)'
  BY DEF CommandMoves
<1> SUFFICES ASSUME NEW tx \in submitted', tx.kind # "create", ~Failed(tx)'
             PROVE  AccountedFor(tx)'
  BY DEF SubmittedInv
<1>2. ~Failed(tx)
  BY <1>1 DEF Failed
<1>3. CASE tx \in submitted
  <2>1. PICK d \in Calls : call[d].tx = tx /\ Accountable(d)
    BY <1>2, <1>3 DEF ClientInv, SubmittedInv, AccountedFor
  <2>2. Accountable(d)' /\ call'[d].tx = tx
    BY <1>2, <2>1, AccountsKept
  <2>3. QED
    BY <2>2 DEF AccountedFor
<1>4. CASE tx \notin submitted
  BY <1>1, <1>4 DEF SameTx, AccountedFor
<1>5. QED
  BY <1>3, <1>4

LEMMA SucceededHasNotFailed ==
  ASSUME ReceiptsInv, NEW tx, Succeeded(tx) PROVE ~Failed(tx)
  BY DEF ReceiptsInv, Succeeded, Failed

\* The command that moved a switch last still answers for it after a step of any command.
LEMMA CommandKeepsSwitches ==
  ASSUME ClientInv, NEW c \in Calls, CommandMoves(c) PROVE SwitchInv'
<1>1. /\ Alone(c) /\ ~Ended(c) /\ UNCHANGED <<switches, receipts>>
      /\ SameAfter(c) \/ (call'[c].after = {d \in Calls : Ended(d)} /\ ~Sent(c)' /\ ~Sent(c))
      /\ Sent(c)' => SameTx(c) /\ (Sent(c) \/ call[c].tx \notin Executed)
  BY DEF CommandMoves
<1> SUFFICES ASSUME NEW e \in Calls, Sent(e)', call'[e].tx.kind \in {"set", "clear"},
                    Succeeded(call[e].tx)', ~Stands(e)'
             PROVE  Reversed(e)'
  BY DEF SwitchInv
<1>2. Sent(e) /\ call'[e].tx = call[e].tx /\ call'[e].after = call[e].after /\ Succeeded(call[e].tx)
  <2>1. CASE e # c
    BY <1>1, <2>1 DEF Alone, Sent, Succeeded
  <2>2. CASE e = c
    <3>1. SameTx(c) /\ SameAfter(c) /\ Succeeded(call[c].tx)
      BY <1>1, <2>2 DEF SameTx, Succeeded
    <3>2. call[c].tx \in Executed
      BY <3>1 DEF Succeeded, Executed
    <3>3. QED
      BY <1>1, <2>2, <3>1, <3>2 DEF SameTx, SameAfter
  <2>3. QED
    BY <2>1, <2>2
<1>3. ~Stands(e)
  BY <1>1, <1>2 DEF Stands
<1>4. PICK d \in Calls : Reverses(d, e) /\ Succeeded(call[d].tx)
  BY <1>2, <1>3 DEF ClientInv, SwitchInv, Reversed
<1>5. /\ call[d].tx.kind \in {"set", "clear"} \ {call[e].tx.kind}
      /\ call[d].tx.arg = call[e].tx.arg
      /\ Accountable(d)
      /\ ~(call[d].stage = "answered" /\ d \in call[e].after)
  BY <1>4 DEF Reverses
<1>6. Accountable(d)' /\ call'[d].tx = call[d].tx
  BY <1>4, <1>5, AccountsKept, SucceededHasNotFailed DEF ClientInv
<1>7. Succeeded(call[d].tx)'
  BY <1>1, <1>4, <1>6 DEF Succeeded
<1>8. ~(call'[d].stage = "answered" /\ d \in call'[e].after)
  <2>1. CASE d # c
    BY <1>1, <1>2, <1>5, <2>1 DEF Alone
  <2>2. CASE d = c
    <3>1. d \notin call[e].after
      BY <1>1, <2>2 DEF ClientInv, AfterInv, After
    <3>2. QED
      BY <1>2, <3>1
  <2>3. QED
    BY <2>1, <2>2
<1>9. Reverses(d, e)'
  BY <1>2, <1>5, <1>6, <1>8 DEF Reverses
<1>10. QED
  BY <1>7, <1>9 DEF Reversed

LEMMA CommandKeepsInv ==
  ASSUME ClientInv, NEW c \in Calls, CommandMoves(c) PROVE ClientInv'
  BY CommandKeepsTypes, CommandKeepsOrder, CommandKeepsSubmitted, CommandKeepsSwitches DEF ClientInv

-----------------------------------------------------------------------------
(* What a step of the cluster keeps *)

\* The receipt of a transaction that had none, and what its instruction has done.
ReceiptAdded(r) ==
  /\ receipts' = receipts \cup {r} /\ UNCHANGED <<call, blockhash, submitted>>
  /\ r.tx \in Transactions /\ r.ok \in BOOLEAN /\ r.tx \notin Executed
  /\ r.tx \in submitted \/ ~Own(r.tx)
  /\ account' \in BOOLEAN /\ switches' \subseteq Switches
  /\ account \/ (r.tx.kind = "create" /\ r.ok) => account'

LEMMA ReceiptKeepsRest ==
  ASSUME ClientInv, NEW r, ReceiptAdded(r)
  PROVE  ClientTypeOK' /\ CallsInv' /\ AfterInv' /\ ReceiptsInv' /\ SubmittedInv'
<1>1. /\ receipts' = receipts \cup {r} /\ UNCHANGED <<call, blockhash, submitted>>
      /\ r.tx \in Transactions /\ r.ok \in BOOLEAN /\ r.tx \notin Executed
      /\ r.tx \in submitted \/ ~Own(r.tx)
      /\ account' \in BOOLEAN /\ switches' \subseteq Switches
      /\ account \/ (r.tx.kind = "create" /\ r.ok) => account'
  BY DEF ReceiptAdded
<1>2. ClientTypeOK /\ CallsInv /\ AfterInv /\ ReceiptsInv /\ SubmittedInv
  BY DEF ClientInv
<1>3. ClientTypeOK'
  <2>1. call \in [Calls -> Commands]
    BY <1>2 DEF ClientTypeOK
  <2>2. \A x \in Commands : x \in Commands'
    BY <1>1 DEF Commands
  <2>3. call' \in [Calls -> Commands']
    BY <1>1, <2>1, <2>2
  <2>4. QED
    BY <1>1, <1>2, <2>3 DEF ClientTypeOK
<1>4. CallsInv'
  BY <1>1, <1>2 DEF CallsInv, CallInv, Sent, Succeeded
<1>5. AfterInv'
  BY <1>1, <1>2 DEF AfterInv, After, Ended, Sent
<1>6. ReceiptsInv'
  BY <1>1, <1>2 DEF ReceiptsInv, Executed
<1>7. SubmittedInv'
  BY <1>1, <1>2 DEF SubmittedInv, Failed, AccountedFor, Accountable
<1>8. QED
  BY <1>3, <1>4, <1>5, <1>6, <1>7

\* A receipt that moves no switch, and is not that of a successful set or clear.
LEMMA ReceiptKeepsSwitches ==
  ASSUME ClientInv, NEW r, ReceiptAdded(r), switches' = switches,
         ~(r.ok /\ r.tx.kind \in {"set", "clear"})
  PROVE  SwitchInv'
<1> SUFFICES ASSUME NEW e \in Calls, Sent(e)', call'[e].tx.kind \in {"set", "clear"},
                    Succeeded(call[e].tx)', ~Stands(e)'
             PROVE  Reversed(e)'
  BY DEF SwitchInv
<1>1. receipts' = receipts \cup {r} /\ call' = call
  BY DEF ReceiptAdded
<1>2. Sent(e) /\ call[e].tx.kind \in {"set", "clear"} /\ Succeeded(call[e].tx) /\ ~Stands(e)
  BY <1>1 DEF Sent, Succeeded, Stands
<1>3. PICK d \in Calls : Reverses(d, e) /\ Succeeded(call[d].tx)
  BY <1>2 DEF ClientInv, SwitchInv, Reversed
<1>4. Reverses(d, e)' /\ Succeeded(call[d].tx)'
  BY <1>1, <1>3 DEF Reverses, Accountable, Succeeded
<1>5. QED
  BY <1>4 DEF Reversed

\* The transaction that moves a switch away from where a command has put it has a command
\* that accounts for it, and that cannot have been answered yet.
LEMMA MoveIsAccountedFor ==
  ASSUME ClientInv, NEW e \in Calls, NEW tx \in submitted, tx \notin Executed,
         tx.kind \in {"set", "clear"} \ {call[e].tx.kind}, tx.arg = call[e].tx.arg
  PROVE  \E d \in Calls : call[d].tx = tx /\ Reverses(d, e)
<1>1. ~Failed(tx) /\ ~Succeeded(tx)
  BY DEF Executed, Failed, Succeeded
<1>2. PICK d \in Calls : call[d].tx = tx /\ Accountable(d)
  BY <1>1 DEF ClientInv, SubmittedInv, AccountedFor
<1>3. call[d].stage # "answered"
  BY <1>1, <1>2, InvOfCall DEF CallInv
<1>4. QED
  BY <1>2, <1>3 DEF Reverses

LEMMA ExecutedKeepsSwitches ==
  ASSUME ClientInv, NEW tx \in submitted, tx \notin Executed, NEW sol,
         ReceiptAdded(Receipt(tx, TRUE, sol)), Effect(tx)
  PROVE  SwitchInv'
<1> SUFFICES ASSUME NEW e \in Calls, Sent(e)', call'[e].tx.kind \in {"set", "clear"},
                    Succeeded(call[e].tx)', ~Stands(e)'
             PROVE  Reversed(e)'
  BY DEF SwitchInv
<1> DEFINE r == Receipt(tx, TRUE, sol)
           kind == call[e].tx.kind
           arg  == call[e].tx.arg
<1>1. receipts' = receipts \cup {r} /\ call' = call /\ r.tx = tx /\ r.ok
  BY DEF ReceiptAdded, Receipt
<1> HIDE DEF r
<1>2. /\ tx.kind = "set"   => switches' = switches \cup {tx.arg}
      /\ tx.kind = "clear" => switches' = switches \ {tx.arg}
      /\ tx.kind \notin {"set", "clear"} => switches' = switches
  BY DEF Effect
<1>3. Sent(e) /\ kind \in {"set", "clear"} /\ (arg \in switches') # (kind = "set")
  BY <1>1 DEF Sent, Stands
<1>4. \A d \in Calls : Reverses(d, e) => Reverses(d, e)'
  BY <1>1 DEF Reverses, Accountable
<1>5. CASE tx.kind \in {"set", "clear"} \ {kind} /\ tx.arg = arg
  <2>1. PICK d \in Calls : call[d].tx = tx /\ Reverses(d, e)
    BY <1>5, MoveIsAccountedFor
  <2>2. Succeeded(call[d].tx)'
    BY <1>1, <2>1 DEF Succeeded
  <2>3. QED
    BY <1>4, <2>1, <2>2 DEF Reversed
<1>6. CASE ~(tx.kind \in {"set", "clear"} \ {kind} /\ tx.arg = arg)
  <2>1. call[e].tx # tx
    BY <1>2, <1>3
  <2>2. Succeeded(call[e].tx)
    BY <1>1, <2>1 DEF Succeeded
  <2>3. (arg \in switches) # (kind = "set")
    BY <1>2, <1>3, <1>6
  <2>4. PICK d \in Calls : Reverses(d, e) /\ Succeeded(call[d].tx)
    BY <1>3, <2>2, <2>3 DEF ClientInv, SwitchInv, Reversed, Stands
  <2>5. Succeeded(call[d].tx)'
    BY <1>1, <2>4 DEF Succeeded
  <2>6. QED
    BY <1>4, <2>4, <2>5 DEF Reversed
<1>7. QED
  BY <1>5, <1>6

LEMMA ExecuteKeepsInv ==
  ASSUME ClientInv, NEW tx \in submitted, Execute(tx) PROVE ClientInv'
<1>1. tx \notin Executed /\ UNCHANGED <<call, blockhash, submitted>>
  BY DEF Execute
<1>2. tx \in Transactions /\ account \in BOOLEAN /\ switches \subseteq Switches
  BY DEF ClientInv, ClientTypeOK
<1>3. CASE /\ receipts' = receipts \cup {Receipt(tx, TRUE, Moves(tx))}
           /\ Effect(tx) /\ Accepts(tx)
  <2>1. account' = (account \/ tx.kind = "create")
    BY <1>3 DEF Effect
  <2>2. switches' \subseteq Switches
    <3>1. tx.kind = "set" => tx.arg \in Switches
      BY <1>2 DEF Transactions, Names
    <3>2. QED
      BY <1>2, <1>3, <3>1 DEF Effect
  <2>3. ReceiptAdded(Receipt(tx, TRUE, Moves(tx)))
    BY <1>1, <1>2, <1>3, <2>1, <2>2 DEF ReceiptAdded, Receipt
  <2>4. QED
    BY <1>1, <1>3, <2>3, ReceiptKeepsRest, ExecutedKeepsSwitches DEF ClientInv
<1>4. CASE /\ receipts' = receipts \cup {Receipt(tx, FALSE, 0)}
           /\ UNCHANGED <<account, switches>>
  <2>1. ReceiptAdded(Receipt(tx, FALSE, 0))
    BY <1>1, <1>2, <1>4 DEF ReceiptAdded, Receipt
  <2>2. ~Receipt(tx, FALSE, 0).ok
    BY DEF Receipt
  <2>3. QED
    BY <1>4, <2>1, <2>2, ReceiptKeepsRest, ReceiptKeepsSwitches DEF ClientInv
<1>5. QED
  BY <1>3, <1>4 DEF Execute

LEMMA OtherTradeKeepsInv == ClientInv /\ OtherTrade => ClientInv'
<1> SUFFICES ASSUME ClientInv, OtherTrade PROVE ClientInv'
  OBVIOUS
<1>1. PICK n \in 1..OtherTrades :
        /\ Tx("buy", OtherPayer, n) \notin Executed
        /\ receipts' = receipts \cup {Receipt(Tx("buy", OtherPayer, n), TRUE, SolQuantity)}
  BY DEF OtherTrade
<1> DEFINE r == Receipt(Tx("buy", OtherPayer, n), TRUE, SolQuantity)
<1>2. /\ r.tx = Tx("buy", OtherPayer, n) /\ r.ok /\ r.ok \in BOOLEAN /\ r.tx.kind = "buy"
      /\ r.tx \in Transactions /\ ~Own(r.tx)
  BY ClientAssumption DEF Receipt, Tx, Transactions, Names, Kinds, OtherPayer, Own
<1>3. UNCHANGED <<call, blockhash, account, switches, submitted>>
  BY DEF OtherTrade
<1> HIDE DEF r
<1>4. account \in BOOLEAN /\ switches \subseteq Switches
  BY DEF ClientInv, ClientTypeOK
<1>5. ReceiptAdded(r)
  BY <1>1, <1>2, <1>3, <1>4 DEF ReceiptAdded, r
<1>6. QED
  BY <1>2, <1>3, <1>5, ReceiptKeepsRest, ReceiptKeepsSwitches DEF ClientInv

\* Nothing but validity depends on the newest block hash.
LEMMA SameButBlockhash ==
  ClientInv /\ blockhash' \in Nat \ {0} /\ UNCHANGED <<call, account, switches, submitted, receipts>>
  => ClientInv'
<1> SUFFICES ASSUME ClientInv, blockhash' \in Nat \ {0},
                    UNCHANGED <<call, account, switches, submitted, receipts>>
             PROVE  ClientInv'
  OBVIOUS
<1>0. ClientTypeOK'
  <2>1. ClientTypeOK
    BY DEF ClientInv
  <2>2. QED
    BY ONLY <2>1, blockhash' \in Nat \ {0}, UNCHANGED <<call, account, switches, submitted, receipts>>
       DEF ClientTypeOK, Commands
<1>1. ReceiptsInv'
  BY DEF ClientInv, ReceiptsInv, Own
<1>2. CallsInv'
  BY DEF ClientInv, CallsInv, CallInv, Sent, Succeeded
<1>3. AfterInv'
  BY DEF ClientInv, AfterInv, After, Ended, Sent
<1>4. SubmittedInv'
  BY DEF ClientInv, SubmittedInv, Failed, AccountedFor, Accountable
<1>5. SwitchInv'
  <2>1. \A c \in Calls : /\ Sent(c)' = Sent(c) /\ call'[c].tx = call[c].tx
                         /\ Succeeded(call[c].tx)' = Succeeded(call[c].tx)
                         /\ Stands(c)' = Stands(c)
    BY DEF Sent, Succeeded, Stands
  <2>2. \A c, e \in Calls : Reverses(e, c)' <=> Reverses(e, c)
    <3>1. call' = call
      OBVIOUS
    <3>2. QED
      BY ONLY <3>1 DEF Reverses, Accountable
  <2>3. \A c \in Calls : Reversed(c) => Reversed(c)'
    BY <2>1, <2>2 DEF Reversed
  <2>4. QED
    BY <2>1, <2>3 DEF ClientInv, SwitchInv
<1>6. QED
  BY <1>0, <1>1, <1>2, <1>3, <1>4, <1>5 DEF ClientInv

LEMMA ClientInvStep == ClientInv /\ [ClientNext]_clientVars => ClientInv'
<1> SUFFICES ASSUME ClientInv, [ClientNext]_clientVars PROVE ClientInv'
  OBVIOUS
<1>1. CASE \E c \in Calls : Command(c) \/ CallStep(c) \/ StatusFails(c)
  BY <1>1, CommandStep, CommandKeepsInv
<1>2. CASE \E tx \in submitted : Execute(tx)
  BY <1>2, ExecuteKeepsInv
<1>3. CASE OtherTrade
  BY <1>3, OtherTradeKeepsInv
<1>4. CASE NextHash \/ UNCHANGED clientVars
  <2>1. blockhash' \in Nat \ {0} /\ UNCHANGED <<call, account, switches, submitted, receipts>>
    BY <1>4 DEF NextHash, clientVars, ClientInv, ClientTypeOK
  <2>2. QED
    BY <2>1, SameButBlockhash
<1>5. QED
  BY <1>1, <1>2, <1>3, <1>4 DEF ClientNext

LEMMA ClientInvInit == ClientInit => ClientInv
<1> SUFFICES ASSUME ClientInit PROVE ClientInv
  OBVIOUS
<1>1. /\ blockhash = 1 /\ account \in BOOLEAN /\ switches = {} /\ submitted = {} /\ receipts = {}
      /\ call = [c \in Calls |-> [stage |-> "idle", goal |-> "none", tx |-> NoTx, tries |-> 0,
                                  error |-> "none", answer |-> NoReceipt, after |-> {}]]
  BY DEF ClientInit
<1>2. NoTx \in Transactions /\ NoTx.kind = "none" /\ 0 \in 0..RETRY_COUNT - 1
  BY ClientAssumption DEF NoTx, Tx, Transactions, Names
<1>3. \A c \in Calls : /\ call[c].stage = "idle" /\ call[c].tx = NoTx /\ call[c].error = "none"
                       /\ call[c].after = {} /\ call[c] \in Commands
  BY <1>1, <1>2 DEF Commands, Stages, Goals, Errors
<1>4. ClientTypeOK
  <2>1. call \in [Calls -> Commands]
    BY <1>1, <1>3
  <2>2. blockhash \in Nat \ {0} /\ account \in BOOLEAN
    BY <1>1
  <2>3. switches \subseteq Switches /\ submitted \subseteq Transactions
    BY <1>1
  <2>4. \A r \in receipts : r.tx \in Transactions /\ r.ok \in BOOLEAN
    BY <1>1
  <2>5. QED
    BY <2>1, <2>2, <2>3, <2>4 DEF ClientTypeOK
<1>5. CallsInv /\ AfterInv
  BY <1>2, <1>3 DEF CallsInv, CallInv, Sent, AfterInv
<1>6. ReceiptsInv /\ SubmittedInv
  BY <1>1 DEF ReceiptsInv, SubmittedInv
<1>7. SwitchInv
  BY <1>3 DEF SwitchInv, Sent
<1>8. QED
  BY <1>4, <1>5, <1>6, <1>7 DEF ClientInv

-----------------------------------------------------------------------------
(* The theorems *)

\* The inductive invariant: what each stage of a command says of its transaction, of the
\* receipts and of the switches (send_batch_instructions_with_signers).
THEOREM ClientInvariant == ClientSpec => []ClientInv
  BY ClientInvInit, ClientInvStep, PTL DEF ClientSpec

\* For any number of commands, retries and lost answers a command reports the return data
\* of the transaction it has signed, and that one succeeded (transaction_executor.rs).
THEOREM AnswersAreOwnReceipts == ClientSpec => []AnswersAreReceipts
<1>1. ClientInv => AnswersAreReceipts
  BY DEF ClientInv, CallsInv, CallInv, AnswersAreReceipts
<1>2. QED
  BY <1>1, ClientInvariant, PTL

\* No payment goes unnoticed, whatever answers are lost and whatever is sent again: an error
\* before the submission and a refusal mean that nothing was paid that no other command
\* accounts for (send_instruction_with_return_data and its error paths).
THEOREM PaymentsAreAccountedFor == ClientSpec => []PaymentsAreKnownOrInDoubt
<1>1. ClientInv => PaymentsAreKnownOrInDoubt
  <2> SUFFICES ASSUME ClientInv, NEW r \in receipts, r.ok, r.tx.kind \in Payments, Own(r.tx)
               PROVE  \E c \in Calls : call[c].tx = r.tx /\ Accountable(c)
    BY DEF PaymentsAreKnownOrInDoubt
  <2>1. r.tx \in submitted /\ r.tx.kind # "create"
    BY DEF ClientInv, ReceiptsInv, Payments
  <2>2. Succeeded(r.tx)
    BY DEF Succeeded
  <2>3. ~Failed(r.tx)
    BY <2>2, SucceededHasNotFailed DEF ClientInv
  <2>4. QED
    BY <2>1, <2>3 DEF ClientInv, SubmittedInv, AccountedFor
<1>2. QED
  BY <1>1, ClientInvariant, PTL

\* The answers of commands that follow each other are of different transactions, also when
\* the block hash has not changed between them (transaction_executor.rs, the preflight).
THEOREM SerialAnswersAreDistinct == ClientSpec => []SerialAnswersDiffer
<1>1. ClientInv => SerialAnswersDiffer
  BY DEF ClientInv, AfterInv, After, Sent, SerialAnswersDiffer
<1>2. QED
  BY <1>1, ClientInvariant, PTL

\* A switch that a command has reported is where it was put, unless a command to the
\* contrary answers for it (toggle_system_state and deny_list of the admin CLI).
THEOREM ReportedSwitchesStand == ClientSpec => []ReportedSwitchStands
<1>1. ClientInv => ReportedSwitchStands
  <2> SUFFICES ASSUME ClientInv, NEW c \in Calls, call[c].stage = "answered",
                      call[c].tx.kind \in {"set", "clear"},
                      ~((call[c].tx.arg \in switches) = (call[c].tx.kind = "set"))
               PROVE  \E d \in Calls : Reverses(d, c)
    BY DEF ReportedSwitchStands
  <2>1. Sent(c) /\ Succeeded(call[c].tx) /\ ~Stands(c)
    BY InvOfCall DEF CallInv, Sent, Stands
  <2>2. QED
    BY <2>1 DEF ClientInv, SwitchInv, Reversed
<1>2. QED
  BY <1>1, ClientInvariant, PTL

\* However the look-up of the token account fails, a payment is prepared only when the
\* account exists (token_utils.rs, find_or_initialize_associated_token_account).
THEOREM PaymentsHaveTheirAccount == ClientSpec => PaymentHasItsAccount
<1> DEFINE Prepared ==
      \A c \in Calls : (call[c].tx.kind = "create" /\ call'[c].tx.kind \in Payments) => account
<1>1. ClientInv /\ [ClientNext]_clientVars => Prepared
  <2> SUFFICES ASSUME ClientInv, [ClientNext]_clientVars PROVE Prepared
    OBVIOUS
  <2>1. CASE \E c \in Calls : Command(c) \/ CallStep(c) \/ StatusFails(c)
    <3>1. PICK c \in Calls : CommandMoves(c)
      BY <2>1, CommandStep
    <3>2. QED
      BY <3>1 DEF CommandMoves, Alone, Payments
  <2>2. CASE UNCHANGED call
    BY <2>2 DEF Payments
  <2>3. QED
    BY <2>1, <2>2 DEF ClientNext, Execute, OtherTrade, NextHash, clientVars
<1>2. QED
  BY <1>1, ClientInvariant, PTL DEF ClientSpec, PaymentHasItsAccount
=============================================================================
