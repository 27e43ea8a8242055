-------------------------- MODULE SystemManagement --------------------------
(***************************************************************************)
(* The administration of the converter program: initialize_system, the     *)
(* configuration registry, the deny list, the two authorities and the      *)
(* halt switch.  Every instruction is one transaction: it checks, changes  *)
(* its account and returns, or it fails and changes nothing.               *)
(***************************************************************************)
EXTENDS AskPrice, SequencesExt

CONSTANTS
  Accounts,            \* the keys that sign instructions and buy SOL
  Officers,            \* those of them that an authority is handed to
  UpgradeAuthority,    \* the program's upgrade authority, which signs the first three
  DefaultKey,          \* Pubkey::default(), which nobody can sign for
  OracleKeys,          \* keys an admin may set as oracle_pubkey
  SolQuantities,       \* inputs for sol_quantity
  MaximumAges,         \* inputs for price_maximum_age, an i64
  Coefficients,        \* inputs for coefficient
  DiscountRates,       \* inputs for the two discount rates
  None,                \* an input field left out
  MAX_DENY_LIST_SIZE,  \* 310 in the program
  MaxUpdateCount       \* bound on the deny list's update_count

ASSUME AccountsAssumption ==
  UpgradeAuthority \in Accounts /\ Officers \subseteq Accounts /\ DefaultKey \notin Accounts
ASSUME ConfigurationInputsAssumption ==
  /\ SolQuantities \subseteq Nat /\ MaximumAges \subseteq Int
  /\ Coefficients \subseteq Nat /\ DiscountRates \subseteq Nat
  /\ None \notin Int
ASSUME DenyListAssumption == MAX_DENY_LIST_SIZE \in Nat /\ MaxUpdateCount \in Nat

VARIABLES
  initialized,          \* the program's accounts exist
  admin,                \* program_state.admin
  deny_list_authority,  \* program_state.deny_list_authority
  is_halted,            \* program_state.is_halted
  config,               \* the configuration registry
  denied_addresses,     \* the deny list registry: its vector
  update_count,         \* and its counter
  ruling                \* history: whether the latest deny list event of an
                        \* account was DenyListAddressAdded

authorityVars == <<admin, deny_list_authority>>
denyListVars == <<denied_addresses, update_count, ruling>>
systemVars == <<initialized, authorityVars, is_halted, config, denyListVars>>

Configuration ==
  [oracle_pubkey : OracleKeys \cup {DefaultKey},
   sol_quantity : Nat,
   price_maximum_age : Int,
   fills_consumer : Accounts \cup {DefaultKey},
   coefficient : Nat,
   max_discount_rate : Nat,
   min_discount_rate : Nat]

\* The fields of ConfigurationRegistryInput, each of which may be left out.
ConfigurationInput ==
  [oracle_pubkey : OracleKeys \cup {None},
   sol_quantity : SolQuantities \cup {None},
   price_maximum_age : MaximumAges \cup {None},
   coefficient : Coefficients \cup {None},
   max_discount_rate : DiscountRates \cup {None},
   min_discount_rate : DiscountRates \cup {None}]

\* Before initialize_system no account exists; the values are those of zeroed memory.
SystemInit ==
  /\ initialized = FALSE
  /\ admin = DefaultKey /\ deny_list_authority = DefaultKey
  /\ is_halted = FALSE
  /\ config = [oracle_pubkey |-> DefaultKey, sol_quantity |-> 0, price_maximum_age |-> 0,
               fills_consumer |-> DefaultKey, coefficient |-> 0,
               max_discount_rate |-> 0, min_discount_rate |-> 0]
  /\ denied_addresses = <<>> /\ update_count = 0
  /\ ruling = [a \in Accounts |-> FALSE]

\* initialize_system: the init constraint on the accounts lets it succeed once.
InitializeSystem(signer, oracle_pubkey, sol_quantity, age, coefficient, max_rate, min_rate) ==
  /\ ~initialized
  /\ signer = UpgradeAuthority
  /\ max_rate <= RATE_SCALE
  /\ coefficient <= COEFFICIENT_SCALE
  /\ min_rate < max_rate
  /\ age > 0
  /\ initialized' = TRUE
  /\ admin' = signer /\ deny_list_authority' = signer
  /\ config' = [oracle_pubkey |-> oracle_pubkey, sol_quantity |-> sol_quantity,
                price_maximum_age |-> age, fills_consumer |-> DefaultKey,
                coefficient |-> coefficient,
                max_discount_rate |-> max_rate, min_discount_rate |-> min_rate]
  /\ UNCHANGED <<is_halted, denyListVars>>

-----------------------------------------------------------------------------
UnwrapOr(value, default) == IF value = None THEN default ELSE value

\* The configuration with the fields of the input that are there.
Updated(input) ==
  [config EXCEPT !.oracle_pubkey     = UnwrapOr(input.oracle_pubkey, @),
                 !.sol_quantity      = UnwrapOr(input.sol_quantity, @),
                 !.price_maximum_age = UnwrapOr(input.price_maximum_age, @),
                 !.coefficient       = UnwrapOr(input.coefficient, @),
                 !.max_discount_rate = UnwrapOr(input.max_discount_rate, @),
                 !.min_discount_rate = UnwrapOr(input.min_discount_rate, @)]

\* Mutant of InputAccepted: each rate is compared with the stored other rate only.
InputAcceptedAgainstStored(input) ==
  /\ input.price_maximum_age # None => input.price_maximum_age > 0
  /\ input.coefficient # None => input.coefficient <= COEFFICIENT_SCALE
  /\ input.max_discount_rate # None =>
       /\ input.max_discount_rate <= RATE_SCALE
       /\ input.max_discount_rate > config.min_discount_rate
  /\ input.min_discount_rate # None => input.min_discount_rate < config.max_discount_rate

\* The checks of process_update, each made only for a field that is there.
InputAccepted(input) ==
  /\ input.price_maximum_age # None => input.price_maximum_age > 0
  /\ input.coefficient # None => input.coefficient <= COEFFICIENT_SCALE
  /\ input.max_discount_rate # None =>
       /\ input.max_discount_rate <= RATE_SCALE
       /\ input.max_discount_rate > UnwrapOr(input.min_discount_rate, config.min_discount_rate)
  /\ input.min_discount_rate # None =>
       input.min_discount_rate < UnwrapOr(input.max_discount_rate, config.max_discount_rate)

UpdateConfiguration(signer, input) ==
  /\ initialized
  /\ signer = admin
  /\ InputAccepted(input)
  /\ config' = Updated(input)
  /\ UNCHANGED <<initialized, authorityVars, is_halted, denyListVars>>

SetFillsConsumer(signer, new_consumer) ==
  /\ initialized
  /\ signer = admin
  /\ config' = [config EXCEPT !.fills_consumer = new_consumer]
  /\ UNCHANGED <<initialized, authorityVars, is_halted, denyListVars>>

-----------------------------------------------------------------------------
Denied(address) == Contains(denied_addresses, address)

\* Mutant of AddToDenyList: AlreadyExistsInDenyList is not checked.
AddToDenyListTwice(signer, address) ==
  /\ initialized
  /\ signer = deny_list_authority
  /\ Len(denied_addresses) < MAX_DENY_LIST_SIZE
  /\ update_count < MaxUpdateCount
  /\ denied_addresses' = Append(denied_addresses, address)
  /\ update_count' = update_count + 1
  /\ ruling' = [ruling EXCEPT ![address] = TRUE]
  /\ UNCHANGED <<initialized, authorityVars, is_halted, config>>

AddToDenyList(signer, address) ==
  /\ initialized
  /\ signer = deny_list_authority
  /\ ~Denied(address)
  /\ Len(denied_addresses) < MAX_DENY_LIST_SIZE
  /\ update_count < MaxUpdateCount
  /\ denied_addresses' = Append(denied_addresses, address)
  /\ update_count' = update_count + 1
  /\ ruling' = [ruling EXCEPT ![address] = TRUE]
  /\ UNCHANGED <<initialized, authorityVars, is_halted, config>>

\* The first occurrence of the address goes; AddressNotInDenyList otherwise.
RemoveFromDenyList(signer, address) ==
  /\ initialized
  /\ signer = deny_list_authority
  /\ Denied(address)
  /\ update_count < MaxUpdateCount
  /\ denied_addresses' = RemoveFirst(denied_addresses, address)
  /\ update_count' = update_count + 1
  /\ ruling' = [ruling EXCEPT ![address] = FALSE]
  /\ UNCHANGED <<initialized, authorityVars, is_halted, config>>

-----------------------------------------------------------------------------
\* The signer of these two is the upgrade authority, not the stored admin.
SetAdmin(signer, new_admin) ==
  /\ initialized
  /\ signer = UpgradeAuthority
  /\ admin' = new_admin
  /\ UNCHANGED <<initialized, deny_list_authority, is_halted, config, denyListVars>>

SetDenyListAuthority(signer, new_authority) ==
  /\ initialized
  /\ signer = UpgradeAuthority
  /\ deny_list_authority' = new_authority
  /\ UNCHANGED <<initialized, admin, is_halted, config, denyListVars>>

\* InvalidSystemState when the switch is already where it is set to.
ToggleSystemState(signer, set_to) ==
  /\ initialized
  /\ signer = admin
  /\ set_to # is_halted
  /\ is_halted' = set_to
  /\ UNCHANGED <<initialized, authorityVars, config, denyListVars>>

-----------------------------------------------------------------------------
InitializeAny ==
  \E signer \in Accounts, key \in OracleKeys, sol \in SolQuantities, age \in MaximumAges,
     coefficient \in Coefficients, max \in DiscountRates, min \in DiscountRates :
    InitializeSystem(signer, key, sol, age, coefficient, max, min)

\* The instructions after the first one.
Administer ==
  \E signer \in Accounts :
    \/ \E input \in ConfigurationInput : UpdateConfiguration(signer, input)
    \/ \E account \in Officers :
         \/ SetFillsConsumer(signer, account)
         \/ SetAdmin(signer, account)
         \/ SetDenyListAuthority(signer, account)
    \/ \E address \in Accounts :
         \/ AddToDenyList(signer, address)
         \/ RemoveFromDenyList(signer, address)
    \/ \E set_to \in BOOLEAN : ToggleSystemState(signer, set_to)

SystemNext == InitializeAny \/ Administer

SystemSpec == SystemInit /\ [][SystemNext]_systemVars

-----------------------------------------------------------------------------
(* Correctness *)

SystemTypeOK ==
  /\ initialized \in BOOLEAN
  /\ admin \in Accounts \cup {DefaultKey}
  /\ deny_list_authority \in Accounts \cup {DefaultKey}
  /\ is_halted \in BOOLEAN
  /\ config \in Configuration
  /\ denied_addresses \in Seq(Accounts)
  /\ Len(denied_addresses) <= MAX_DENY_LIST_SIZE
  /\ update_count \in Nat
  /\ ruling \in [Accounts -> BOOLEAN]

(***************************************************************************)
(* The configuration is fit for pricing whatever updates have been         *)
(* accepted: process_update checks each field that is there against a mix  *)
(* of new and stored values, and never the configuration as a whole.       *)
(***************************************************************************)
ConfigurationStaysValid ==
  initialized => ValidPricing(config) /\ config.price_maximum_age > 0

(***************************************************************************)
(* An address is in the vector exactly when its latest deny list event     *)
(* added it: one removal is enough to let a buyer trade again, and no      *)
(* other entry is lost with it.                                            *)
(***************************************************************************)
DenyListFollowsEvents == \A a \in Accounts : Denied(a) <=> ruling[a]
=============================================================================
