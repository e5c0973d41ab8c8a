------------------------------ MODULE Accounts ------------------------------
(***************************************************************************)
(* What registering an account promises, without services, calls and keys: *)
(* an account is opened for identities nobody else has, gets a password,   *)
(* is activated, and only then confirmed to a client; an account that is   *)
(* given up was never usable.                                              *)
(***************************************************************************)
CONSTANTS Account, Identity

VARIABLES owns, account, password, told

vars == <<owns, account, password, told>>

Init ==
  /\ owns \in [Account -> SUBSET Identity]
  /\ account = [a \in Account |-> "absent"]
  /\ password = {}
  /\ told = {}

Open(a) ==
  /\ account[a] = "absent"
  /\ \A b \in Account : account[b] # "absent" => owns[a] \cap owns[b] = {}
  /\ account' = [account EXCEPT ![a] = "pending"]
  /\ UNCHANGED <<owns, password, told>>

SetPassword(a) ==
  /\ account[a] = "pending"
  /\ password' = password \cup {a}
  /\ UNCHANGED <<owns, account, told>>

Activate(a) ==
  /\ account[a] = "pending" /\ a \in password
  /\ account' = [account EXCEPT ![a] = "active"]
  /\ UNCHANGED <<owns, password, told>>

GiveUp(a) ==
  /\ account[a] = "pending"
  /\ account' = [account EXCEPT ![a] = "deleted"]
  /\ UNCHANGED <<owns, password, told>>

Confirm(a) ==
  /\ account[a] = "active"
  /\ told' = told \cup {a}
  /\ UNCHANGED <<owns, account, password>>

Next == \E a \in Account :
  Open(a) \/ SetPassword(a) \/ Activate(a) \/ GiveUp(a) \/ Confirm(a)

Spec == Init /\ [][Next]_vars
=============================================================================
