--------------------------- MODULE MCRegistration ---------------------------
(***************************************************************************)
(* Instances of Registration for TLC.  Two of the addresses are the same   *)
(* mailbox in different spelling, and so are two of the user names.        *)
(***************************************************************************)
EXTENDS Registration, TLC

AllEmails == {"a@x", "A@x", "b@x"}
TwoEmails == {"a@x", "b@x"}
TwoNames  == {"ann", "bob"}

SpelledEmail == [e \in Email |-> IF e = "A@x" THEN "a@x" ELSE e]
SpelledName  == [n \in Username |-> IF n = "ann " THEN "ann" ELSE n]

\* Everything fails and clients overlap; only calls and processes fail; or a
\* client waits for its answers, and a key lasts as long as its client.
Environments ==
  { [faults |-> FaultKind, overlap |-> TRUE],
    [faults |-> {"users", "timeout", "crash"}, overlap |-> TRUE],
    [faults |-> FaultKind \ {"expiry"}, overlap |-> FALSE] }

\* All failures or none.
Extremes == { [faults |-> f, overlap |-> TRUE] : f \in {FaultKind, {}} }

\* The user service fails, and the client waits.
UsersFail == { [faults |-> {"users"}, overlap |-> FALSE] }

\* Requests and keys are interchangeable.
Symmetry == Permutations(Request) \cup Permutations(Key)
=============================================================================
