----------------------------- MODULE MCAccounts -----------------------------
(***************************************************************************)
(* The administrator bob, two more identifiers, a name typed in two ways.  *)
(* A behaviour is of one scene: accounts change, no event is recorded and  *)
(* a request ends at once where it would record one; or events are         *)
(* recorded and cleared and one user is created.                           *)
(***************************************************************************)
EXTENDS Accounts, TLC

CONSTANTS ann, Ann, bob
VARIABLE scene

MCSpelling == {ann, Ann, bob}
MCNormalize == (ann :> ann) @@ (Ann :> ann) @@ (bob :> bob)

(* One field, or the password of an administrator who is demoted. *)
MCChanges ==
  LET demoted == [NoChange EXCEPT !.admin = {FALSE}]
  IN  {change \in Change :
         \/ Cardinality({f \in DOMAIN change : change[f] # {}}) = 1
         \/ \E p \in Password : change = [demoted EXCEPT !.password = {p}]}

CONSTANT Play   \* the scenes of the run

MCInit == Init /\ scene \in Play /\ names[bob] = {Root}

InScene ==
  IF scene = "accounts"
    THEN /\ events' = events /\ \A c \in Call : call'[c].txn.dels = {}
         /\ (\E c \in Call : call[c].pc = "audit") =>
              \E c \in Call : call[c].pc = "audit" /\ call'[c].pc = "idle"
    ELSE \A c \in Call :
           /\ call'[c].pc # "proved"
           /\ \A put \in call'[c].txn.puts :
                put.user.name = ann /\ ~put.user.admin /\ \A i \in Id \ {Root} : users[i] = {}
MCNext == Next /\ InScene /\ UNCHANGED scene
MCSpec == MCInit /\ [][MCNext]_<<vars, scene>>

Symmetric ==
  Permutations(Password) \cup Permutations(Call) \cup Permutations(Id \ {Root})
=============================================================================
