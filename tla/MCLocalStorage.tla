--------------------------- MODULE MCLocalStorage ---------------------------
(***************************************************************************)
(* TLC instance of LocalStorage: two names at the top level, one child     *)
(* each, two contents of one size, and a backup of a drive with /b/x; and  *)
(* with a third name, "a ", which is "a" once trimmed, in the place of b.  *)
(***************************************************************************)
EXTENDS LocalStorage, TLC

CONSTANTS u, v

MCPath == {<<"a">>, <<"b">>, <<"a", "x">>, <<"b", "x">>}
MCUntrimmed == MCPath \cup {<<"a ">>}
MCTrimmed == [p \in MCUntrimmed |-> IF p = <<"a ">> THEN <<"a">> ELSE p]
MCKept == [p \in MCPath |-> p]

(* The third name and the items of b are not in one drive.                 *)
TwoNames ==
  LET paths == {m.key.path : m \in Range(idMap) \cup indexFile}
  IN <<"a ">> \in paths => \A p \in paths : p[1] # "b"
MCSize == (u :> 1) @@ (v :> 1)
MCArchives == {{[id |-> 1, key |-> DirKey(<<"b">>), content |-> Dir],
                [id |-> 2, key |-> FileKey(<<"b", "x">>), content |-> c]} : c \in Content}
MCContentSymmetry == Permutations(Content)
=============================================================================
