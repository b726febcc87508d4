------------------------- MODULE LocalStorageProofs -------------------------
(***************************************************************************)
(* The LocalStorage driver, whatever fails in a call or in a recovery and  *)
(* wherever it crashes: the maps in memory are those of the index, the     *)
(* drive can be opened again, no rename replaces anything, every call      *)
(* finds the transaction directory gone, and all calls together implement  *)
(* AtomicDrive.                                                            *)
(*                                                                         *)
(* The argument: what a call plans is right for the drive it starts on     *)
(* (Planned), and while it works the tree is one of those its renames lead *)
(* through (Walk).  In such a sequence the source of a rename is there     *)
(* until its turn and gone after it, so a rollback can tell what was done, *)
(* and leads back to the tree of the start.  The items change when the     *)
(* index does, and at no other step.                                       *)
(***************************************************************************)
EXTENDS LocalStorage, FiniteSetTheorems, SequenceTheorems, WellFoundedInduction, TLAPS

(***************************************************************************)
(* Natural numbers: a set that holds 0 and the successor of each of its    *)
(* members holds all.                                                      *)
(***************************************************************************)
LEMMA Successors ==
  \E R : IsWellFoundedOn(R, Nat) /\ \A n \in Nat : <<n, n + 1>> \in R
<1>1. IsWellFoundedOn(OpToRel(<, Nat), Nat)
  BY NatLessThanWellFounded
<1>2. \A n \in Nat : <<n, n + 1>> \in OpToRel(<, Nat)
  BY DEF OpToRel
<1> QED
  BY <1>1, <1>2

LEMMA Induction ==
  ASSUME NEW S \in SUBSET Nat, 0 \in S, \A n \in S : n + 1 \in S
  PROVE  S = Nat
<1> SUFFICES ASSUME Nat \ S # {} PROVE FALSE
  OBVIOUS
<1>1. PICK R : IsWellFoundedOn(R, Nat) /\ \A n \in Nat : <<n, n + 1>> \in R
  BY Successors
<1>2. PICK x \in Nat \ S : \A y \in Nat \ S : <<y, x>> \notin R
  BY <1>1, WFMin
<1>3. x # 0 /\ x - 1 \in Nat
  OBVIOUS
<1>4. <<x - 1, x>> \in R
  BY <1>3, <1>1
<1>5. x - 1 \in S
  BY <1>2, <1>3, <1>4
<1> QED
  BY <1>5, <1>2, <1>3
-----------------------------------------------------------------------------
(***************************************************************************)
(* Paths of nodes, relative to the base directory or to another node.      *)
(***************************************************************************)
Used == UNION {{p[i] : i \in DOMAIN p} : p \in Path}
Entries == {".vfs-transaction", "new", "old"}
Name == Used \cup Stray \cup Entries
Place == Seq(Name)

(* The path of q below p.                                                  *)
Rest(q, p) == SubSeq(q, Len(p) + 1, Len(q))

LEMMA At == \* the names along a path
  ASSUME NEW p \in Place
  PROVE  /\ Len(p) \in Nat /\ p = [i \in 1..Len(p) |-> p[i]]
         /\ DOMAIN p = 1..Len(p) /\ \A i \in 1..Len(p) : p[i] \in Name
         /\ p = <<>> <=> Len(p) = 0
BY DEF Place

LEMMA Same ==
  ASSUME NEW p \in Place, NEW q \in Place, Len(p) = Len(q), \A i \in 1..Len(p) : p[i] = q[i]
  PROVE  p = q
BY At

LEMMA Joined ==
  ASSUME NEW p \in Place, NEW q \in Place
  PROVE  /\ p \o q \in Place /\ Len(p \o q) = Len(p) + Len(q)
         /\ \A i \in 1..Len(p) : (p \o q)[i] = p[i]
         /\ \A i \in 1..Len(q) : (p \o q)[Len(p) + i] = q[i]
<1>1. p \o q \in Place /\ Len(p \o q) = Len(p) + Len(q)
  BY DEF Place
<1>2. \A i \in 1..Len(p) + Len(q) : (p \o q)[i] = IF i <= Len(p) THEN p[i] ELSE q[i - Len(p)]
  BY ConcatProperties DEF Place
<1> QED
  BY <1>1, <1>2, At

LEMMA Cut ==
  ASSUME NEW p \in Place, NEW m \in Nat, NEW n \in Nat, m >= 1, n <= Len(p), m <= n + 1
  PROVE  /\ SubSeq(p, m, n) \in Place /\ Len(SubSeq(p, m, n)) = n - m + 1
         /\ \A i \in 1..(n - m + 1) : SubSeq(p, m, n)[i] = p[m + i - 1]
<1>1. \A i \in m..n : p[i] \in Name
  BY At
<1> QED
  BY <1>1, SubSeqProperties DEF Place

LEMMA PrefixAt ==
  ASSUME NEW p \in Place, NEW q \in Place
  PROVE  IsPrefix(p, q) <=> Len(p) <= Len(q) /\ \A i \in 1..Len(p) : p[i] = q[i]
<1>1. Len(p) \in Nat /\ Len(q) \in Nat
  BY At
<1>2. CASE Len(p) <= Len(q)
  <2>1. /\ SubSeq(p, 1, Len(p)) \in Place /\ Len(SubSeq(p, 1, Len(p))) = Len(p)
        /\ \A i \in 1..Len(p) : SubSeq(p, 1, Len(p))[i] = p[i]
    BY <1>1, Cut
  <2>2. /\ SubSeq(q, 1, Len(p)) \in Place /\ Len(SubSeq(q, 1, Len(p))) = Len(p)
        /\ \A i \in 1..Len(p) : SubSeq(q, 1, Len(p))[i] = q[i]
    BY <1>1, <1>2, Cut
  <2> QED
    BY <1>2, <2>1, <2>2, Same DEF IsPrefix
<1> QED
  BY <1>1, <1>2 DEF IsPrefix

(* What is below p is p and a rest, and nothing else is.                   *)
LEMMA Below ==
  ASSUME NEW p \in Place, NEW q \in Place, IsPrefix(p, q)
  PROVE  Rest(q, p) \in Place /\ q = p \o Rest(q, p)
<1>1. /\ Len(p) \in Nat /\ Len(q) \in Nat /\ Len(p) <= Len(q)
      /\ \A i \in 1..Len(p) : p[i] = q[i]
  BY At, PrefixAt
<1>2. /\ Rest(q, p) \in Place /\ Len(Rest(q, p)) = Len(q) - Len(p)
      /\ \A i \in 1..(Len(q) - Len(p)) : Rest(q, p)[i] = q[Len(p) + i]
  BY <1>1, Cut DEF Rest
<1> DEFINE w == p \o Rest(q, p)
<1>3. /\ w \in Place /\ Len(w) = Len(q)
      /\ \A i \in 1..Len(p) : w[i] = p[i]
      /\ \A i \in 1..(Len(q) - Len(p)) : w[Len(p) + i] = Rest(q, p)[i]
  BY <1>1, <1>2, Joined
<1> HIDE DEF w
<1>4. ASSUME NEW i \in 1..Len(q) PROVE q[i] = w[i]
  <2>1. CASE i <= Len(p)
    BY <2>1, <1>1, <1>3
  <2>2. CASE i > Len(p)
    <3>1. i - Len(p) \in 1..(Len(q) - Len(p)) /\ Len(p) + (i - Len(p)) = i
      BY <2>2, <1>1
    <3> QED
      BY <3>1, <1>2, <1>3
  <2> QED
    BY <1>1, <2>1, <2>2
<1>5. q = w
  BY <1>3, <1>4, Same
<1> QED
  BY <1>2, <1>5 DEF w

LEMMA Beneath ==
  ASSUME NEW p \in Place, NEW r \in Place
  PROVE  p \o r \in Place /\ IsPrefix(p, p \o r) /\ Rest(p \o r, p) = r
<1> DEFINE q == p \o r
<1>1. /\ Len(p) \in Nat /\ Len(r) \in Nat /\ q \in Place /\ Len(q) = Len(p) + Len(r)
      /\ \A i \in 1..Len(p) : q[i] = p[i] /\ \A j \in 1..Len(r) : q[Len(p) + j] = r[j]
  BY Joined, At
<1>2. /\ \A i \in 1..Len(p) : q[i] = p[i]
      /\ \A i \in 1..Len(r) : q[Len(p) + i] = r[i]
  BY Joined
<1> HIDE DEF q
<1>3. IsPrefix(p, q)
  BY <1>1, <1>2, PrefixAt
<1>4. /\ Rest(q, p) \in Place /\ Len(Rest(q, p)) = Len(r)
      /\ \A i \in 1..Len(r) : Rest(q, p)[i] = q[Len(p) + i]
  BY <1>1, Cut DEF Rest
<1>5. Rest(q, p) = r
  BY <1>2, <1>4, Same
<1> QED
  BY <1>1, <1>3, <1>5 DEF q

LEMMA Associative ==
  ASSUME NEW p \in Place, NEW q \in Place, NEW r \in Place
  PROVE  (p \o q) \o r = p \o (q \o r)
BY ConcatAssociative DEF Place

LEMMA PrefixOrder ==
  ASSUME NEW p \in Place, NEW q \in Place
  PROVE  /\ IsPrefix(p, p) /\ IsPrefix(<<>>, p)
         /\ IsPrefix(p, q) /\ IsPrefix(q, p) => p = q
         /\ \A r \in Place : /\ IsPrefix(p, q) /\ IsPrefix(q, r) => IsPrefix(p, r)
                             /\ IsPrefix(p, r) /\ IsPrefix(q, r) => IsPrefix(p, q) \/ IsPrefix(q, p)
<1>1. Len(p) \in Nat /\ Len(q) \in Nat /\ <<>> \in Place /\ Len(<<>>) = 0
  BY At DEF Place
<1>2. IsPrefix(p, p) /\ IsPrefix(<<>>, p)
  BY <1>1, PrefixAt
<1>3. IsPrefix(p, q) /\ IsPrefix(q, p) => p = q
  BY <1>1, PrefixAt, Same
<1>4. ASSUME NEW r \in Place
      PROVE  /\ IsPrefix(p, q) /\ IsPrefix(q, r) => IsPrefix(p, r)
             /\ IsPrefix(p, r) /\ IsPrefix(q, r) => IsPrefix(p, q) \/ IsPrefix(q, p)
  <2>1. Len(r) \in Nat
    BY At
  <2>2. IsPrefix(p, q) /\ IsPrefix(q, r) => IsPrefix(p, r)
    BY <1>1, <2>1, PrefixAt
  <2>3. ASSUME IsPrefix(p, r), IsPrefix(q, r) PROVE IsPrefix(p, q) \/ IsPrefix(q, p)
    <3>1. /\ \A i \in 1..Len(p) : p[i] = r[i]
          /\ \A i \in 1..Len(q) : q[i] = r[i]
      BY <2>3, PrefixAt
    <3>2. CASE Len(p) <= Len(q)
      BY <1>1, <3>1, <3>2, PrefixAt
    <3>3. CASE Len(q) <= Len(p)
      BY <1>1, <3>1, <3>3, PrefixAt
    <3> QED
      BY <1>1, <3>2, <3>3
  <2> QED
    BY <2>2, <2>3
<1> QED
  BY <1>2, <1>3, <1>4

(* The directory of a path.                                                *)
LEMMA ParentAt ==
  ASSUME NEW p \in Place, p # <<>>
  PROVE  /\ ParentPath(p) \in Place /\ Len(ParentPath(p)) = Len(p) - 1
         /\ \A i \in 1..(Len(p) - 1) : ParentPath(p)[i] = p[i]
<1> DEFINE n == Len(p) - 1
<1>1. n \in Nat /\ n <= Len(p) /\ 1 <= n + 1 /\ n - 1 + 1 = n
  BY At
<1> HIDE DEF n
<1>2. /\ SubSeq(p, 1, n) \in Place /\ Len(SubSeq(p, 1, n)) = n
      /\ \A i \in 1..n : SubSeq(p, 1, n)[i] = p[1 + i - 1]
  BY <1>1, Cut
<1>3. \A i \in 1..n : 1 + i - 1 = i
  BY <1>1
<1> QED
  BY <1>2, <1>3 DEF n, ParentPath, Front

LEMMA ParentOf ==
  ASSUME NEW p \in Place, p # <<>>
  PROVE  /\ ParentPath(p) \in Place /\ Len(ParentPath(p)) = Len(p) - 1
         /\ ParentPath(p) # p /\ IsPrefix(ParentPath(p), p)
         /\ Len(p) = 1 <=> ParentPath(p) = <<>>
         /\ \A q \in Place : IsPrefix(q, p) => q = p \/ IsPrefix(q, ParentPath(p))
<1>1. Len(p) \in Nat \ {0}
  BY At
<1>2. /\ ParentPath(p) \in Place /\ Len(ParentPath(p)) = Len(p) - 1
      /\ \A i \in 1..(Len(p) - 1) : ParentPath(p)[i] = p[i]
  BY ParentAt
<1>3. IsPrefix(ParentPath(p), p)
  BY <1>1, <1>2, PrefixAt
<1>4. Len(p) = 1 <=> ParentPath(p) = <<>>
  BY <1>1, <1>2, At
<1>5. ASSUME NEW q \in Place, IsPrefix(q, p), q # p PROVE IsPrefix(q, ParentPath(p))
  <2>1. Len(q) \in Nat /\ Len(q) <= Len(p) /\ \A i \in 1..Len(q) : q[i] = p[i]
    BY <1>5, PrefixAt, At
  <2>2. Len(q) # Len(p)
    BY <1>5, <2>1, Same
  <2> QED
    BY <1>1, <1>2, <2>1, <2>2, PrefixAt
<1> QED
  BY <1>1, <1>2, <1>3, <1>4, <1>5

LEMMA ParentBeneath ==
  ASSUME NEW p \in Place, NEW r \in Place, r # <<>>
  PROVE  ParentPath(p \o r) = p \o ParentPath(r)
<1> DEFINE q == p \o r
<1>1. /\ Len(p) \in Nat /\ Len(r) \in Nat \ {0} /\ q \in Place /\ Len(q) = Len(p) + Len(r)
      /\ \A i \in 1..Len(p) : q[i] = p[i]
      /\ \A i \in 1..Len(r) : q[Len(p) + i] = r[i]
  BY Joined, At
<1> HIDE DEF q
<1>2. /\ ParentPath(r) \in Place /\ Len(ParentPath(r)) = Len(r) - 1
      /\ \A i \in 1..(Len(r) - 1) : ParentPath(r)[i] = r[i]
  BY ParentAt
<1>3. /\ ParentPath(q) \in Place /\ Len(ParentPath(q)) = Len(q) - 1
      /\ \A i \in 1..(Len(q) - 1) : ParentPath(q)[i] = q[i]
  BY <1>1, ParentAt, At
<1> DEFINE w == p \o ParentPath(r)
<1>4. /\ w \in Place /\ Len(w) = Len(p) + Len(ParentPath(r))
      /\ \A i \in 1..Len(p) : w[i] = p[i]
      /\ \A i \in 1..Len(ParentPath(r)) : w[Len(p) + i] = ParentPath(r)[i]
  BY <1>2, Joined
<1> HIDE DEF w
<1>5. ASSUME NEW i \in 1..(Len(q) - 1) PROVE ParentPath(q)[i] = w[i]
  <2>1. CASE i <= Len(p)
    BY <2>1, <1>1, <1>3, <1>4
  <2>2. CASE i > Len(p)
    <3> DEFINE j == i - Len(p)
    <3>1. j \in 1..(Len(r) - 1) /\ j \in 1..Len(r) /\ Len(p) + j = i
      BY <2>2, <1>1
    <3> HIDE DEF j
    <3>2. q[i] = r[j] /\ w[i] = ParentPath(r)[j]
      BY <3>1, <1>1, <1>2, <1>4
    <3> QED
      BY <3>1, <3>2, <1>2, <1>3
  <2> QED
    BY <1>1, <2>1, <2>2
<1>6. ParentPath(q) = w
  BY <1>1, <1>2, <1>3, <1>4, <1>5, Same
<1> QED
  BY <1>6 DEF q, w

(* The paths of the module.                                                *)
LEMMA Places ==
  /\ Path \subseteq Place /\ <<>> \in Place
  /\ TransactionDir \in Place /\ New \in Place /\ Old \in Place
  /\ TransactionDir # <<>> /\ Len(TransactionDir) = 1
  /\ ParentPath(New) = TransactionDir /\ ParentPath(Old) = TransactionDir
  /\ ~IsPrefix(New, Old) /\ ~IsPrefix(Old, New)
  /\ \A s \in Stray : <<s>> \in Place /\ Len(<<s>>) = 1 /\ ~IsPrefix(TransactionDir, <<s>>)
  /\ \A p \in Path : p # <<>> /\ ~IsPrefix(TransactionDir, p) /\ ~IsPrefix(p, TransactionDir)
                     /\ (Len(p) # 1 => ParentPath(p) \in Path)
                     /\ p[1] # "new"
<1>1. ASSUME NEW p \in Path PROVE p \in Place /\ p # <<>>
  <2>1. p \in Seq({p[i] : i \in DOMAIN p}) /\ p # <<>>
    BY PathAssumption DEF Root
  <2>2. {p[i] : i \in DOMAIN p} \subseteq Name
    BY DEF Name, Used
  <2>3. p \in Seq(Name)
    <3> DEFINE S == {p[i] : i \in DOMAIN p}
    <3> HIDE DEF S
    <3>1. p \in Seq(S) /\ S \subseteq Name
      BY <2>1, <2>2 DEF S
    <3> QED
      BY <3>1
  <2> QED
    BY <2>1, <2>3 DEF Place
<1>2. ".vfs-transaction" \in Name /\ "new" \in Name /\ "old" \in Name /\ Stray \subseteq Name
  <2>1. Entries \subseteq Name /\ Stray \subseteq Name
    BY DEF Name
  <2>2. ".vfs-transaction" \in Entries /\ "new" \in Entries /\ "old" \in Entries
    BY DEF Entries
  <2> QED
    BY <2>1, <2>2
<1>3. TransactionDir \in Place /\ Len(TransactionDir) = 1
  BY <1>2 DEF Place, TransactionDir
<1>4. /\ <<>> \in Place /\ <<"new">> \in Place /\ <<"old">> \in Place
      /\ New \in Place /\ Old \in Place
  BY <1>2, <1>3, Joined DEF Place, New, Old
<1>5. TransactionDir # <<>> /\ <<"new">> # <<>> /\ <<"old">> # <<>>
  BY <1>3
<1>6. ParentPath(New) = TransactionDir /\ ParentPath(Old) = TransactionDir
  <2>1. ASSUME NEW x \in {<<"new">>, <<"old">>} PROVE ParentPath(TransactionDir \o x) = TransactionDir
    <3>1. x \in Place /\ x # <<>> /\ Len(x) = 1
      BY <1>4
    <3>2. ParentPath(x) = <<>>
      BY <3>1, ParentOf
    <3>3. TransactionDir \o <<>> = TransactionDir
      BY <1>3 DEF Place
    <3> QED
      BY <1>3, <3>1, <3>2, <3>3, ParentBeneath
  <2> QED
    BY <2>1 DEF New, Old
<1>7. ~IsPrefix(New, Old) /\ ~IsPrefix(Old, New)
  <2>1. Len(New) = 2 /\ Len(Old) = 2 /\ New[2] = "new" /\ Old[2] = "old"
    <3>1. ASSUME NEW x \in Place, Len(x) = 1
          PROVE  Len(TransactionDir \o x) = 2 /\ (TransactionDir \o x)[2] = x[1]
      <4> DEFINE y == TransactionDir \o x
      <4>1. Len(y) = Len(TransactionDir) + Len(x) /\ \A i \in 1..Len(x) : y[Len(TransactionDir) + i] = x[i]
        BY <1>3, Joined
      <4> HIDE DEF y
      <4>2. Len(y) = 2 /\ y[2] = x[1]
        BY <4>1, <1>3, <3>1
      <4> QED
        BY <4>2 DEF y
    <3>2. Len(<<"new">>) = 1 /\ Len(<<"old">>) = 1 /\ <<"new">>[1] = "new" /\ <<"old">>[1] = "old"
      OBVIOUS
    <3> QED
      BY <3>1, <3>2, <1>4 DEF New, Old
  <2>2. "new" # "old"
    OBVIOUS
  <2>3. New[2] # Old[2]
    BY <2>1, <2>2
  <2>4. 2 \in 1..2
    OBVIOUS
  <2>5. ASSUME NEW p \in Place, NEW q \in Place, Len(p) = 2, p[2] # q[2] PROVE ~IsPrefix(p, q)
    BY <2>4, <2>5, PrefixAt
  <2> QED
    BY <1>4, <2>1, <2>3, <2>5
<1>8. ASSUME NEW s \in Stray PROVE <<s>> \in Place /\ Len(<<s>>) = 1 /\ ~IsPrefix(TransactionDir, <<s>>)
  <2>1. <<s>> \in Place /\ Len(<<s>>) = 1 /\ <<s>>[1] = s
    BY <1>2 DEF Place
  <2>2. s # TransactionDir[1]
    BY StorageAssumption
  <2> QED
    BY <1>3, <1>5, <2>1, <2>2, PrefixAt
<1>9. ASSUME NEW p \in Path
      PROVE  /\ ~IsPrefix(TransactionDir, p) /\ ~IsPrefix(p, TransactionDir)
             /\ (Len(p) # 1 => ParentPath(p) \in Path) /\ p[1] # "new"
  <2>1. p[1] # TransactionDir[1] /\ p[1] # "new"
    BY StorageAssumption
  <2>2. Len(p) \in Nat \ {0} /\ p \in Place
    BY <1>1, At
  <2>3. Len(p) = 1 \/ ParentPath(p) \in Path
    BY PathAssumption
  <2> QED
    BY <1>3, <1>5, <2>1, <2>2, <2>3, PrefixAt
<1> QED
  BY <1>1, <1>3, <1>4, <1>5, <1>6, <1>7, <1>8, <1>9
-----------------------------------------------------------------------------
(***************************************************************************)
(* Trees.  Nothing that is not in the transaction directory has the name   *)
(* of what is staged there.                                                *)
(***************************************************************************)
Spot == {p \in Place : p # <<>> /\ p[1] # "new"}

Tree(t) == /\ DOMAIN t \subseteq Spot /\ IsFiniteSet(DOMAIN t)
           /\ t = [p \in DOMAIN t |-> t[p]]
           /\ \A p \in DOMAIN t : t[p] \in Node /\ (Len(p) = 1 \/ ParentPath(p) \in DOMAIN t)

(* What may be put into a tree.                                            *)
Part(s) == /\ DOMAIN s \subseteq Place /\ IsFiniteSet(DOMAIN s)
           /\ s = [p \in DOMAIN s |-> s[p]]
           /\ \A p \in DOMAIN s : s[p] \in Node /\ (p = <<>> \/ ParentPath(p) \in DOMAIN s)

LEMMA Spots ==
  /\ Path \subseteq Spot /\ TransactionDir \in Spot /\ New \in Spot /\ Old \in Spot
  /\ \A s \in Stray : <<s>> \in Spot
  /\ \A p \in Spot : p \in Place /\ p # <<>>
  /\ \A p \in Spot, r \in Place : p \o r \in Spot
<1>1. ASSUME NEW p \in Spot, NEW r \in Place PROVE p \o r \in Spot
  <2> DEFINE q == p \o r
  <2>1. p \in Place /\ p # <<>> /\ p[1] # "new" /\ Len(p) \in Nat /\ Len(p) # 0
    BY At DEF Spot
  <2>2. q \in Place /\ Len(q) = Len(p) + Len(r) /\ Len(r) \in Nat /\ \A i \in 1..Len(p) : q[i] = p[i]
    BY <2>1, Joined, At
  <2> HIDE DEF q
  <2>3. q[1] = p[1] /\ Len(q) # 0
    BY <2>1, <2>2
  <2>4. q # <<>>
    BY <2>2, <2>3, At
  <2>5. q \in Spot
    BY <2>1, <2>2, <2>3, <2>4 DEF Spot
  <2> QED
    BY <2>5 DEF q
<1>2. TransactionDir \in Spot
  <2>1. TransactionDir[1] # "new"
    BY DEF TransactionDir
  <2> QED
    BY <2>1, Places DEF Spot
<1>3. New \in Spot /\ Old \in Spot
  <2>1. <<"new">> \in Place /\ <<"old">> \in Place
    <3>1. "new" \in Name /\ "old" \in Name
      BY DEF Name, Entries
    <3> QED
      BY <3>1 DEF Place
  <2> QED
    BY <1>1, <1>2, <2>1 DEF New, Old
<1>4. Path \subseteq Spot
  BY Places DEF Spot
<1>5. ASSUME NEW s \in Stray PROVE <<s>> \in Spot
  <2>1. <<s>>[1] = s /\ <<s>> # <<>>
    OBVIOUS
  <2>2. s # "new"
    BY StorageAssumption
  <2> QED
    BY <2>1, <2>2, Places DEF Spot
<1> QED
  BY <1>1, <1>2, <1>3, <1>4, <1>5 DEF Spot

(* What is in a tree has all its directories there.                        *)
LEMMA Closed ==
  ASSUME NEW t, Tree(t), NEW q \in DOMAIN t, NEW p \in Place, p # <<>>, IsPrefix(p, q)
  PROVE  p \in DOMAIN t
<1> DEFINE S == {n \in Nat : \A r \in DOMAIN t : Len(r) = Len(p) + n /\ IsPrefix(p, r) => p \in DOMAIN t}
<1>1. DOMAIN t \subseteq Place
  BY DEF Tree, Spot
<1>2. 0 \in S
  <2> SUFFICES ASSUME NEW r \in DOMAIN t, Len(r) = Len(p) + 0, IsPrefix(p, r) PROVE p \in DOMAIN t
    OBVIOUS
  <2>1. p = r
    BY <1>1, At, PrefixAt, Same
  <2> QED
    BY <2>1
<1>3. ASSUME NEW n \in S PROVE n + 1 \in S
  <2>1. SUFFICES ASSUME NEW r \in DOMAIN t, Len(r) = Len(p) + (n + 1), IsPrefix(p, r) PROVE p \in DOMAIN t
    OBVIOUS
  <2>2. r \in Place /\ Len(p) \in Nat \ {0} /\ Len(r) # 1 /\ r # <<>> /\ p # r
    BY <2>1, <1>1, At
  <2>3. ParentPath(r) \in DOMAIN t /\ Len(ParentPath(r)) = Len(p) + n /\ IsPrefix(p, ParentPath(r))
    BY <2>1, <2>2, ParentOf DEF Tree
  <2> QED
    BY <2>3
<1>4. S = Nat
  <2> HIDE DEF S
  <2>1. S \in SUBSET Nat
    BY DEF S
  <2> QED
    BY <1>2, <1>3, <2>1, Induction
<1>5. Len(q) - Len(p) \in Nat /\ Len(q) = Len(p) + (Len(q) - Len(p))
  BY <1>1, At, PrefixAt
<1> QED
  BY <1>4, <1>5

LEMMA FiniteImage == \* the image of a finite set under a function
  ASSUME NEW f, IsFiniteSet(DOMAIN f), f = [x \in DOMAIN f |-> f[x]]
  PROVE  IsFiniteSet({f[x] : x \in DOMAIN f})
<1> DEFINE T == {f[x] : x \in DOMAIN f}
<1>1. f \in Surjection(DOMAIN f, T)
  BY DEF Surjection
<1> QED
  BY <1>1, FS_Surjection

(* Put into a free place of a tree, that has its directory.                *)
LEMMA Putting ==
  ASSUME NEW t, Tree(t), NEW s, Part(s), NEW p \in Spot, p \notin DOMAIN t,
         Len(p) = 1 \/ ParentPath(p) \in DOMAIN t
  PROVE  /\ Tree(Put(t, p, s))
         /\ \A q \in Place : ~IsPrefix(p, q) =>
              /\ q \in DOMAIN Put(t, p, s) <=> q \in DOMAIN t
              /\ q \in DOMAIN t => Put(t, p, s)[q] = t[q]
         /\ \A r \in Place : /\ p \o r \in DOMAIN Put(t, p, s) <=> r \in DOMAIN s
                             /\ r \in DOMAIN s => Put(t, p, s)[p \o r] = s[r]
<1> DEFINE D == {p \o r : r \in DOMAIN s}
           u == Put(t, p, s)
           V(q) == IF IsPrefix(p, q) /\ Rest(q, p) \in DOMAIN s THEN s[Rest(q, p)] ELSE t[q]
<1>1. DOMAIN s \subseteq Place /\ DOMAIN t \subseteq Place /\ p \in Place /\ p # <<>>
  BY Spots DEF Tree, Part
<1>2. u = [q \in DOMAIN t \cup D |-> V(q)]
  BY DEF Put, Rest
<1>3. DOMAIN u = DOMAIN t \cup D /\ \A q \in DOMAIN t \cup D : u[q] = V(q)
  BY <1>2
<1> HIDE DEF u
<1>4. ASSUME NEW r \in Place
      PROVE  /\ p \o r \in Spot /\ p \o r \in Place /\ IsPrefix(p, p \o r) /\ Rest(p \o r, p) = r
             /\ p \o r \notin DOMAIN t
  BY <1>1, Beneath, Spots, Closed
<1>5. ASSUME NEW q \in D
      PROVE  q \in Spot /\ IsPrefix(p, q) /\ Rest(q, p) \in DOMAIN s /\ q = p \o Rest(q, p) /\ q \notin DOMAIN t
  BY <1>1, <1>4
<1>6. ASSUME NEW q \in Place, ~IsPrefix(p, q)
      PROVE  (q \in DOMAIN u <=> q \in DOMAIN t) /\ (q \in DOMAIN t => u[q] = t[q])
  BY <1>3, <1>5, <1>6
<1>7. ASSUME NEW r \in Place
      PROVE  (p \o r \in DOMAIN u <=> r \in DOMAIN s) /\ (r \in DOMAIN s => u[p \o r] = s[r])
  <2> DEFINE q == p \o r
  <2>1. IsPrefix(p, q) /\ Rest(q, p) = r /\ q \notin DOMAIN t
    BY <1>4
  <2>2. r \in DOMAIN s => q \in D
    OBVIOUS
  <2>3. q \in D => Rest(q, p) \in DOMAIN s
    BY <1>5
  <2> HIDE DEF q, D
  <2>4. (q \in DOMAIN u <=> r \in DOMAIN s) /\ (r \in DOMAIN s => u[q] = s[r])
    BY <1>3, <2>1, <2>2, <2>3
  <2> QED
    BY <2>4 DEF q
<1>8. Tree(u)
  <2>1. DOMAIN u \subseteq Spot
    BY <1>3, <1>5 DEF Tree
  <2>2. IsFiniteSet(DOMAIN u)
    <3> DEFINE f == [r \in DOMAIN s |-> p \o r]
    <3>1. DOMAIN f = DOMAIN s /\ D = {f[r] : r \in DOMAIN f}
      OBVIOUS
    <3>2. IsFiniteSet(D)
      <4> HIDE DEF D
      <4>1. f = [r \in DOMAIN f |-> f[r]]
        OBVIOUS
      <4> QED
        BY <3>1, <4>1, FiniteImage DEF Part
    <3> HIDE DEF D
    <3>3. IsFiniteSet(DOMAIN t)
      BY DEF Tree
    <3>4. IsFiniteSet(DOMAIN t \cup D)
      BY <3>2, <3>3, FS_Union
    <3> QED
      BY <3>4, <1>3
  <2>3. u = [q \in DOMAIN u |-> u[q]]
    <3> HIDE DEF D, V
    <3>1. u = [q \in DOMAIN u |-> V(q)]
      BY <1>2, <1>3
    <3> QED
      BY <3>1, <1>3
  <2>4. ASSUME NEW q \in DOMAIN u PROVE u[q] \in Node /\ (Len(q) = 1 \/ ParentPath(q) \in DOMAIN u)
    <3>1. CASE q \in DOMAIN t
      <4>1. t[q] \in Node /\ (Len(q) = 1 \/ ParentPath(q) \in DOMAIN t)
        BY <3>1 DEF Tree
      <4>2. ~IsPrefix(p, q)
        BY <3>1, <1>1, Closed
      <4> QED
        BY <3>1, <1>1, <1>3, <1>6, <4>1, <4>2
    <3>2. CASE q \in D
      <4>1. PICK r \in DOMAIN s : q = p \o r
        BY <3>2
      <4>2. u[q] = s[r] /\ s[r] \in Node
        BY <1>1, <1>7, <4>1 DEF Part
      <4>3. CASE r = <<>>
        <5>1. q = p
          BY <4>1, <4>3, <1>1 DEF Place
        <5> QED
          BY <4>2, <5>1, <1>3
      <4>4. CASE r # <<>>
        <5>1. ParentPath(r) \in DOMAIN s /\ ParentPath(q) = p \o ParentPath(r)
          BY <4>1, <4>4, <1>1, ParentBeneath DEF Part
        <5>2. ParentPath(q) \in DOMAIN u
          BY <5>1, <1>7, <1>1
        <5> QED
          BY <4>2, <5>2
      <4> QED
        BY <4>3, <4>4
    <3> QED
      BY <1>3, <3>1, <3>2
  <2> QED
    BY <2>1, <2>2, <2>3, <2>4 DEF Tree
<1> QED
  BY <1>6, <1>7, <1>8 DEF u

(* RemoveAll takes a place and all below it.                               *)
LEMMA Removing ==
  ASSUME NEW t, Tree(t), NEW p \in Place
  PROVE  /\ Tree(RemoveAll(t, p))
         /\ DOMAIN RemoveAll(t, p) = {q \in DOMAIN t : ~IsPrefix(p, q)}
         /\ \A q \in DOMAIN RemoveAll(t, p) : RemoveAll(t, p)[q] = t[q]
<1> DEFINE D == {q \in DOMAIN t : ~IsPrefix(p, q)}
           u == RemoveAll(t, p)
<1>1. DOMAIN t \subseteq Spot /\ DOMAIN t \subseteq Place /\ \A q \in Spot : q # <<>>
  BY Spots DEF Tree
<1>2. u = [q \in D |-> t[q]]
  <2>1. DOMAIN t \ Inside(t, p) = D
    BY DEF Inside
  <2> QED
    BY <2>1 DEF RemoveAll, Restrict
<1>3. DOMAIN u = D /\ \A q \in D : u[q] = t[q]
  BY <1>2
<1>4. u = [q \in DOMAIN u |-> u[q]]
  BY <1>2
<1> HIDE DEF u
<1>5. IsFiniteSet(DOMAIN u)
  <2>1. D \in SUBSET DOMAIN t
    OBVIOUS
  <2> HIDE DEF D
  <2> QED
    BY <1>3, <2>1, FS_Subset DEF Tree
<1>6. ASSUME NEW q \in DOMAIN u PROVE u[q] \in Node /\ (Len(q) = 1 \/ ParentPath(q) \in DOMAIN u)
  <2>1. q \in DOMAIN t /\ ~IsPrefix(p, q) /\ u[q] = t[q]
    BY <1>3
  <2>2. u[q] \in Node /\ (Len(q) = 1 \/ ParentPath(q) \in DOMAIN t)
    BY <2>1 DEF Tree
  <2>3. IsPrefix(ParentPath(q), q) /\ ParentPath(q) \in Place /\ q \in Place
    BY <1>1, <2>1, ParentOf
  <2>4. ~IsPrefix(p, ParentPath(q))
    BY <2>1, <2>3, PrefixOrder
  <2> QED
    BY <1>3, <2>2, <2>4
<1> QED
  BY <1>1, <1>3, <1>4, <1>5, <1>6 DEF Tree, u

LEMMA TakingOut ==
  ASSUME NEW t, Tree(t), NEW p \in DOMAIN t
  PROVE  /\ Part(SubtreeAt(t, p)) /\ <<>> \in DOMAIN SubtreeAt(t, p)
         /\ \A r \in Place : /\ r \in DOMAIN SubtreeAt(t, p) <=> p \o r \in DOMAIN t
                             /\ p \o r \in DOMAIN t => SubtreeAt(t, p)[r] = t[p \o r]
<1> DEFINE s == SubtreeAt(t, p)
           I == {q \in DOMAIN t : IsPrefix(p, q)}
<1>1. DOMAIN t \subseteq Place /\ p \in Place /\ p # <<>>
  BY Spots DEF Tree
<1>2. I = Inside(t, p)
  BY DEF Inside
<1>3. s = [r \in {Rest(q, p) : q \in I} |-> t[p \o r]]
  BY <1>2 DEF SubtreeAt, Rest
<1>4. DOMAIN s = {Rest(q, p) : q \in I} /\ \A r \in DOMAIN s : s[r] = t[p \o r]
  BY <1>3
<1>5. ASSUME NEW q \in I PROVE Rest(q, p) \in Place /\ q = p \o Rest(q, p) /\ q \in DOMAIN t
  BY <1>1, Below
<1>6. ASSUME NEW r \in Place PROVE r \in DOMAIN s <=> p \o r \in DOMAIN t
  <2>1. p \o r \in Place /\ IsPrefix(p, p \o r) /\ Rest(p \o r, p) = r
    BY <1>1, Beneath
  <2>2. p \o r \in DOMAIN t => p \o r \in I
    BY <2>1
  <2>3. p \o r \in I => r \in DOMAIN s
    <3> HIDE DEF s, I
    <3> QED
      BY <2>1, <1>4
  <2>4. ASSUME r \in DOMAIN s PROVE p \o r \in DOMAIN t
    <3>1. PICK q \in I : r = Rest(q, p)
      BY <2>4, <1>4
    <3> QED
      BY <3>1, <1>5
  <2> QED
    BY <2>2, <2>3, <2>4
<1>7. s = [r \in DOMAIN s |-> s[r]]
  BY <1>3
<1>8. IsFiniteSet(DOMAIN s)
  <2> DEFINE f == [q \in I |-> Rest(q, p)]
  <2>1. IsFiniteSet(I)
    <3>1. I \in SUBSET DOMAIN t
      OBVIOUS
    <3> HIDE DEF I
    <3> QED
      BY <3>1, FS_Subset DEF Tree
  <2>2. DOMAIN f = I /\ f = [q \in DOMAIN f |-> f[q]] /\ {f[q] : q \in DOMAIN f} = DOMAIN s
    BY <1>4
  <2> HIDE DEF f, I, s
  <2> QED
    BY <2>1, <2>2, FiniteImage
<1> HIDE DEF s
<1>9. DOMAIN s \subseteq Place
  BY <1>4, <1>5
<1>10. <<>> \in DOMAIN s
  <2>1. p \o <<>> = p
    BY <1>1 DEF Place
  <2> QED
    BY <2>1, <1>6, Places
<1>11. ASSUME NEW r \in DOMAIN s PROVE s[r] \in Node /\ (r = <<>> \/ ParentPath(r) \in DOMAIN s)
  <2>1. p \o r \in DOMAIN t /\ r \in Place
    BY <1>6, <1>9
  <2>2. s[r] \in Node
    BY <1>4, <2>1 DEF Tree
  <2>3. ASSUME r # <<>> PROVE ParentPath(r) \in DOMAIN s
    <3>1. ParentPath(r) \in Place /\ ParentPath(p \o r) = p \o ParentPath(r)
      BY <2>1, <2>3, <1>1, ParentOf, ParentBeneath
    <3>2. Len(p \o r) # 1
      <4> DEFINE n == Len(p \o r)
      <4>1. Len(p) \in Nat \ {0} /\ Len(r) \in Nat \ {0} /\ n = Len(p) + Len(r)
        BY <2>1, <2>3, <1>1, At, Joined
      <4> HIDE DEF n
      <4>2. n # 1
        BY <4>1
      <4> QED
        BY <4>2 DEF n
    <3>3. ParentPath(p \o r) \in DOMAIN t
      BY <2>1, <3>2 DEF Tree
    <3> QED
      BY <3>1, <3>3, <1>6
  <2> QED
    BY <2>2, <2>3
<1>12. Part(s)
  BY <1>7, <1>8, <1>9, <1>11 DEF Part
<1> QED
  BY <1>4, <1>6, <1>10, <1>12 DEF s

(***************************************************************************)
(* Renames.                                                                *)
(***************************************************************************)
CanMove(t, m) ==
  /\ m.from \in DOMAIN t /\ m.to \in Spot /\ m.to \notin DOMAIN t /\ ~IsPrefix(m.from, m.to)
  /\ Len(m.to) = 1 \/ ParentPath(m.to) \in DOMAIN t

(* u is t with what was at or below one place at or below another one.     *)
Relocated(t, u, from, to) ==
  /\ \A q \in Place : ~IsPrefix(from, q) /\ ~IsPrefix(to, q) =>
       /\ q \in DOMAIN u <=> q \in DOMAIN t
       /\ q \in DOMAIN t => u[q] = t[q]
  /\ \A q \in Place : IsPrefix(from, q) => q \notin DOMAIN u
  /\ \A r \in Place : /\ to \o r \in DOMAIN u <=> from \o r \in DOMAIN t
                      /\ from \o r \in DOMAIN t => u[to \o r] = t[from \o r]

LEMMA Renamed ==
  ASSUME NEW t, Tree(t), NEW m, CanMove(t, m)
  PROVE  /\ Tree(Rename(t, m.from, m.to))
         /\ Relocated(t, Rename(t, m.from, m.to), m.from, m.to)
         /\ CanRename(t, m.from, m.to)
<1> DEFINE from == m.from
           to == m.to
           s == SubtreeAt(t, from)
           v == RemoveAll(t, from)
           u == Rename(t, from, to)
<1>1. /\ DOMAIN t \subseteq Place /\ from \in Place /\ from # <<>> /\ to \in Place /\ to # <<>>
      /\ from \in DOMAIN t /\ to \notin DOMAIN t /\ ~IsPrefix(from, to)
      /\ Len(to) = 1 \/ ParentPath(to) \in DOMAIN t
  BY Spots DEF Tree, CanMove
<1>2. ~IsPrefix(to, from)
  BY <1>1, Closed
<1>3. /\ Part(s) /\ <<>> \in DOMAIN s
      /\ \A r \in Place : (r \in DOMAIN s <=> from \o r \in DOMAIN t) /\ (from \o r \in DOMAIN t => s[r] = t[from \o r])
  BY <1>1, TakingOut
<1>4. RemoveAll(t, to) = t
  <2>1. Inside(t, to) = {}
    BY <1>1, Closed DEF Inside
  <2>2. RemoveAll(t, to) = [q \in DOMAIN t |-> t[q]]
    BY <2>1 DEF RemoveAll, Restrict
  <2> QED
    BY <2>2 DEF Tree
<1>5. /\ Tree(v) /\ DOMAIN v = {q \in DOMAIN t : ~IsPrefix(from, q)}
      /\ \A q \in DOMAIN v : v[q] = t[q]
  BY <1>1, Removing
<1>6. u = Put(v, to, s)
  BY <1>4 DEF Rename
<1> HIDE DEF u, v, s
<1>7. to \in Spot /\ to \notin DOMAIN v /\ (Len(to) = 1 \/ ParentPath(to) \in DOMAIN v)
  <2>1. ASSUME ParentPath(to) \in DOMAIN t PROVE ParentPath(to) \in DOMAIN v
    <3>1. IsPrefix(ParentPath(to), to) /\ ParentPath(to) \in Place
      BY <1>1, ParentOf
    <3>2. ~IsPrefix(from, ParentPath(to))
      BY <1>1, <3>1, PrefixOrder
    <3> QED
      BY <2>1, <3>2, <1>5
  <2> QED
    BY <1>1, <1>5, <2>1 DEF CanMove
<1>8. /\ Tree(u)
      /\ \A q \in Place : ~IsPrefix(to, q) =>
              /\ q \in DOMAIN u <=> q \in DOMAIN v
              /\ q \in DOMAIN v => u[q] = v[q]
      /\ \A r \in Place : /\ to \o r \in DOMAIN u <=> r \in DOMAIN s
                          /\ r \in DOMAIN s => u[to \o r] = s[r]
  BY <1>3, <1>5, <1>6, <1>7, Putting
<1>9. Relocated(t, u, from, to)
  <2>1. ASSUME NEW q \in Place, ~IsPrefix(from, q), ~IsPrefix(to, q)
        PROVE  (q \in DOMAIN u <=> q \in DOMAIN t) /\ (q \in DOMAIN t => u[q] = t[q])
    BY <2>1, <1>5, <1>8
  <2>2. ASSUME NEW q \in Place, IsPrefix(from, q) PROVE q \notin DOMAIN u
    <3>1. ~IsPrefix(to, q)
      BY <2>2, <1>1, <1>2, PrefixOrder
    <3> QED
      BY <2>2, <3>1, <1>5, <1>8
  <2>3. ASSUME NEW r \in Place
        PROVE  /\ to \o r \in DOMAIN u <=> from \o r \in DOMAIN t
               /\ from \o r \in DOMAIN t => u[to \o r] = t[from \o r]
    BY <1>3, <1>8
  <2> QED
    BY <2>1, <2>2, <2>3 DEF Relocated
<1>10. CanRename(t, from, to)
  BY <1>1 DEF CanRename
<1> QED
  BY <1>8, <1>9, <1>10 DEF u

(* Two trees that have the same nodes are the same.                        *)
LEMMA SameTree ==
  ASSUME NEW t, NEW u, Tree(t), Tree(u),
         \A q \in Place : (q \in DOMAIN u <=> q \in DOMAIN t) /\ (q \in DOMAIN t => u[q] = t[q])
  PROVE  u = t
<1>1. DOMAIN t \subseteq Place /\ DOMAIN u \subseteq Place
  BY Spots DEF Tree
<1>2. DOMAIN u = DOMAIN t
  BY <1>1
<1>3. t = [q \in DOMAIN t |-> t[q]] /\ u = [q \in DOMAIN u |-> u[q]]
  BY DEF Tree
<1>4. \A q \in DOMAIN t : u[q] = t[q]
  BY <1>1
<1> QED
  BY <1>2, <1>3, <1>4

(* The rename back is possible and undoes the rename.                      *)
LEMMA RenamedBack ==
  ASSUME NEW t, Tree(t), NEW m, CanMove(t, m)
  PROVE  /\ m.to \in DOMAIN Rename(t, m.from, m.to) /\ m.from \notin DOMAIN Rename(t, m.from, m.to)
         /\ CanRename(Rename(t, m.from, m.to), m.to, m.from)
         /\ Rename(Rename(t, m.from, m.to), m.to, m.from) = t
<1> DEFINE from == m.from
           to == m.to
           u == Rename(t, from, to)
           back == Renaming(to, from)
<1>1. /\ DOMAIN t \subseteq Place /\ DOMAIN t \subseteq Spot /\ from \in Place /\ from # <<>> /\ to \in Place /\ to # <<>>
      /\ from \in DOMAIN t /\ to \notin DOMAIN t /\ ~IsPrefix(from, to)
  BY Spots DEF Tree, CanMove
<1>2. ~IsPrefix(to, from)
  BY <1>1, Closed
<1>3. Tree(u) /\ Relocated(t, u, from, to)
  BY Renamed
<1> HIDE DEF u
<1>4. to \in DOMAIN u /\ from \notin DOMAIN u
  <2>1. to \o <<>> = to /\ from \o <<>> = from
    BY <1>1 DEF Place
  <2>2. IsPrefix(from, from) /\ <<>> \in Place
    BY <1>1, PrefixOrder, Places
  <2> QED
    BY <1>1, <1>3, <2>1, <2>2 DEF Relocated
<1>5. Len(from) = 1 \/ ParentPath(from) \in DOMAIN u
  <2> SUFFICES ASSUME Len(from) # 1 PROVE ParentPath(from) \in DOMAIN u
    OBVIOUS
  <2>1. ParentPath(from) \in DOMAIN t /\ ParentPath(from) \in Place /\ IsPrefix(ParentPath(from), from) /\ ParentPath(from) # from
    BY <1>1, ParentOf DEF Tree
  <2>2. ~IsPrefix(from, ParentPath(from))
    BY <2>1, <1>1, PrefixOrder
  <2>3. ~IsPrefix(to, ParentPath(from))
    BY <2>1, <1>1, <1>2, PrefixOrder
  <2> QED
    BY <2>1, <2>2, <2>3, <1>3 DEF Relocated
<1>6. back.from = to /\ back.to = from
  BY DEF Renaming
<1>7. CanMove(u, back)
  BY <1>1, <1>2, <1>4, <1>5, <1>6 DEF CanMove
<1> DEFINE w == Rename(u, to, from)
<1>8. Tree(w) /\ Relocated(u, w, to, from) /\ CanRename(u, to, from)
  BY <1>3, <1>6, <1>7, Renamed
<1> HIDE DEF w
<1>9. ASSUME NEW q \in Place
      PROVE  (q \in DOMAIN w <=> q \in DOMAIN t) /\ (q \in DOMAIN t => w[q] = t[q])
  <2>1. CASE IsPrefix(from, q)
    <3>1. Rest(q, from) \in Place /\ q = from \o Rest(q, from)
      BY <2>1, <1>1, Below
    <3> DEFINE r == Rest(q, from)
               x == to \o r
    <3> HIDE DEF r
    <3>2. r \in Place /\ q = from \o r
      BY <3>1 DEF r
    <3>3. /\ from \o r \in DOMAIN w <=> x \in DOMAIN u
          /\ x \in DOMAIN u => w[from \o r] = u[x]
      BY <1>8, <3>2 DEF Relocated
    <3>4. /\ x \in DOMAIN u <=> from \o r \in DOMAIN t
          /\ from \o r \in DOMAIN t => u[x] = t[from \o r]
      BY <1>3, <3>2 DEF Relocated
    <3> HIDE DEF x
    <3> QED
      BY <3>2, <3>3, <3>4
  <2>2. CASE ~IsPrefix(from, q) /\ IsPrefix(to, q)
    <3>1. q \notin DOMAIN t
      BY <2>2, <1>1, Closed
    <3> QED
      BY <3>1, <2>2, <1>8 DEF Relocated
  <2>3. CASE ~IsPrefix(from, q) /\ ~IsPrefix(to, q)
    BY <2>3, <1>3, <1>8 DEF Relocated
  <2> QED
    BY <2>1, <2>2, <2>3
<1>10. w = t
  BY <1>8, <1>9, SameTree
<1> QED
  BY <1>4, <1>8, <1>10 DEF u, w
-----------------------------------------------------------------------------
(***************************************************************************)
(* The renames of a transaction.  f[k] is the tree after the first k of    *)
(* them: each is possible, none replaces anything, and the source of each  *)
(* is there until its turn, which is how a rollback tells whether it was.  *)
(***************************************************************************)
Step == [from: Spot, to: Spot]

Walk(f, moves, n) ==
  /\ moves \in Seq(Step) /\ n \in 0..Len(moves)
  /\ \A k \in 0..n : Tree(f[k])
  /\ \A k \in 1..n : /\ CanMove(f[k - 1], moves[k])
                     /\ f[k] = Rename(f[k - 1], moves[k].from, moves[k].to)
  /\ \A j \in 1..n, k \in 0..n : k < j => moves[j].from \in DOMAIN f[k]

LEMMA NoWalk ==
  ASSUME NEW t, Tree(t), NEW moves \in Seq(Step)
  PROVE  \E f : Walk(f, moves, 0) /\ f[0] = t
<1> DEFINE f == [k \in {0} |-> t]
<1>1. f[0] = t
  OBVIOUS
<1> HIDE DEF f
<1>2. Walk(f, moves, 0)
  BY <1>1 DEF Walk
<1> QED
  BY <1>1, <1>2

LEMMA Walked ==
  ASSUME NEW f, NEW moves, NEW n, Walk(f, moves, n), n < Len(moves),
         CanMove(f[n], moves[n + 1]), \A k \in 0..n : moves[n + 1].from \in DOMAIN f[k]
  PROVE  \E g : /\ Walk(g, moves, n + 1) /\ \A k \in 0..n : g[k] = f[k]
                /\ g[n + 1] = Rename(f[n], moves[n + 1].from, moves[n + 1].to)
<1> DEFINE last == Rename(f[n], moves[n + 1].from, moves[n + 1].to)
           g == [k \in 0..(n + 1) |-> IF k = n + 1 THEN last ELSE f[k]]
<1>1. n \in Nat /\ Len(moves) \in Nat /\ n + 1 \in 0..Len(moves) /\ moves \in Seq(Step)
  BY DEF Walk
<1>2. g[n + 1] = last /\ \A k \in 0..n : g[k] = f[k]
  BY <1>1
<1>3. Tree(last)
  BY <1>1, Renamed DEF Walk
<1> HIDE DEF g, last
<1>4. \A k \in 0..(n + 1) : Tree(g[k])
  BY <1>1, <1>2, <1>3 DEF Walk
<1>5. ASSUME NEW k \in 1..(n + 1)
      PROVE  CanMove(g[k - 1], moves[k]) /\ g[k] = Rename(g[k - 1], moves[k].from, moves[k].to)
  <2>1. CASE k = n + 1
    <3>1. k - 1 = n /\ g[k - 1] = f[n]
      BY <2>1, <1>1, <1>2
    <3> QED
      BY <2>1, <3>1, <1>2 DEF last
  <2>2. CASE k # n + 1
    <3>1. k \in 1..n /\ k \in 0..n /\ k - 1 \in 0..n
      BY <2>2, <1>1
    <3> QED
      BY <3>1, <1>2 DEF Walk
  <2> QED
    BY <2>1, <2>2
<1>6. ASSUME NEW j \in 1..(n + 1), NEW k \in 0..(n + 1), k < j PROVE moves[j].from \in DOMAIN g[k]
  <2>1. k \in 0..n /\ g[k] = f[k]
    BY <1>1, <1>2, <1>6
  <2>2. CASE j = n + 1
    BY <2>1, <2>2
  <2>3. CASE j # n + 1
    <3>1. j \in 1..n
      BY <2>3, <1>1
    <3> QED
      BY <3>1, <2>1, <1>6 DEF Walk
  <2> QED
    BY <2>2, <2>3
<1>7. Walk(g, moves, n + 1)
  BY <1>1, <1>4, <1>5, <1>6 DEF Walk
<1> QED
  BY <1>2, <1>7 DEF last

(* One and two renames.                                                    *)
LEMMA OneStep ==
  ASSUME NEW t, Tree(t), NEW moves \in Seq(Step), Len(moves) = 1, CanMove(t, moves[1])
  PROVE  \E f : Walk(f, moves, 1) /\ f[0] = t /\ f[1] = Rename(t, moves[1].from, moves[1].to)
<1>1. PICK f : Walk(f, moves, 0) /\ f[0] = t
  BY NoWalk
<1>2. 0 < Len(moves) /\ 0 + 1 = 1 /\ 0 \in 0..0 /\ \A k \in 0..0 : k = 0
  OBVIOUS
<1>3. moves[1].from \in DOMAIN t
  BY DEF CanMove
<1>4. PICK g : /\ Walk(g, moves, 0 + 1) /\ \A k \in 0..0 : g[k] = f[k]
               /\ g[0 + 1] = Rename(f[0], moves[0 + 1].from, moves[0 + 1].to)
  BY <1>1, <1>2, <1>3, Walked
<1> QED
  BY <1>1, <1>2, <1>4

LEMMA TwoSteps ==
  ASSUME NEW t, Tree(t), NEW moves \in Seq(Step), Len(moves) = 2, CanMove(t, moves[1]),
         CanMove(Rename(t, moves[1].from, moves[1].to), moves[2]), moves[2].from \in DOMAIN t
  PROVE  \E f : /\ Walk(f, moves, 2) /\ f[0] = t
                /\ f[2] = Rename(Rename(t, moves[1].from, moves[1].to), moves[2].from, moves[2].to)
<1> DEFINE u == Rename(t, moves[1].from, moves[1].to)
<1> HIDE DEF u
<1>1. PICK f : Walk(f, moves, 0) /\ f[0] = t
  BY NoWalk
<1>2. /\ 0 < Len(moves) /\ 0 + 1 = 1 /\ 0 \in 0..0 /\ \A k \in 0..0 : k = 0
      /\ 1 < Len(moves) /\ 1 + 1 = 2 /\ 1 \in 0..1 /\ \A k \in 0..1 : k = 0 \/ k = 1
  OBVIOUS
<1>3. moves[1].from \in DOMAIN t
  BY DEF CanMove
<1>4. PICK g : /\ Walk(g, moves, 0 + 1) /\ \A k \in 0..0 : g[k] = f[k]
               /\ g[0 + 1] = Rename(f[0], moves[0 + 1].from, moves[0 + 1].to)
  BY <1>1, <1>2, <1>3, Walked
<1>5. Walk(g, moves, 1) /\ g[0] = t /\ g[1] = u
  BY <1>1, <1>2, <1>4 DEF u
<1>6. CanMove(u, moves[2]) /\ moves[2].from \in DOMAIN u
  BY DEF u, CanMove
<1>7. PICK h : /\ Walk(h, moves, 1 + 1) /\ \A k \in 0..1 : h[k] = g[k]
               /\ h[1 + 1] = Rename(g[1], moves[1 + 1].from, moves[1 + 1].to)
  BY <1>2, <1>5, <1>6, Walked
<1>8. h[0] = g[0] /\ 0 \in 0..1
  BY <1>7
<1> QED
  BY <1>2, <1>5, <1>7, <1>8 DEF u

(* What a rollback does at each rename: undo it or, when it was not done,  *)
(* nothing; and it can.                                                    *)
LEMMA Rollback ==
  ASSUME NEW f, NEW moves, Walk(f, moves, Len(moves)),
         NEW j \in 1..Len(moves), NEW k \in 0..j
  PROVE  /\ CanUndo(moves[j], f[k])
         /\ UndoIfDone(moves[j], f[k]) = f[IF k = j THEN j - 1 ELSE k]
<1>1. Len(moves) \in Nat /\ j \in Nat /\ k \in 0..Len(moves)
  BY DEF Walk
<1>2. CASE k = j
  <2>1. k \in 1..Len(moves) /\ j - 1 \in 0..Len(moves)
    BY <1>1, <1>2
  <2>2. Tree(f[j - 1]) /\ CanMove(f[j - 1], moves[j]) /\ f[j] = Rename(f[j - 1], moves[j].from, moves[j].to)
    BY <2>1, <1>1 DEF Walk
  <2>3. /\ moves[j].to \in DOMAIN f[j] /\ moves[j].from \notin DOMAIN f[j]
        /\ CanRename(f[j], moves[j].to, moves[j].from) /\ Rename(f[j], moves[j].to, moves[j].from) = f[j - 1]
    BY <2>2, RenamedBack
  <2> QED
    BY <2>3, <1>2 DEF CanUndo, UndoIfDone
<1>3. CASE k # j
  <2>1. moves[j].from \in DOMAIN f[k]
    BY <1>1, <1>3 DEF Walk
  <2> QED
    BY <2>1, <1>3 DEF CanUndo, UndoIfDone
<1> QED
  BY <1>2, <1>3
-----------------------------------------------------------------------------
(***************************************************************************)
(* The invariant.                                                          *)
(***************************************************************************)
Index(metas) == metas \subseteq Meta /\ WellFormed(metas)

(* The two maps hold these items.                                          *)
Maps(metas, ids, paths) ==
  /\ \A i \in DOMAIN ids : ids[i] \in Meta /\ ids[i].id = i
  /\ \A k \in DOMAIN paths : paths[k] \in Meta /\ paths[k].key = k
  /\ Range(ids) = metas /\ Range(paths) = metas

(* The items before and after a call, as AtomicDrive has it; and those     *)
(* before and after these renames.                                         *)
Promised(S, N) == N = S \/ Drive!Change(S, N)
Promises(f, moves, ids) == Promised(ItemsOf(indexFile, f[0]), ItemsOf(Range(ids), f[Len(moves)]))

(* The renames of the plan p lead from the tree t, that has the files of   *)
(* the index, to one that has those of the new index and the new items.    *)
Ready(t, p) ==
  \E f : /\ Walk(f, p.moves, Len(p.moves)) /\ f[0] = t
         /\ FilesMatch(indexFile, t) /\ FilesMatch(Range(p.ids), f[Len(p.moves)])
         /\ Promises(f, p.moves, p.ids)

(* The renames of the running transaction are done up to at.               *)
Moving ==
  /\ journal = [here |-> TRUE, moves |-> plan.moves]
  /\ txnIndex = [here |-> TRUE, metas |-> Range(plan.ids)]
  /\ at \in 1..(Len(plan.moves) + 1)
  /\ \E f : /\ Walk(f, plan.moves, Len(plan.moves)) /\ f[at - 1] = tree
            /\ FilesMatch(indexFile, f[0]) /\ FilesMatch(Range(plan.ids), f[Len(plan.moves)])
            /\ Promises(f, plan.moves, plan.ids)

(* The files of the index are there or, with a journal and a new index in  *)
(* the transaction directory, will be after the rollback.                  *)
Disk ==
  IF journal.here /\ txnIndex.here /\ pc # "purge"
    THEN \E f, k : /\ Walk(f, journal.moves, Len(journal.moves)) /\ k \in 0..Len(journal.moves)
                   /\ f[k] = tree /\ FilesMatch(indexFile, f[0]) /\ (pc = "undo" => k <= at)
    ELSE FilesMatch(indexFile, tree)

InTransaction == {"stage", "index", "journal", "move"}
InRecovery == {"recover", "undo", "clean", "purge"}

Shape ==
  /\ TypeOK /\ Tree(tree) /\ Index(indexFile)
  /\ plan.moves \in Seq(Step) /\ journal.moves \in Seq(Step)
  /\ pc \in {"load", "ready", "stage", "index", "journal", "clean", "purge"} => at = 0

Marks ==
  /\ pc \in {"ready", "load"} => TransactionDir \notin DOMAIN tree /\ ~journal.here /\ ~txnIndex.here
  /\ pc \in {"stage", "index", "journal"} => TransactionDir \in DOMAIN tree /\ ~journal.here
  /\ pc \in {"stage", "index"} => ~txnIndex.here
  /\ pc = "journal" => txnIndex = [here |-> TRUE, metas |-> Range(plan.ids)]
  /\ pc = "clean" => ~(journal.here /\ txnIndex.here)
  /\ pc = "undo" => journal.here /\ txnIndex.here /\ at <= Len(journal.moves)

Memory ==
  /\ pc = "ready" \/ (pc \in InRecovery /\ ~opening) => Maps(indexFile, idMap, pathMap)
  /\ pc \in InTransaction => Maps(indexFile, plan.oldIds, plan.oldPaths)
  /\ pc \in InTransaction /\ (pc = "stage" => DestinationFree) =>
       Maps(Range(plan.ids), plan.ids, plan.paths) /\ Index(Range(plan.ids))
  /\ pc \in {"index", "journal", "move"} => idMap = plan.ids /\ pathMap = plan.paths

Work ==
  /\ pc = "stage" /\ DestinationFree => Ready(Put(tree, New, plan.staged), plan)
  /\ pc \in {"index", "journal"} => Ready(tree, plan)
  /\ pc = "move" => Moving
  /\ pc # "move" => Disk

IInv == Shape /\ Marks /\ Memory /\ Work

LEMMA MatchKept ==
  ASSUME NEW M \in SUBSET Meta, NEW t, NEW u, FilesMatch(M, t),
         \A p \in Path : p \in DOMAIN t => p \in DOMAIN u /\ u[p] = t[p]
  PROVE  FilesMatch(M, u)
<1>1. \A m \in M : m.key.path \in Path
  BY DEF Meta, Key
<1> QED
  BY <1>1 DEF FilesMatch

(* Init *)
LEMMA InitOK == Init => IInv
<1> SUFFICES ASSUME Init PROVE IInv
  OBVIOUS
<1>1. /\ indexFile = {} /\ txnIndex = NoIndex /\ journal = NoJournal /\ idMap = NoMetas /\ pathMap = NoMetas
      /\ pc = "closed" /\ plan = NoPlan /\ at = 0 /\ opening = FALSE
  BY DEF Init
<1>2. Tree(tree)
  <2>1. CASE tree = NoMetas
    BY <2>1, FS_EmptySet DEF Tree, NoMetas
  <2>2. ASSUME NEW s \in Stray, tree = [p \in {<<s>>} |-> Torn] PROVE Tree(tree)
    <3>1. DOMAIN tree = {<<s>>} /\ tree[<<s>>] = Torn /\ Len(<<s>>) = 1
      BY <2>2
    <3>2. <<s>> \in Spot /\ IsFiniteSet({<<s>>})
      BY Spots, FS_Singleton
    <3>3. tree = [p \in DOMAIN tree |-> tree[p]]
      BY <2>2
    <3> QED
      BY <3>1, <3>2, <3>3 DEF Tree, Node
  <2> QED
    BY <2>1, <2>2 DEF Init
<1>3. NoMetas = [x \in {} |-> NoUuid] /\ DOMAIN NoMetas = {} /\ NoPlan.moves = <<>> /\ NoJournal.moves = <<>>
      /\ Len(plan.moves) = 0 /\ Len(journal.moves) = 0
  BY <1>1 DEF NoMetas, NoPlan, NoJournal
<1>4. TypeOK
  <2>1. \A p \in DOMAIN tree : tree[p] \in Node /\ (Len(p) = 1 \/ ParentPath(p) \in DOMAIN tree)
    BY <1>2 DEF Tree
  <2>2. txnIndex.metas = {} /\ DOMAIN idMap = {} /\ DOMAIN pathMap = {} /\ opening \in BOOLEAN
    BY <1>1, <1>3 DEF NoIndex
  <2>3. at \in 0..(Len(plan.moves) + Len(journal.moves) + 1)
    BY <1>1, <1>3
  <2> QED
    BY <1>1, <2>1, <2>2, <2>3 DEF TypeOK
<1>5. Shape
  BY <1>1, <1>2, <1>3, <1>4 DEF Shape, Index, WellFormed
<1>6. Marks /\ Memory
  BY <1>1 DEF Marks, Memory, InRecovery, InTransaction
<1>7. Work
  BY <1>1 DEF Work, Disk, FilesMatch, NoJournal
<1> QED
  BY <1>5, <1>6, <1>7 DEF IInv

(***************************************************************************)
(* The steps of a transaction.                                             *)
(***************************************************************************)

(* What every step keeps: the shape of the state.                          *)
LEMMA ShapeKept ==
  ASSUME IInv, Tree(tree'), Index(indexFile'), txnIndex'.metas \subseteq Meta,
         \A i \in DOMAIN idMap' : idMap'[i] \in Meta /\ idMap'[i].id = i,
         \A k \in DOMAIN pathMap' : pathMap'[k] \in Meta /\ pathMap'[k].key = k,
         pc' \in InTransaction \cup InRecovery \cup {"closed", "load", "ready", "failed"},
         plan'.moves \in Seq(Step), journal'.moves \in Seq(Step),
         at' \in 0..(Len(plan'.moves) + Len(journal'.moves) + 1),
         pc' \in {"load", "ready", "stage", "index", "journal", "clean", "purge"} => at' = 0,
         opening' \in BOOLEAN
  PROVE  Shape'
<1>1. \A p \in DOMAIN tree' : tree'[p] \in Node /\ (Len(p) = 1 \/ ParentPath(p) \in DOMAIN tree')
  BY DEF Tree
<1>2. pc' \in {"closed", "recover", "undo", "clean", "purge", "load", "ready", "failed",
               "stage", "index", "journal", "move"}
  BY DEF InTransaction, InRecovery
<1> QED
  BY <1>1, <1>2 DEF Shape, TypeOK, Index

LEMMA ShapeFacts ==
  ASSUME IInv
  PROVE  /\ Tree(tree) /\ Index(indexFile) /\ indexFile \subseteq Meta /\ txnIndex.metas \subseteq Meta
         /\ \A i \in DOMAIN idMap : idMap[i] \in Meta /\ idMap[i].id = i
         /\ \A k \in DOMAIN pathMap : pathMap[k] \in Meta /\ pathMap[k].key = k
         /\ plan.moves \in Seq(Step) /\ journal.moves \in Seq(Step)
         /\ at \in 0..(Len(plan.moves) + Len(journal.moves) + 1) /\ opening \in BOOLEAN
         /\ Len(plan.moves) \in Nat /\ Len(journal.moves) \in Nat
         /\ pc \in {"load", "ready", "stage", "index", "journal", "clean", "purge"} => at = 0
<1>1. TypeOK
  BY DEF IInv, Shape
<1>2. /\ Tree(tree) /\ Index(indexFile) /\ indexFile \subseteq Meta
      /\ plan.moves \in Seq(Step) /\ journal.moves \in Seq(Step)
      /\ pc \in {"load", "ready", "stage", "index", "journal", "clean", "purge"} => at = 0
  BY DEF IInv, Shape, Index
<1>3. /\ txnIndex.metas \subseteq Meta /\ opening \in BOOLEAN
      /\ \A i \in DOMAIN idMap : idMap[i] \in Meta /\ idMap[i].id = i
      /\ \A k \in DOMAIN pathMap : pathMap[k] \in Meta /\ pathMap[k].key = k
      /\ at \in 0..(Len(plan.moves) + Len(journal.moves) + 1)
  BY <1>1 DEF TypeOK
<1>4. Len(plan.moves) \in Nat /\ Len(journal.moves) \in Nat
  BY <1>2
<1> QED
  BY <1>2, <1>3, <1>4

LEMMA Bounded ==
  ASSUME NEW a \in Nat, NEW b \in Nat, NEW n \in Nat, n <= a + 1 \/ n <= b
  PROVE  n \in 0..(a + b + 1)
OBVIOUS

LEMMA NoPlanFacts == NoPlan.moves = <<>> /\ Len(NoPlan.moves) = 0 /\ NoPlan.moves \in Seq(Step)
                     /\ NoJournal.moves = <<>> /\ Len(NoJournal.moves) = 0 /\ NoJournal.moves \in Seq(Step)
                     /\ ~NoJournal.here /\ ~NoIndex.here /\ NoIndex.metas = {}
                     /\ DOMAIN NoMetas = {} /\ Range(NoMetas) = {}
BY DEF NoPlan, NoJournal, NoIndex, NoMetas, Range

(* An error: the maps go back.                                             *)
LEMMA AbortKeeps ==
  ASSUME IInv, pc \in InTransaction, Abort, UNCHANGED <<indexFile, txnIndex, journal, plan, at, opening>>,
         Tree(tree'), pc = "move" => tree' = tree,
         \A p \in Path : p \in DOMAIN tree => p \in DOMAIN tree' /\ tree'[p] = tree[p]
  PROVE  IInv'
<1>1. pc' = "recover" /\ idMap' = plan.oldIds /\ pathMap' = plan.oldPaths
  BY DEF Abort, RestoreMaps
<1>2. Maps(indexFile, plan.oldIds, plan.oldPaths)
  BY DEF IInv, Memory
<1>3. Shape'
  <2>1. /\ \A i \in DOMAIN idMap' : idMap'[i] \in Meta /\ idMap'[i].id = i
        /\ \A k \in DOMAIN pathMap' : pathMap'[k] \in Meta /\ pathMap'[k].key = k
    BY <1>1, <1>2 DEF Maps
  <2>2. pc' \in InTransaction \cup InRecovery
    BY <1>1 DEF InRecovery
  <2>3. pc' \notin {"load", "ready", "stage", "index", "journal", "clean", "purge"}
    BY <1>1
  <2> QED
    BY <2>1, <2>2, <2>3, ShapeFacts, ShapeKept
<1>4. Marks'
  BY <1>1 DEF Marks
<1>5. Memory'
  BY <1>1, <1>2 DEF Memory, InTransaction, InRecovery
<1>6. Disk'
  <2>1. CASE pc = "move"
    <3>1. Moving
      BY <2>1 DEF IInv, Work
    <3>2. PICK f : /\ Walk(f, plan.moves, Len(plan.moves)) /\ f[at - 1] = tree
                   /\ FilesMatch(indexFile, f[0])
      BY <3>1 DEF Moving
    <3>3. /\ journal'.here /\ txnIndex'.here /\ journal'.moves = plan.moves
          /\ at - 1 \in 0..Len(plan.moves) /\ tree' = tree
      BY <2>1, <3>1, ShapeFacts DEF Moving
    <3> DEFINE k == at - 1
    <3> HIDE DEF k
    <3>4. /\ Walk(f, journal'.moves, Len(journal'.moves)) /\ k \in 0..Len(journal'.moves)
          /\ f[k] = tree' /\ FilesMatch(indexFile', f[0]) /\ pc' # "undo" /\ pc' # "purge"
      BY <1>1, <3>2, <3>3 DEF k
    <3> QED
      BY <3>3, <3>4 DEF Disk
  <2>2. CASE pc # "move"
    <3>1. ~journal.here /\ pc # "purge"
      BY <2>2 DEF IInv, Marks, InTransaction
    <3>2. FilesMatch(indexFile, tree)
      BY <2>2, <3>1 DEF IInv, Work, Disk
    <3>3. FilesMatch(indexFile, tree')
      BY <3>2, ShapeFacts, MatchKept
    <3> QED
      BY <3>1, <3>3 DEF Disk
  <2> QED
    BY <2>1, <2>2
<1>7. Work'
  BY <1>1, <1>6 DEF Work
<1> QED
  BY <1>3, <1>4, <1>5, <1>7 DEF IInv

(* An entry of a name that no item has.                                    *)
LEMMA Making ==
  ASSUME NEW t, Tree(t), NEW p \in Spot, NEW v \in Node, Len(p) = 1 \/ ParentPath(p) \in DOMAIN t
  PROVE  /\ Tree(With(t, Only(p, v))) /\ DOMAIN With(t, Only(p, v)) = DOMAIN t \cup {p}
         /\ With(t, Only(p, v))[p] = v
         /\ \A q \in DOMAIN t : q # p => With(t, Only(p, v))[q] = t[q]
<1> DEFINE u == With(t, Only(p, v))
<1>1. u = [q \in DOMAIN t \cup {p} |-> IF q = p THEN v ELSE t[q]]
  BY DEF With, Only
<1>2. DOMAIN u = DOMAIN t \cup {p} /\ u[p] = v /\ \A q \in DOMAIN t : q # p => u[q] = t[q]
  BY <1>1
<1>3. u = [q \in DOMAIN u |-> u[q]]
  BY <1>1
<1> HIDE DEF u
<1>4. IsFiniteSet(DOMAIN u)
  BY <1>2, FS_AddElement DEF Tree
<1>5. Tree(u)
  BY <1>2, <1>3, <1>4 DEF Tree
<1> QED
  BY <1>2, <1>5 DEF u

LEMMA StageKeeps == IInv /\ Stage => IInv'
<1> SUFFICES ASSUME IInv, Stage PROVE IInv'
  OBVIOUS
<1>0. pc = "stage" /\ UNCHANGED <<indexFile, txnIndex, journal, plan, at, opening>>
  BY DEF Stage
<1>1. CASE DestinationFree
  <2>1. /\ tree' = Put(tree, New, plan.staged) /\ idMap' = plan.ids /\ pathMap' = plan.paths
        /\ pc' = "index"
    BY <1>1 DEF Stage
  <2>2. Ready(tree', plan)
    BY <1>0, <1>1, <2>1 DEF IInv, Work
  <2>3. PICK f : /\ Walk(f, plan.moves, Len(plan.moves)) /\ f[0] = tree' /\ FilesMatch(indexFile, tree')
                 /\ FilesMatch(Range(plan.ids), f[Len(plan.moves)]) /\ Promises(f, plan.moves, plan.ids)
    BY <2>2 DEF Ready
  <2>4. Tree(tree')
    BY <2>3, ShapeFacts DEF Walk
  <2>5. /\ Maps(indexFile, plan.oldIds, plan.oldPaths)
        /\ Maps(Range(plan.ids), plan.ids, plan.paths) /\ Index(Range(plan.ids))
    BY <1>0, <1>1 DEF IInv, Memory, InTransaction
  <2>6. Shape'
    <3>1. /\ \A i \in DOMAIN idMap' : idMap'[i] \in Meta /\ idMap'[i].id = i
          /\ \A k \in DOMAIN pathMap' : pathMap'[k] \in Meta /\ pathMap'[k].key = k
      BY <2>1, <2>5 DEF Maps
    <3>2. pc' \in InTransaction /\ at' = 0
      BY <2>1, <1>0, ShapeFacts DEF InTransaction
    <3> QED
      BY <1>0, <2>4, <3>1, <3>2, ShapeFacts, ShapeKept
  <2>7. TransactionDir \in DOMAIN tree'
    <3>1. TransactionDir \in DOMAIN tree
      BY <1>0 DEF IInv, Marks
    <3> QED
      BY <3>1, <2>1 DEF Put
  <2>8. Marks'
    BY <1>0, <2>1, <2>7 DEF IInv, Marks
  <2>9. Memory'
    BY <1>0, <2>1, <2>5 DEF Memory, InTransaction, InRecovery
  <2>10. Work'
    <3>1. Ready(tree, plan)'
      <4>1. Promises(f, plan.moves, plan.ids)'
        BY <2>3, <1>0 DEF Promises
      <4> QED
        BY <2>3, <4>1, <1>0 DEF Ready
    <3>2. Disk'
      <4>1. ~journal'.here
        BY <1>0 DEF IInv, Marks
      <4> QED
        BY <4>1, <2>3, <1>0 DEF Disk
    <3> QED
      BY <3>1, <3>2, <2>1 DEF Work
  <2> QED
    BY <2>6, <2>8, <2>9, <2>10 DEF IInv
<1>2. CASE ~DestinationFree
  <2>1. Abort /\ tree' = tree
    BY <1>2 DEF Stage
  <2> QED
    BY <1>0, <2>1, ShapeFacts, AbortKeeps DEF InTransaction
<1> QED
  BY <1>1, <1>2

LEMMA StageFailsKeeps == IInv /\ StageFails => IInv'
<1> SUFFICES ASSUME IInv, StageFails PROVE IInv'
  OBVIOUS
<1>1. /\ pc = "stage" /\ UNCHANGED <<indexFile, txnIndex, journal, plan, at, opening>> /\ Abort
      /\ tree' = With(tree, Only(New, Torn))
  BY DEF StageFails
<1>2. New \in Spot /\ Torn \in Node /\ ParentPath(New) \in DOMAIN tree
  BY <1>1, Spots, Places DEF IInv, Marks, Node
<1>3. /\ Tree(tree') /\ DOMAIN tree' = DOMAIN tree \cup {New}
      /\ \A q \in DOMAIN tree : q # New => tree'[q] = tree[q]
  BY <1>1, <1>2, ShapeFacts, Making
<1>4. New \notin Path
  <2>1. IsPrefix(TransactionDir, New)
    BY Places, ParentOf, Spots
  <2> QED
    BY <2>1, Places
<1> QED
  BY <1>1, <1>3, <1>4, AbortKeeps DEF InTransaction

LEMMA IOErrorKeeps == IInv /\ IOError => IInv'
BY ShapeFacts, AbortKeeps DEF IOError, InTransaction, disk

LEMMA WriteIndexKeeps == IInv /\ WriteIndex => IInv'
<1> SUFFICES ASSUME IInv, WriteIndex PROVE IInv'
  OBVIOUS
<1>1. /\ pc = "index" /\ txnIndex' = [here |-> TRUE, metas |-> Range(idMap)] /\ pc' = "journal"
      /\ UNCHANGED <<tree, indexFile, journal, memory, plan, at, opening>>
  BY DEF WriteIndex
<1>2. /\ Maps(indexFile, plan.oldIds, plan.oldPaths)
      /\ Maps(Range(plan.ids), plan.ids, plan.paths) /\ Index(Range(plan.ids))
      /\ idMap = plan.ids /\ pathMap = plan.paths /\ Ready(tree, plan) /\ Disk
  BY <1>1 DEF IInv, Memory, Work, InTransaction
<1>3. TransactionDir \in DOMAIN tree /\ ~journal.here
  BY <1>1 DEF IInv, Marks
<1>4. Shape'
  <2>1. /\ txnIndex'.metas \subseteq Meta /\ pc' \in InTransaction
    BY <1>1, <1>2 DEF Index, InTransaction
  <2> QED
    BY <1>1, <2>1, ShapeFacts, ShapeKept DEF memory
<1>5. Marks' /\ Memory'
  BY <1>1, <1>2, <1>3 DEF Marks, Memory, memory, InTransaction, InRecovery
<1>6. Ready(tree, plan)'
  <2>1. PICK f : /\ Walk(f, plan.moves, Len(plan.moves)) /\ f[0] = tree /\ FilesMatch(indexFile, tree)
                 /\ FilesMatch(Range(plan.ids), f[Len(plan.moves)]) /\ Promises(f, plan.moves, plan.ids)
    BY <1>2 DEF Ready
  <2>2. Promises(f, plan.moves, plan.ids)'
    BY <2>1, <1>1 DEF Promises
  <2> QED
    BY <2>1, <2>2, <1>1 DEF Ready
<1>7. Disk'
  BY <1>1, <1>2, <1>3 DEF Disk
<1> QED
  BY <1>1, <1>4, <1>5, <1>6, <1>7 DEF IInv, Work

LEMMA WriteJournalKeeps == IInv /\ WriteJournal => IInv'
<1> SUFFICES ASSUME IInv, WriteJournal PROVE IInv'
  OBVIOUS
<1>1. /\ pc = "journal" /\ journal' = [here |-> TRUE, moves |-> plan.moves] /\ pc' = "move" /\ at' = 1
      /\ UNCHANGED <<tree, indexFile, txnIndex, memory, plan, opening>>
  BY DEF WriteJournal
<1>2. /\ Maps(indexFile, plan.oldIds, plan.oldPaths)
      /\ Maps(Range(plan.ids), plan.ids, plan.paths) /\ Index(Range(plan.ids))
      /\ idMap = plan.ids /\ pathMap = plan.paths /\ Ready(tree, plan)
      /\ txnIndex = [here |-> TRUE, metas |-> Range(plan.ids)]
  BY <1>1 DEF IInv, Memory, Work, Marks, InTransaction
<1>3. Shape'
  <2>1. journal'.moves = plan.moves /\ pc' \in InTransaction
    BY <1>1 DEF InTransaction
  <2>2. at' \in 0..(Len(plan'.moves) + Len(journal'.moves) + 1)
    BY <1>1, <2>1, ShapeFacts
  <2> QED
    BY <1>1, <2>1, <2>2, ShapeFacts, ShapeKept DEF memory
<1>4. Marks' /\ Memory'
  BY <1>1, <1>2 DEF Marks, Memory, memory, InTransaction, InRecovery
<1>5. Moving'
  <2>1. PICK f : /\ Walk(f, plan.moves, Len(plan.moves)) /\ f[0] = tree /\ FilesMatch(indexFile, tree)
                 /\ FilesMatch(Range(plan.ids), f[Len(plan.moves)]) /\ Promises(f, plan.moves, plan.ids)
    BY <1>2 DEF Ready
  <2>2. at' \in 1..(Len(plan.moves) + 1) /\ at' - 1 = 0
    BY <1>1, ShapeFacts
  <2>3. Promises(f, plan.moves, plan.ids)'
    BY <2>1, <1>1 DEF Promises
  <2> QED
    BY <1>1, <1>2, <2>1, <2>2, <2>3 DEF Moving
<1> QED
  BY <1>1, <1>3, <1>4, <1>5 DEF IInv, Work

LEMMA DiskMoveKeeps == IInv /\ DiskMove => IInv'
<1> SUFFICES ASSUME IInv, DiskMove PROVE IInv'
  OBVIOUS
<1> DEFINE m == plan.moves[at]
<1>1. pc = "move" /\ at <= Len(plan.moves) /\ UNCHANGED <<indexFile, txnIndex, journal, plan, opening>>
  BY DEF DiskMove
<1>2. Moving
  BY <1>1 DEF IInv, Work
<1>3. PICK f : /\ Walk(f, plan.moves, Len(plan.moves)) /\ f[at - 1] = tree
               /\ FilesMatch(indexFile, f[0]) /\ FilesMatch(Range(plan.ids), f[Len(plan.moves)])
               /\ Promises(f, plan.moves, plan.ids)
  BY <1>2 DEF Moving
<1>4. at \in 1..Len(plan.moves) /\ at \in 0..Len(plan.moves) /\ Len(plan.moves) \in Nat
  BY <1>1, <1>2, ShapeFacts DEF Moving
<1>5. CanMove(tree, m) /\ f[at] = Rename(tree, m.from, m.to) /\ Tree(f[at])
  BY <1>3, <1>4 DEF Walk
<1>6. CanRename(tree, m.from, m.to)
  BY <1>5, ShapeFacts, Renamed
<1>7. tree' = f[at] /\ at' = at + 1 /\ UNCHANGED <<memory, pc>>
  BY <1>5, <1>6 DEF DiskMove
<1>8. Shape'
  <2>1. at' \in 0..(Len(plan.moves) + Len(journal.moves) + 1)
    <3>1. at' \in Nat /\ at' <= Len(plan.moves) + 1
      BY <1>4, <1>7
    <3> QED
      BY <3>1, <1>4, ShapeFacts, Bounded
  <2>2. pc' \in InTransaction /\ pc' \notin {"load", "ready", "stage", "index", "journal", "clean", "purge"}
    BY <1>1, <1>7 DEF InTransaction
  <2>3. Tree(tree')
    BY <1>5, <1>7
  <2> QED
    BY <1>1, <1>7, <2>1, <2>2, <2>3, ShapeFacts, ShapeKept DEF memory
<1>9. Marks' /\ Memory'
  BY <1>1, <1>7 DEF IInv, Marks, Memory, memory, InTransaction, InRecovery
<1>10. Moving'
  <2>1. at' \in 1..(Len(plan.moves) + 1) /\ at' - 1 = at
    BY <1>4, <1>7
  <2>2. f[at' - 1] = tree'
    BY <2>1, <1>7
  <2>3. journal' = [here |-> TRUE, moves |-> plan'.moves] /\ txnIndex' = [here |-> TRUE, metas |-> Range(plan'.ids)]
    BY <1>1, <1>2 DEF Moving
  <2>4. Promises(f, plan.moves, plan.ids)'
    BY <1>1, <1>3 DEF Promises
  <2> QED
    BY <1>1, <1>3, <2>1, <2>2, <2>3, <2>4 DEF Moving
<1> QED
  BY <1>1, <1>7, <1>8, <1>9, <1>10 DEF IInv, Work

LEMMA CommitIndexKeeps == IInv /\ CommitIndex => IInv'
<1> SUFFICES ASSUME IInv, CommitIndex PROVE IInv'
  OBVIOUS
<1>1. /\ pc = "move" /\ at > Len(plan.moves) /\ indexFile' = txnIndex.metas /\ txnIndex' = NoIndex
      /\ pc' = "recover" /\ UNCHANGED <<tree, journal, memory, plan, at, opening>>
  BY DEF CommitIndex
<1>2. Moving
  BY <1>1 DEF IInv, Work
<1>3. PICK f : /\ Walk(f, plan.moves, Len(plan.moves)) /\ f[at - 1] = tree
               /\ FilesMatch(indexFile, f[0]) /\ FilesMatch(Range(plan.ids), f[Len(plan.moves)])
  BY <1>2 DEF Moving
<1>4. at - 1 = Len(plan.moves)
  BY <1>1, <1>2, ShapeFacts DEF Moving
<1>5. indexFile' = Range(plan.ids) /\ FilesMatch(indexFile', tree')
  BY <1>1, <1>2, <1>3, <1>4 DEF Moving
<1>6. /\ Maps(Range(plan.ids), plan.ids, plan.paths) /\ Index(Range(plan.ids))
      /\ idMap = plan.ids /\ pathMap = plan.paths
  BY <1>1 DEF IInv, Memory, InTransaction
<1>7. Shape'
  <2>1. pc' \in InRecovery /\ pc' \notin {"load", "ready", "stage", "index", "journal", "clean", "purge"}
    BY <1>1 DEF InRecovery
  <2>2. txnIndex'.metas = {}
    BY <1>1, NoPlanFacts
  <2> QED
    BY <1>1, <1>5, <1>6, <2>1, <2>2, ShapeFacts, ShapeKept DEF memory
<1>8. Marks' /\ Memory'
  BY <1>1, <1>5, <1>6 DEF Marks, Memory, memory, InTransaction, InRecovery
<1>9. Disk'
  BY <1>1, <1>5, NoPlanFacts DEF Disk
<1> QED
  BY <1>1, <1>7, <1>8, <1>9 DEF IInv, Work
-----------------------------------------------------------------------------
(***************************************************************************)
(* The steps of the recovery.                                              *)
(***************************************************************************)

LEMMA RecoverKeeps == IInv /\ Recover => IInv'
<1> SUFFICES ASSUME IInv, Recover PROVE IInv'
  OBVIOUS
<1>1. pc = "recover" /\ UNCHANGED <<disk, memory, plan, opening>>
  BY DEF Recover
<1>2. Disk
  BY <1>1 DEF IInv, Work
<1>3. ~opening => Maps(indexFile, idMap, pathMap)
  BY <1>1 DEF IInv, Memory, InRecovery
<1>4. CASE journal.here /\ txnIndex.here
  <2>1. pc' = "undo" /\ at' = Len(journal.moves)
    BY <1>4 DEF Recover
  <2>2. Shape'
    <3>1. at' \in 0..(Len(plan.moves) + Len(journal.moves) + 1)
      <4>1. /\ Len(plan.moves) \in Nat /\ Len(journal.moves) \in Nat
            /\ at' \in Nat /\ at' <= Len(journal.moves)
        BY <2>1, ShapeFacts
      <4> QED
        BY <4>1, Bounded
    <3>2. pc' \in InRecovery /\ pc' \notin {"load", "ready", "stage", "index", "journal", "clean", "purge"}
      BY <2>1 DEF InRecovery
    <3> QED
      BY <1>1, <3>1, <3>2, ShapeFacts, ShapeKept DEF memory, disk
  <2>3. Marks' /\ Memory'
    BY <1>1, <1>3, <1>4, <2>1 DEF Marks, Memory, memory, disk, InTransaction, InRecovery
  <2>4. Disk'
    <3>1. PICK f, k : /\ Walk(f, journal.moves, Len(journal.moves)) /\ k \in 0..Len(journal.moves)
                      /\ f[k] = tree /\ FilesMatch(indexFile, f[0])
      BY <1>1, <1>2, <1>4 DEF Disk
    <3>2. k <= at'
      BY <2>1, <3>1, ShapeFacts
    <3> QED
      BY <1>1, <1>4, <2>1, <3>1, <3>2 DEF Disk, disk
  <2> QED
    BY <2>1, <2>2, <2>3, <2>4 DEF IInv, Work
<1>5. CASE ~(journal.here /\ txnIndex.here)
  <2>1. pc' = "clean" /\ at' = 0
    BY <1>5 DEF Recover
  <2>2. Shape'
    <3>1. at' \in 0..(Len(plan.moves) + Len(journal.moves) + 1)
      <4>1. /\ Len(plan.moves) \in Nat /\ Len(journal.moves) \in Nat
            /\ at' \in Nat /\ at' <= Len(journal.moves)
        BY <2>1, ShapeFacts
      <4> QED
        BY <4>1, Bounded
    <3>2. pc' \in InRecovery
      BY <2>1 DEF InRecovery
    <3> QED
      BY <1>1, <2>1, <3>1, <3>2, ShapeFacts, ShapeKept DEF memory, disk
  <2>3. Marks' /\ Memory'
    BY <1>1, <1>3, <1>5, <2>1 DEF Marks, Memory, memory, disk, InTransaction, InRecovery
  <2>4. Disk'
    BY <1>1, <1>2, <1>5 DEF Disk, disk
  <2> QED
    BY <2>1, <2>2, <2>3, <2>4 DEF IInv, Work
<1> QED
  BY <1>4, <1>5

(* The process or the recovery ends: only the disk matters.                *)
LEMMA Stopping ==
  ASSUME IInv, pc \notin {"purge"}, pc' \in {"closed", "failed"}, UNCHANGED disk,
         plan' = NoPlan /\ at' = 0, opening' = FALSE,
         (idMap' = NoMetas /\ pathMap' = NoMetas) \/ UNCHANGED memory
  PROVE  IInv'
<1>1. Shape'
  <2>1. at' \in 0..(Len(plan'.moves) + Len(journal'.moves) + 1) /\ plan'.moves \in Seq(Step)
    BY ShapeFacts, NoPlanFacts DEF disk
  <2>2. /\ \A i \in DOMAIN idMap' : idMap'[i] \in Meta /\ idMap'[i].id = i
        /\ \A k \in DOMAIN pathMap' : pathMap'[k] \in Meta /\ pathMap'[k].key = k
    BY ShapeFacts, NoPlanFacts DEF memory
  <2>3. pc' \in {"closed", "failed"} /\ opening' \in BOOLEAN
    OBVIOUS
  <2> QED
    BY <2>1, <2>2, <2>3, ShapeFacts, ShapeKept DEF disk
<1>2. Marks' /\ Memory'
  BY DEF Marks, Memory, InTransaction, InRecovery
<1>3. Disk'
  <2>1. CASE pc = "move"
    <3>1. Moving
      BY <2>1 DEF IInv, Work
    <3>2. PICK f : /\ Walk(f, plan.moves, Len(plan.moves)) /\ f[at - 1] = tree
                   /\ FilesMatch(indexFile, f[0])
      BY <3>1 DEF Moving
    <3>3. /\ journal'.here /\ txnIndex'.here /\ journal'.moves = plan.moves
          /\ at - 1 \in 0..Len(plan.moves)
      BY <3>1, ShapeFacts DEF Moving, disk
    <3> DEFINE k == at - 1
    <3> HIDE DEF k
    <3>4. /\ Walk(f, journal'.moves, Len(journal'.moves)) /\ k \in 0..Len(journal'.moves)
          /\ f[k] = tree' /\ FilesMatch(indexFile', f[0]) /\ pc' # "undo" /\ pc' # "purge"
      BY <3>2, <3>3 DEF k, disk
    <3> QED
      BY <3>3, <3>4 DEF Disk
  <2>2. CASE pc # "move"
    <3>1. Disk
      BY <2>2 DEF IInv, Work
    <3> QED
      BY <3>1 DEF Disk, disk
  <2> QED
    BY <2>1, <2>2
<1> QED
  BY <1>1, <1>2, <1>3 DEF IInv, Work

LEMMA RecoveryFailsKeeps == IInv /\ RecoveryFails /\ ~InterruptPurge => IInv'
BY Stopping DEF RecoveryFails

LEMMA CrashKeeps == IInv /\ Crash /\ ~InterruptPurge => IInv'
BY Stopping DEF Crash

LEMMA UndoKeeps == IInv /\ Undo => IInv'
<1> SUFFICES ASSUME IInv, Undo PROVE IInv'
  OBVIOUS
<1> DEFINE moves == journal.moves
<1>1. /\ pc = "undo" /\ at > 0 /\ tree' = UndoIfDone(moves[at], tree) /\ at' = at - 1
      /\ UNCHANGED <<indexFile, txnIndex, journal, memory, pc, plan, opening>>
  BY DEF Undo
<1>2. journal.here /\ txnIndex.here /\ Disk
  BY <1>1 DEF IInv, Marks, Work
<1>3. ~opening => Maps(indexFile, idMap, pathMap)
  BY <1>1 DEF IInv, Memory, InRecovery
<1>4. PICK f, k : /\ Walk(f, moves, Len(moves)) /\ k \in 0..Len(moves)
                  /\ f[k] = tree /\ FilesMatch(indexFile, f[0]) /\ k <= at
  BY <1>1, <1>2 DEF Disk
<1>5. at \in Nat /\ Len(moves) \in Nat /\ Len(plan.moves) \in Nat
  BY ShapeFacts
<1>6. at <= Len(moves)
  BY <1>1 DEF IInv, Marks
<1> DEFINE n == IF k = at THEN at - 1 ELSE k
<1>7. at \in 1..Len(moves) /\ k \in 0..at
  BY <1>1, <1>4, <1>5, <1>6
<1>8. tree' = f[n] /\ n \in 0..Len(moves) /\ n <= at'
  BY <1>1, <1>4, <1>5, <1>7, Rollback
<1> HIDE DEF n
<1>9. Tree(tree')
  BY <1>4, <1>8 DEF Walk
<1>10. Shape'
  <2>1. at' \in 0..(Len(plan.moves) + Len(journal.moves) + 1)
    <3>1. at' \in Nat /\ at' <= Len(moves)
      BY <1>1, <1>5, <1>6
    <3> QED
      BY <3>1, <1>5, Bounded
  <2>2. pc' \in InRecovery /\ pc' \notin {"load", "ready", "stage", "index", "journal", "clean", "purge"}
    BY <1>1 DEF InRecovery
  <2> QED
    BY <1>1, <1>9, <2>1, <2>2, ShapeFacts, ShapeKept DEF memory
<1>11. at' <= Len(moves)
  BY <1>1, <1>5, <1>6
<1>12. Marks' /\ Memory'
  BY <1>1, <1>2, <1>3, <1>11 DEF Marks, Memory, memory, InTransaction, InRecovery
<1>13. Disk'
  BY <1>1, <1>2, <1>4, <1>8 DEF Disk
<1> QED
  BY <1>1, <1>10, <1>12, <1>13 DEF IInv, Work

LEMMA UndoneKeeps == IInv /\ Undone => IInv'
<1> SUFFICES ASSUME IInv, Undone PROVE IInv'
  OBVIOUS
<1>1. pc = "undo" /\ at = 0 /\ pc' = "purge" /\ UNCHANGED <<disk, memory, plan, at, opening>>
  BY DEF Undone
<1>2. journal.here /\ txnIndex.here /\ Disk
  BY <1>1 DEF IInv, Marks, Work
<1>3. ~opening => Maps(indexFile, idMap, pathMap)
  BY <1>1 DEF IInv, Memory, InRecovery
<1>4. FilesMatch(indexFile, tree)
  <2>1. PICK f, k : /\ Walk(f, journal.moves, Len(journal.moves)) /\ k \in 0..Len(journal.moves)
                    /\ f[k] = tree /\ FilesMatch(indexFile, f[0]) /\ k <= at
    BY <1>1, <1>2 DEF Disk
  <2>2. k = 0
    BY <1>1, <2>1, ShapeFacts
  <2> QED
    BY <2>1, <2>2
<1>5. Shape'
  <2>1. pc' \in InRecovery
    BY <1>1 DEF InRecovery
  <2> QED
    BY <1>1, <2>1, ShapeFacts, ShapeKept DEF memory, disk
<1>6. Marks' /\ Memory'
  BY <1>1, <1>3 DEF Marks, Memory, memory, disk, InTransaction, InRecovery
<1>7. Disk'
  BY <1>1, <1>4 DEF Disk, disk
<1> QED
  BY <1>1, <1>5, <1>6, <1>7 DEF IInv, Work

(* What is removed is in the transaction directory.                        *)
LEMMA RemovedBelow ==
  ASSUME NEW t, Tree(t), NEW p \in Place, IsPrefix(TransactionDir, p)
  PROVE  \A q \in Path : q \in DOMAIN t => q \in DOMAIN RemoveAll(t, p) /\ RemoveAll(t, p)[q] = t[q]
<1>1. TransactionDir \in Place
  BY Places
<1>2. ASSUME NEW q \in Path PROVE ~IsPrefix(p, q)
  BY <1>1, Places, PrefixOrder
<1>3. /\ DOMAIN RemoveAll(t, p) = {q \in DOMAIN t : ~IsPrefix(p, q)}
      /\ \A q \in DOMAIN RemoveAll(t, p) : RemoveAll(t, p)[q] = t[q]
  BY Removing
<1> QED
  BY <1>2, <1>3

LEMMA RemoveEntryKeeps == IInv /\ RemoveEntry => IInv'
<1> SUFFICES ASSUME IInv, RemoveEntry PROVE IInv'
  OBVIOUS
<1>1. /\ pc \in {"clean", "purge"} /\ UNCHANGED <<indexFile, memory, pc, plan, at, opening>>
      /\ txnIndex' \in {txnIndex, NoIndex} /\ journal' \in {journal, NoJournal}
  BY DEF RemoveEntry
<1>2. /\ Tree(tree')
      /\ \A q \in Path : q \in DOMAIN tree => q \in DOMAIN tree' /\ tree'[q] = tree[q]
  <2>1. CASE tree' = tree
    BY <2>1, ShapeFacts
  <2>2. ASSUME NEW p \in Inside(tree, TransactionDir), tree' = RemoveAll(tree, p)
        PROVE  /\ Tree(tree')
               /\ \A q \in Path : q \in DOMAIN tree => q \in DOMAIN tree' /\ tree'[q] = tree[q]
    <3>1. p \in Place /\ IsPrefix(TransactionDir, p)
      BY ShapeFacts, Spots DEF Inside, Tree
    <3> QED
      BY <2>2, <3>1, ShapeFacts, Removing, RemovedBelow
  <2> QED
    BY <2>1, <2>2 DEF RemoveEntry
<1>3. ~opening => Maps(indexFile, idMap, pathMap)
  BY <1>1 DEF IInv, Memory, InRecovery
<1>4. /\ FilesMatch(indexFile, tree)
      /\ pc = "clean" => ~(journal.here /\ txnIndex.here)
  BY <1>1 DEF IInv, Work, Disk, Marks
<1>5. /\ pc' = "clean" => ~(journal'.here /\ txnIndex'.here)
  BY <1>1, <1>4, NoPlanFacts
<1>6. Shape'
  <2>1. journal'.moves \in Seq(Step) /\ txnIndex'.metas \subseteq Meta
    BY <1>1, ShapeFacts, NoPlanFacts
  <2>2. at' = 0 /\ Len(plan'.moves) \in Nat /\ Len(journal'.moves) \in Nat
    BY <1>1, <2>1, ShapeFacts
  <2>3. at' \in 0..(Len(plan'.moves) + Len(journal'.moves) + 1)
    <3>1. at' \in Nat /\ at' <= Len(journal'.moves)
      BY <2>2
    <3> QED
      BY <2>2, <3>1, Bounded
  <2>4. pc' \in InRecovery
    BY <1>1 DEF InRecovery
  <2> QED
    BY <1>1, <1>2, <2>1, <2>2, <2>3, <2>4, ShapeFacts, ShapeKept DEF memory
<1>7. Marks' /\ Memory'
  BY <1>1, <1>3, <1>5 DEF Marks, Memory, memory, InTransaction, InRecovery
<1>8. Disk'
  <2>1. FilesMatch(indexFile, tree')
    BY <1>2, <1>4, ShapeFacts, MatchKept
  <2> QED
    BY <2>1, <1>1, <1>5 DEF Disk
<1> QED
  BY <1>1, <1>6, <1>7, <1>8 DEF IInv, Work

LEMMA RemovedKeeps == IInv /\ Removed => IInv'
<1> SUFFICES ASSUME IInv, Removed PROVE IInv'
  OBVIOUS
<1>1. /\ pc \in {"clean", "purge"} /\ ~txnIndex.here /\ ~journal.here
      /\ tree' = RemoveAll(tree, TransactionDir) /\ pc' = (IF opening THEN "load" ELSE "ready")
      /\ plan' = NoPlan /\ at' = 0
      /\ UNCHANGED <<indexFile, txnIndex, journal, memory, opening>>
  BY DEF Removed
<1>2. TransactionDir \in Place /\ IsPrefix(TransactionDir, TransactionDir)
  BY Places, PrefixOrder
<1>3. /\ Tree(tree') /\ TransactionDir \notin DOMAIN tree'
      /\ \A q \in Path : q \in DOMAIN tree => q \in DOMAIN tree' /\ tree'[q] = tree[q]
  <2>1. Tree(tree)
    BY ShapeFacts
  <2>2. Tree(tree') /\ TransactionDir \notin DOMAIN tree'
    BY <1>1, <1>2, <2>1, Removing
  <2>3. \A q \in Path : q \in DOMAIN tree => q \in DOMAIN tree' /\ tree'[q] = tree[q]
    BY <1>1, <1>2, <2>1, RemovedBelow
  <2> QED
    BY <2>2, <2>3
<1>4. ~opening => Maps(indexFile, idMap, pathMap)
  BY <1>1 DEF IInv, Memory, InRecovery
<1>5. FilesMatch(indexFile, tree')
  <2>1. FilesMatch(indexFile, tree)
    BY <1>1 DEF IInv, Work, Disk
  <2> QED
    BY <2>1, <1>3, ShapeFacts, MatchKept
<1>6. pc' \in {"load", "ready"} /\ (pc' = "ready" => ~opening)
  BY <1>1
<1>7. Shape'
  <2>1. at' \in 0..(Len(plan'.moves) + Len(journal'.moves) + 1) /\ plan'.moves \in Seq(Step)
    BY <1>1, ShapeFacts, NoPlanFacts
  <2> QED
    BY <1>1, <1>3, <1>6, <2>1, ShapeFacts, ShapeKept DEF memory
<1>8. Marks' /\ Memory'
  BY <1>1, <1>3, <1>4, <1>6 DEF Marks, Memory, memory, InTransaction, InRecovery
<1>9. Disk'
  BY <1>1, <1>5 DEF Disk
<1> QED
  BY <1>6, <1>7, <1>8, <1>9 DEF IInv, Work
-----------------------------------------------------------------------------
(***************************************************************************)
(* Opening and closing.                                                    *)
(***************************************************************************)

LEMMA ReopenKeeps == IInv /\ Reopen => IInv'
<1> SUFFICES ASSUME IInv, Reopen PROVE IInv'
  OBVIOUS
<1>1. pc = "closed" /\ pc' = "recover" /\ opening' = TRUE /\ UNCHANGED <<disk, memory, plan, at>>
  BY DEF Reopen
<1>2. Shape'
  <2>1. pc' \in InRecovery /\ pc' \notin {"load", "ready", "stage", "index", "journal", "clean", "purge"}
    BY <1>1 DEF InRecovery
  <2> QED
    BY <1>1, <2>1, ShapeFacts, ShapeKept DEF memory, disk
<1>3. Marks' /\ Memory'
  BY <1>1 DEF Marks, Memory, InTransaction, InRecovery
<1>4. Disk'
  <2>1. Disk
    BY <1>1 DEF IInv, Work
  <2> QED
    BY <2>1, <1>1 DEF Disk, disk
<1> QED
  BY <1>1, <1>2, <1>3, <1>4 DEF IInv, Work

(* The maps of an index.                                                   *)
LEMMA MapsOf ==
  ASSUME NEW M, Index(M)
  PROVE  Maps(M, [i \in {m.id : m \in M} |-> CHOOSE m \in M : m.id = i],
                 [k \in {m.key : m \in M} |-> CHOOSE m \in M : m.key = k])
<1> DEFINE ids == [i \in {m.id : m \in M} |-> CHOOSE m \in M : m.id = i]
           paths == [k \in {m.key : m \in M} |-> CHOOSE m \in M : m.key = k]
<1>1. /\ \A i \in DOMAIN ids : ids[i] \in M /\ ids[i].id = i
      /\ \A k \in DOMAIN paths : paths[k] \in M /\ paths[k].key = k
  OBVIOUS
<1>2. /\ DOMAIN ids = {m.id : m \in M} /\ DOMAIN paths = {m.key : m \in M}
  OBVIOUS
<1> HIDE DEF ids, paths
<1>3. \A m, n \in M : m.id = n.id \/ m.key = n.key => m = n
  BY DEF Index, WellFormed
<1>4. ASSUME NEW m \in M PROVE ids[m.id] = m /\ paths[m.key] = m
  BY <1>1, <1>2, <1>3
<1>5. Range(ids) = M /\ Range(paths) = M
  BY <1>1, <1>2, <1>4 DEF Range
<1>6. M \subseteq Meta
  BY DEF Index
<1>7. Maps(M, ids, paths)
  BY <1>1, <1>5, <1>6 DEF Maps
<1> QED
  BY <1>7 DEF ids, paths

LEMMA LoadIndexKeeps == IInv /\ LoadIndex => IInv'
<1> SUFFICES ASSUME IInv, LoadIndex PROVE IInv'
  OBVIOUS
<1>1. pc = "load" /\ opening' = FALSE /\ UNCHANGED <<disk, plan, at>>
  BY DEF LoadIndex
<1>2. /\ TransactionDir \notin DOMAIN tree /\ ~journal.here /\ ~txnIndex.here /\ Disk
  BY <1>1 DEF IInv, Marks, Work
<1>3. FilesMatch(indexFile, tree)
  BY <1>2, ShapeFacts DEF Disk
<1>4. CASE ~IndexReadable(indexFile)
  <2>1. UNCHANGED memory /\ pc' = "closed"
    BY <1>4 DEF LoadIndex
  <2>2. Shape'
    BY <1>1, <2>1, ShapeFacts, ShapeKept DEF disk, memory
  <2>3. Marks' /\ Memory' /\ Disk'
    BY <1>1, <1>2, <1>3, <2>1 DEF Marks, Memory, Disk, disk, InTransaction, InRecovery
  <2> QED
    BY <2>1, <2>2, <2>3 DEF IInv, Work
<1>5. CASE IndexReadable(indexFile)
  <2>1. pc' = "ready" /\ Maps(indexFile, idMap', pathMap')
    <3>1. /\ idMap' = [i \in {m.id : m \in indexFile} |-> CHOOSE m \in indexFile : m.id = i]
          /\ pathMap' = [k \in {m.key : m \in indexFile} |-> CHOOSE m \in indexFile : m.key = k]
          /\ pc' = "ready"
      BY <1>3, <1>5 DEF LoadIndex
    <3>2. Index(indexFile)
      BY ShapeFacts
    <3> QED
      BY <3>1, <3>2, MapsOf
  <2>2. Shape'
    <3>1. /\ \A i \in DOMAIN idMap' : idMap'[i] \in Meta /\ idMap'[i].id = i
          /\ \A k \in DOMAIN pathMap' : pathMap'[k] \in Meta /\ pathMap'[k].key = k
      BY <2>1 DEF Maps
    <3> QED
      BY <1>1, <2>1, <3>1, ShapeFacts, ShapeKept DEF disk
  <2>3. Marks' /\ Memory'
    BY <1>1, <1>2, <2>1 DEF Marks, Memory, disk, InTransaction, InRecovery
  <2>4. Disk'
    BY <1>1, <1>2, <1>3 DEF Disk, disk
  <2> QED
    BY <2>1, <2>2, <2>3, <2>4 DEF IInv, Work
<1> QED
  BY <1>4, <1>5

LEMMA CloseKeeps == IInv /\ Close => IInv'
<1> SUFFICES ASSUME IInv, Close PROVE IInv'
  OBVIOUS
<1>1. /\ pc = "ready" /\ indexFile' = Range(idMap) /\ pc' = "closed" /\ idMap' = NoMetas /\ pathMap' = NoMetas
      /\ UNCHANGED <<tree, txnIndex, journal, plan, at, opening>>
  BY DEF Close, SaveIndex
<1>2. /\ ~journal.here /\ Disk /\ Maps(indexFile, idMap, pathMap)
  BY <1>1 DEF IInv, Marks, Memory, Work
<1>3. indexFile' = indexFile
  BY <1>1, <1>2 DEF Maps
<1>4. Shape'
  BY <1>1, <1>3, ShapeFacts, NoPlanFacts, ShapeKept
<1>5. Marks' /\ Memory'
  BY <1>1 DEF Marks, Memory, InTransaction, InRecovery
<1>6. Disk'
  BY <1>1, <1>2, <1>3 DEF Disk
<1> QED
  BY <1>1, <1>4, <1>5, <1>6 DEF IInv, Work

LEMMA StutterKeeps == IInv /\ UNCHANGED vars => IInv'
<1> SUFFICES ASSUME IInv, UNCHANGED vars PROVE IInv'
  OBVIOUS
<1>1. UNCHANGED <<tree, indexFile, txnIndex, journal, idMap, pathMap, pc, plan, at, opening>>
  BY DEF vars, disk, memory
<1>2. Shape' /\ Marks' /\ Memory'
  <2>1. Shape'
    BY <1>1 DEF IInv, Shape, TypeOK
  <2>2. Marks' /\ Memory'
    BY <1>1 DEF IInv, Marks, Memory, DestinationFree
  <2> QED
    BY <2>1, <2>2
<1>3. Work'
  <2>1. (pc = "stage" /\ DestinationFree => Ready(Put(tree, New, plan.staged), plan))'
    BY <1>1 DEF IInv, Work, DestinationFree, Ready, Promises
  <2>2. (pc \in {"index", "journal"} => Ready(tree, plan))'
    BY <1>1 DEF IInv, Work, Ready, Promises
  <2>3. (pc = "move" => Moving)' /\ (pc # "move" => Disk)'
    BY <1>1 DEF IInv, Work, Moving, Disk, Promises
  <2> QED
    BY <2>1, <2>2, <2>3 DEF Work
<1> QED
  BY <1>2, <1>3 DEF IInv
-----------------------------------------------------------------------------
(***************************************************************************)
(* The items of an index and the maps.                                     *)
(***************************************************************************)

LEMMA MetaFacts ==
  ASSUME NEW m \in Meta
  PROVE  /\ m.id \in Id /\ m.key \in Key /\ m.key.path \in Path /\ m.key.dir \in BOOLEAN
         /\ m.key.path \in Place /\ m.key.path # <<>>
         /\ m.key = [path |-> m.key.path, dir |-> m.key.dir]
BY Places DEF Meta, Key

LEMMA Unique ==
  ASSUME NEW M, Index(M), NEW m \in M, NEW n \in M, m.id = n.id \/ m.key.path = n.key.path \/ m.key = n.key
  PROVE  m = n
BY DEF Index, WellFormed

(* All directories above an item are items.                                *)
LEMMA Ancestor ==
  ASSUME NEW M, Index(M), NEW n \in M, NEW p \in Place, p # <<>>,
         IsPrefix(p, n.key.path), p # n.key.path
  PROVE  p \in Path /\ \E m \in M : m.key = DirKey(p)
<1> DEFINE Above(x) == p \in Path /\ \E m \in M : m.key = DirKey(p)
           S == {k \in Nat : \A x \in M : Len(x.key.path) = Len(p) + k + 1 /\ IsPrefix(p, x.key.path)
                                            => p \in Path /\ \E m \in M : m.key = DirKey(p)}
<1>1. \A x \in M : x.key.path \in Place /\ x.key.path # <<>> /\ x.key.path \in Path
  BY MetaFacts DEF Index
<1>2. ASSUME NEW x \in M, Len(x.key.path) # 1
      PROVE  \E y \in M : y.key = DirKey(ParentPath(x.key.path)) /\ y.key.path = ParentPath(x.key.path)
  BY <1>2 DEF Index, WellFormed, DirKey
<1>3. Len(p) \in Nat \ {0}
  BY At
<1>4. ASSUME NEW x \in M, IsPrefix(p, x.key.path), Len(x.key.path) > Len(p)
      PROVE  /\ Len(x.key.path) # 1 /\ IsPrefix(p, ParentPath(x.key.path)) /\ ParentPath(x.key.path) \in Place
             /\ Len(ParentPath(x.key.path)) = Len(x.key.path) - 1 /\ Len(x.key.path) \in Nat
  <2>1. x.key.path # p /\ Len(x.key.path) \in Nat
    BY <1>1, <1>4, At
  <2> QED
    BY <2>1, <1>1, <1>3, <1>4, ParentOf
<1>5. 0 \in S
  <2> SUFFICES ASSUME NEW x \in M, Len(x.key.path) = Len(p) + 0 + 1, IsPrefix(p, x.key.path)
               PROVE  p \in Path /\ \E m \in M : m.key = DirKey(p)
    OBVIOUS
  <2>1. Len(x.key.path) > Len(p) /\ Len(x.key.path) - 1 = Len(p)
    BY <1>3
  <2>2. ParentPath(x.key.path) = p
    BY <2>1, <1>4, Same, PrefixAt
  <2>3. PICK y \in M : y.key = DirKey(p) /\ y.key.path = p
    BY <2>1, <2>2, <1>2, <1>4
  <2> QED
    BY <2>3, <1>1
<1>6. ASSUME NEW k \in S PROVE k + 1 \in S
  <2>1. k \in Nat
    OBVIOUS
  <2>2. SUFFICES ASSUME NEW x \in M, Len(x.key.path) = Len(p) + (k + 1) + 1, IsPrefix(p, x.key.path)
                 PROVE  p \in Path /\ \E m \in M : m.key = DirKey(p)
    BY <2>1
  <2>3. Len(x.key.path) > Len(p) /\ Len(x.key.path) - 1 = Len(p) + k + 1
    BY <2>1, <2>2, <1>3
  <2>4. PICK y \in M : y.key.path = ParentPath(x.key.path)
    BY <2>2, <2>3, <1>2, <1>4
  <2>5. Len(y.key.path) = Len(p) + k + 1 /\ IsPrefix(p, y.key.path)
    BY <2>2, <2>3, <2>4, <1>4
  <2> QED
    BY <2>5
<1>7. S = Nat
  <2>1. S \in SUBSET Nat
    OBVIOUS
  <2> HIDE DEF S
  <2> QED
    BY <1>5, <1>6, <2>1, Induction
<1>8. Len(n.key.path) \in Nat /\ Len(n.key.path) > Len(p)
  <2>1. Len(n.key.path) \in Nat /\ Len(p) <= Len(n.key.path)
    BY <1>1, At, PrefixAt
  <2>2. Len(n.key.path) # Len(p)
    BY <1>1, PrefixAt, Same
  <2> QED
    BY <2>1, <2>2, <1>3
<1>9. PICK k \in Nat : Len(n.key.path) = Len(p) + k + 1
  <2>1. Len(n.key.path) - Len(p) - 1 \in Nat /\ Len(n.key.path) = Len(p) + (Len(n.key.path) - Len(p) - 1) + 1
    BY <1>8, <1>3
  <2> QED
    BY <2>1
<1>10. k \in S
  BY <1>7
<1> QED
  BY <1>9, <1>10

LEMMA InDirectory ==
  ASSUME NEW M, Index(M), NEW m \in M, NEW n \in M, IsPrefix(m.key.path, n.key.path), m # n
  PROVE  m.key.dir
<1>1. m.key.path \in Place /\ m.key.path # <<>>
  BY MetaFacts DEF Index
<1>2. m.key.path # n.key.path
  BY Unique
<1>3. PICK x \in M : x.key = DirKey(m.key.path)
  BY <1>1, <1>2, Ancestor
<1>4. x = m
  BY <1>3, Unique DEF DirKey
<1> QED
  BY <1>3, <1>4 DEF DirKey

(* Lookups between calls.                                                  *)
LEMMA Lookup ==
  ASSUME IInv, pc = "ready"
  PROVE  /\ \A i \in DOMAIN idMap : idMap[i] \in indexFile /\ idMap[i].id = i
         /\ \A m \in indexFile : m.id \in DOMAIN idMap /\ idMap[m.id] = m
         /\ \A k \in DOMAIN pathMap : pathMap[k] \in indexFile /\ pathMap[k].key = k
         /\ \A m \in indexFile : m.key \in DOMAIN pathMap /\ pathMap[m.key] = m
<1>1. Maps(indexFile, idMap, pathMap)
  BY DEF IInv, Memory
<1> QED
  BY <1>1 DEF Maps, Range

LEMMA Stat ==
  ASSUME IInv, pc = "ready", NEW p \in Path
  PROVE  /\ StatPath(p) = NoKey => \A m \in indexFile : m.key.path # p
         /\ StatPath(p) # NoKey => \E m \in indexFile : m.key.path = p /\ StatPath(p) = m.key
         /\ \A m \in indexFile : m.key.path = p => StatPath(p) = m.key /\ m.key # NoKey
<1>1. indexFile \subseteq Meta /\ Index(indexFile) /\ p # Root
  BY ShapeFacts, Places DEF Root
<1>2. ASSUME NEW m \in indexFile, m.key.path = p PROVE StatPath(p) = m.key /\ m.key # NoKey
  <2>1. m.key = [path |-> p, dir |-> m.key.dir] /\ m.key.dir \in BOOLEAN /\ m.key \in DOMAIN pathMap
    BY <1>1, <1>2, MetaFacts, Lookup
  <2>2. CASE m.key.dir = FALSE
    <3>1. m.key = FileKey(p)
      BY <2>1, <2>2 DEF FileKey
    <3>2. FileKey(p) # NoKey
      BY <1>1 DEF FileKey, NoKey
    <3> QED
      BY <3>1, <3>2, <2>1 DEF StatPath
  <2>3. CASE m.key.dir = TRUE
    <3>1. FileKey(p) \notin DOMAIN pathMap
      <4> SUFFICES ASSUME FileKey(p) \in DOMAIN pathMap PROVE FALSE
        OBVIOUS
      <4>1. pathMap[FileKey(p)] \in indexFile /\ pathMap[FileKey(p)].key = FileKey(p)
        BY Lookup
      <4>2. pathMap[FileKey(p)] = m
        BY <4>1, <1>1, <1>2, Unique DEF FileKey
      <4> QED
        BY <4>1, <4>2, <2>3 DEF FileKey
    <3> QED
      <4>1. m.key = DirKey(p)
        BY <2>1, <2>3 DEF DirKey
      <4>2. DirKey(p) # NoKey
        BY <1>1 DEF DirKey, NoKey
      <4> QED
        BY <4>1, <4>2, <3>1, <2>1 DEF StatPath
  <2> QED
    BY <2>1, <2>2, <2>3
<1>3. ASSUME StatPath(p) = NoKey PROVE \A m \in indexFile : m.key.path # p
  BY <1>2, <1>3
<1>4. ASSUME StatPath(p) # NoKey PROVE \E m \in indexFile : m.key.path = p
  <2>1. \E k \in DOMAIN pathMap : k.path = p
    BY <1>4 DEF StatPath, FileKey, DirKey
  <2> QED
    BY <2>1, Lookup
<1> QED
  BY <1>2, <1>3, <1>4

LEMMA ParentItem ==
  ASSUME IInv, pc = "ready", NEW p \in Path, CheckParent(p)
  PROVE  Len(p) = 1 \/ \E m \in indexFile : m.key = DirKey(ParentPath(p))
<1> SUFFICES ASSUME Len(p) # 1 PROVE \E m \in indexFile : m.key = DirKey(ParentPath(p))
  OBVIOUS
<1>1. ParentPath(p) \in Path /\ StatPath(ParentPath(p)) = DirKey(ParentPath(p))
  BY PathAssumption DEF CheckParent
<1>2. DirKey(ParentPath(p)) # NoKey
  BY DEF DirKey, NoKey
<1> QED
  BY <1>1, <1>2, Stat

(* The identifiers of an item and all below it.                            *)
Under(M, p) == {m \in M : IsPrefix(p, m.key.path)}

LEMMA CoveredIs ==
  ASSUME IInv, pc = "ready", NEW m \in indexFile
  PROVE  /\ Covered(m) = {n.id : n \in Under(indexFile, m.key.path)}
         /\ \A n \in indexFile : n.id \in Covered(m) <=> n \in Under(indexFile, m.key.path)
         /\ KeysOf(Covered(m)) = {n.key : n \in Under(indexFile, m.key.path)}
<1>1. Index(indexFile) /\ indexFile \subseteq Meta
  BY ShapeFacts
<1>2. \A n \in indexFile : IsPrefix(m.key.path, n.key.path) <=> n.id = m.id \/ (m.key.dir /\ IsPrefix(m.key.path, n.key.path))
  <2>1. IsPrefix(m.key.path, m.key.path)
    <3>1. m.key.path \in Place
      BY <1>1, MetaFacts
    <3> QED
      BY <3>1, PrefixOrder
  <2> QED
    BY <2>1, <1>1, InDirectory, Unique
<1>3. ASSUME NEW n \in indexFile PROVE n.id \in Covered(m) <=> n \in Under(indexFile, m.key.path)
  BY <1>2, Lookup DEF Covered, Under
<1>4. Covered(m) = {n.id : n \in Under(indexFile, m.key.path)}
  BY <1>3, Lookup DEF Covered, Under
<1>5. KeysOf(Covered(m)) = {n.key : n \in Under(indexFile, m.key.path)}
  BY <1>4, Lookup DEF KeysOf, Under
<1> QED
  BY <1>3, <1>4, <1>5
-----------------------------------------------------------------------------
(***************************************************************************)
(* The start of a call.                                                    *)
(***************************************************************************)
Opened == With(tree, Only(TransactionDir, Dir))

(* What is staged is all that the transaction directory holds; the rest of *)
(* the tree is as it was.                                                  *)
LEMMA Staging ==
  ASSUME IInv, pc = "ready", NEW s, Part(s), NEW B, B = Put(Opened, New, s)
  PROVE  /\ Tree(B) /\ TransactionDir \in DOMAIN B /\ FilesMatch(indexFile, B)
         /\ \A q \in Place : ~IsPrefix(TransactionDir, q) =>
              /\ q \in DOMAIN B <=> q \in DOMAIN tree
              /\ q \in DOMAIN B => B[q] = tree[q]
         /\ \A r \in Place : /\ New \o r \in DOMAIN B <=> r \in DOMAIN s
                             /\ r \in DOMAIN s => B[New \o r] = s[r]
         /\ \A q \in Place : IsPrefix(TransactionDir, q) /\ q # TransactionDir /\ ~IsPrefix(New, q) => q \notin DOMAIN B
<1>1. TransactionDir \notin DOMAIN tree /\ FilesMatch(indexFile, tree) /\ Tree(tree)
  BY ShapeFacts DEF IInv, Marks, Work, Disk
<1>2. /\ TransactionDir \in Spot /\ TransactionDir \in Place /\ New \in Spot /\ New \in Place
      /\ ParentPath(New) = TransactionDir /\ Len(TransactionDir) = 1 /\ Dir \in Node
      /\ TransactionDir # <<>> /\ New # <<>>
  BY Spots, Places DEF Node
<1>3. IsPrefix(TransactionDir, New) /\ TransactionDir # New
  BY <1>2, ParentOf
<1>4. /\ Tree(Opened) /\ DOMAIN Opened = DOMAIN tree \cup {TransactionDir}
      /\ \A q \in DOMAIN tree : q # TransactionDir => Opened[q] = tree[q]
  BY <1>1, <1>2, Making DEF Opened
<1>5. ASSUME NEW q \in Place, IsPrefix(TransactionDir, q) PROVE q \notin DOMAIN tree
  BY <1>1, <1>2, <1>5, Closed
<1>6. New \notin DOMAIN Opened
  BY <1>2, <1>3, <1>4, <1>5
<1>7. /\ Tree(B)
      /\ \A q \in Place : ~IsPrefix(New, q) =>
              /\ q \in DOMAIN B <=> q \in DOMAIN Opened
              /\ q \in DOMAIN Opened => B[q] = Opened[q]
      /\ \A r \in Place : /\ New \o r \in DOMAIN B <=> r \in DOMAIN s
                          /\ r \in DOMAIN s => B[New \o r] = s[r]
  BY <1>2, <1>4, <1>6, Putting
<1>8. ~IsPrefix(New, TransactionDir)
  BY <1>2, <1>3, PrefixOrder
<1>9. TransactionDir \in DOMAIN B
  BY <1>2, <1>4, <1>7, <1>8
<1>10. ASSUME NEW q \in Place, ~IsPrefix(TransactionDir, q)
       PROVE  (q \in DOMAIN B <=> q \in DOMAIN tree) /\ (q \in DOMAIN B => B[q] = tree[q])
  <2>1. ~IsPrefix(New, q) /\ q # TransactionDir
    BY <1>2, <1>3, <1>10, PrefixOrder
  <2> QED
    BY <2>1, <1>4, <1>7
<1>11. ASSUME NEW q \in Place, IsPrefix(TransactionDir, q), q # TransactionDir, ~IsPrefix(New, q) PROVE q \notin DOMAIN B
  BY <1>4, <1>5, <1>7, <1>11
<1>12. FilesMatch(indexFile, B)
  <2>1. \A q \in Path : q \in DOMAIN tree => q \in DOMAIN B /\ B[q] = tree[q]
    BY <1>10, Places
  <2> QED
    BY <2>1, <1>1, ShapeFacts, MatchKept
<1> QED
  BY <1>7, <1>9, <1>10, <1>11, <1>12

LEMMA StartKeeps ==
  ASSUME IInv, pc = "ready", NEW staged, NEW absent, NEW moves, NEW ids, NEW paths,
         Start(staged, absent, moves, ids, paths),
         moves \in Seq(Step),
         absent \cap DOMAIN Opened = {} => Index(Range(ids)) /\ Maps(Range(ids), ids, paths),
         absent \cap DOMAIN Opened = {} =>
           \E f : /\ Walk(f, moves, Len(moves)) /\ f[0] = Put(Opened, New, staged)
                  /\ FilesMatch(indexFile, f[0]) /\ FilesMatch(Range(ids), f[Len(moves)])
                  /\ Promises(f, moves, ids)
  PROVE  IInv'
<1>1. /\ tree' = Opened /\ pc' = "stage" /\ TransactionDir \notin DOMAIN tree
      /\ UNCHANGED <<indexFile, txnIndex, journal, memory, at, opening>>
      /\ plan' = [staged |-> staged, absent |-> absent, moves |-> moves, ids |-> ids,
                  paths |-> paths, oldIds |-> idMap, oldPaths |-> pathMap]
  BY DEF Start, Opened
<1>2. /\ plan'.staged = staged /\ plan'.absent = absent /\ plan'.moves = moves /\ plan'.ids = ids
      /\ plan'.paths = paths /\ plan'.oldIds = idMap /\ plan'.oldPaths = pathMap
  BY <1>1
<1>3. ~journal.here /\ ~txnIndex.here /\ Disk /\ Maps(indexFile, idMap, pathMap) /\ at = 0
  BY ShapeFacts DEF IInv, Marks, Memory, Work
<1>4. TransactionDir \in Spot /\ Dir \in Node /\ Len(TransactionDir) = 1
  BY Spots, Places DEF Node
<1>5. /\ Tree(tree') /\ TransactionDir \in DOMAIN tree'
      /\ \A q \in DOMAIN tree : q # TransactionDir => tree'[q] = tree[q]
      /\ DOMAIN tree' = DOMAIN tree \cup {TransactionDir}
  <2>1. /\ Tree(Opened) /\ DOMAIN Opened = DOMAIN tree \cup {TransactionDir}
        /\ \A q \in DOMAIN tree : q # TransactionDir => Opened[q] = tree[q]
    BY <1>4, ShapeFacts, Making DEF Opened
  <2> QED
    BY <1>1, <2>1
<1>6. Shape'
  <2>1. at' \in 0..(Len(plan'.moves) + Len(journal'.moves) + 1)
    <3>1. Len(plan'.moves) \in Nat /\ Len(journal'.moves) \in Nat /\ at' \in Nat /\ at' <= Len(journal'.moves)
      BY <1>1, <1>2, <1>3, ShapeFacts
    <3> QED
      BY <3>1, Bounded
  <2>2. pc' \in InTransaction /\ at' = 0 /\ plan'.moves \in Seq(Step)
    BY <1>1, <1>2, <1>3 DEF InTransaction
  <2> QED
    BY <1>1, <1>5, <2>1, <2>2, ShapeFacts, ShapeKept DEF memory
<1>7. Marks' /\ Memory'
  <2>1. DestinationFree' => absent \cap DOMAIN Opened = {}
    BY <1>1, <1>2 DEF DestinationFree
  <2> QED
    BY <2>1, <1>1, <1>2, <1>3, <1>5 DEF Marks, Memory, memory, InTransaction, InRecovery
<1>8. Disk'
  <2>1. FilesMatch(indexFile, tree)
    BY <1>3 DEF Disk
  <2>2. \A q \in Path : q \in DOMAIN tree => q \in DOMAIN tree' /\ tree'[q] = tree[q]
    BY <1>1, <1>5
  <2>3. FilesMatch(indexFile, tree')
    BY <2>1, <2>2, ShapeFacts, MatchKept
  <2> QED
    BY <2>3, <1>1, <1>3 DEF Disk
<1>9. DestinationFree' => Ready(Put(tree, New, plan.staged), plan)'
  <2> SUFFICES ASSUME DestinationFree' PROVE Ready(Put(tree, New, plan.staged), plan)'
    OBVIOUS
  <2>1. absent \cap DOMAIN Opened = {}
    BY <1>1, <1>2 DEF DestinationFree
  <2>2. PICK f : /\ Walk(f, moves, Len(moves)) /\ f[0] = Put(Opened, New, staged)
                 /\ FilesMatch(indexFile, f[0]) /\ FilesMatch(Range(ids), f[Len(moves)])
                 /\ Promises(f, moves, ids)
    BY <2>1
  <2>3. Put(tree', New, plan'.staged) = f[0]
    BY <2>2, <1>1, <1>2
  <2>4. Promises(f, plan.moves, plan.ids)'
    BY <2>2, <1>1, <1>2 DEF Promises
  <2> QED
    BY <2>2, <2>3, <2>4, <1>1, <1>2 DEF Ready
<1> QED
  BY <1>1, <1>6, <1>7, <1>8, <1>9 DEF IInv, Work
-----------------------------------------------------------------------------
(***************************************************************************)
(* The renames of the calls.                                               *)
(***************************************************************************)

(* F is B with what was at s now at p, nothing of what was at p, and maybe *)
(* something else in the transaction directory.                            *)
Arrived(B, F, s, p) ==
  /\ \A r \in Place : /\ p \o r \in DOMAIN F <=> s \o r \in DOMAIN B
                      /\ s \o r \in DOMAIN B => F[p \o r] = B[s \o r]
  /\ \A q \in Place : ~IsPrefix(p, q) /\ ~IsPrefix(s, q) /\ ~IsPrefix(TransactionDir, q) =>
       /\ q \in DOMAIN F <=> q \in DOMAIN B
       /\ q \in DOMAIN B => F[q] = B[q]

LEMMA OldPlace ==
  /\ Old \in Spot /\ Old \in Place /\ ParentPath(Old) = TransactionDir /\ IsPrefix(TransactionDir, Old)
  /\ New \in Spot /\ New \in Place /\ IsPrefix(TransactionDir, New)
  /\ \A p \in Path : /\ ~IsPrefix(p, Old) /\ ~IsPrefix(Old, p)
                     /\ ~IsPrefix(p, New) /\ ~IsPrefix(New, p)
<1>1. /\ Old \in Spot /\ Old \in Place /\ New \in Spot /\ New \in Place /\ TransactionDir \in Place
      /\ ParentPath(Old) = TransactionDir /\ ParentPath(New) = TransactionDir /\ Old # <<>> /\ New # <<>>
  BY Spots, Places
<1>2. IsPrefix(TransactionDir, Old) /\ IsPrefix(TransactionDir, New)
  BY <1>1, ParentOf
<1>3. ASSUME NEW p \in Path, NEW q \in {Old, New} PROVE ~IsPrefix(p, q) /\ ~IsPrefix(q, p)
  <2>1. p \in Place /\ p # <<>> /\ ~IsPrefix(TransactionDir, p) /\ ~IsPrefix(p, TransactionDir)
    BY Places
  <2>2. IsPrefix(p, q) => p = q \/ IsPrefix(p, TransactionDir)
    BY <1>1, <2>1, ParentOf
  <2>3. ~IsPrefix(q, p)
    BY <1>1, <1>2, <2>1, PrefixOrder
  <2> QED
    BY <2>1, <2>2, <2>3, <1>1, <1>2
<1> QED
  BY <1>1, <1>2, <1>3

LEMMA Arrival ==
  ASSUME NEW B, Tree(B), TransactionDir \in DOMAIN B, Old \notin DOMAIN B,
         NEW s \in DOMAIN B, NEW p \in Path, ~IsPrefix(s, p), ~IsPrefix(p, s),
         ~IsPrefix(s, Old), ~IsPrefix(Old, s),
         Len(p) = 1 \/ ParentPath(p) \in DOMAIN B,
         NEW moves \in Seq(Step), moves[Len(moves)] = Renaming(s, p),
         IF p \in DOMAIN B THEN Len(moves) = 2 /\ moves[1] = Renaming(p, Old) ELSE Len(moves) = 1
  PROVE  \E f : Walk(f, moves, Len(moves)) /\ f[0] = B /\ Arrived(B, f[Len(moves)], s, p)
<1>1. /\ p \in Place /\ p \in Spot /\ p # <<>> /\ ~IsPrefix(TransactionDir, p) /\ ~IsPrefix(p, TransactionDir)
      /\ TransactionDir \in Place /\ Old \in Place /\ Old \in Spot /\ ~IsPrefix(p, Old) /\ ~IsPrefix(Old, p)
      /\ ParentPath(Old) = TransactionDir /\ IsPrefix(TransactionDir, Old)
      /\ s \in Place /\ s # <<>>
  BY Places, Spots, OldPlace DEF Tree
<1>2. ASSUME NEW r \in Place
      PROVE  s \o r \in Place /\ ~IsPrefix(p, s \o r) /\ ~IsPrefix(Old, s \o r)
  <2>1. s \o r \in Place /\ IsPrefix(s, s \o r)
    BY <1>1, Beneath
  <2> QED
    BY <2>1, <1>1, PrefixOrder
<1>3. Renaming(s, p).from = s /\ Renaming(s, p).to = p /\ Renaming(p, Old).from = p /\ Renaming(p, Old).to = Old
  BY DEF Renaming
<1>4. CASE p \notin DOMAIN B
  <2>1. Len(moves) = 1 /\ moves[1] = Renaming(s, p)
    BY <1>4
  <2>2. CanMove(B, moves[1])
    BY <2>1, <1>1, <1>3, <1>4 DEF CanMove
  <2>3. PICK f : Walk(f, moves, 1) /\ f[0] = B /\ f[1] = Rename(B, s, p)
    BY <2>1, <2>2, <1>3, OneStep
  <2>4. Relocated(B, f[1], s, p)
    BY <2>1, <2>2, <2>3, <1>3, Renamed
  <2>5. Arrived(B, f[1], s, p)
    BY <2>4 DEF Relocated, Arrived
  <2> QED
    BY <2>1, <2>3, <2>5
<1>5. CASE p \in DOMAIN B
  <2> DEFINE u == Rename(B, p, Old)
             w == Rename(u, s, p)
  <2>1. Len(moves) = 2 /\ moves[1] = Renaming(p, Old) /\ moves[2] = Renaming(s, p)
    BY <1>5
  <2>2. CanMove(B, moves[1])
    BY <2>1, <1>1, <1>3, <1>5 DEF CanMove
  <2>3. Tree(u) /\ Relocated(B, u, p, Old)
    BY <2>1, <2>2, <1>3, Renamed
  <2> HIDE DEF u
  <2>4. s \in DOMAIN u
    BY <2>3, <1>1 DEF Relocated
  <2>5. p \notin DOMAIN u
    BY <2>3, <1>1, PrefixOrder DEF Relocated
  <2>6. Len(p) = 1 \/ ParentPath(p) \in DOMAIN u
    <3> SUFFICES ASSUME ParentPath(p) \in DOMAIN B PROVE ParentPath(p) \in DOMAIN u
      OBVIOUS
    <3>1. ParentPath(p) \in Place /\ ParentPath(p) # p /\ IsPrefix(ParentPath(p), p)
      BY <1>1, ParentOf
    <3>2. ~IsPrefix(p, ParentPath(p)) /\ ~IsPrefix(Old, ParentPath(p))
      BY <3>1, <1>1, PrefixOrder
    <3> QED
      BY <3>1, <3>2, <2>3 DEF Relocated
  <2>7. CanMove(u, moves[2])
    BY <2>1, <2>4, <2>5, <2>6, <1>1, <1>3 DEF CanMove
  <2>8. PICK f : Walk(f, moves, 2) /\ f[0] = B /\ f[2] = w
    <3>1. moves[2].from \in DOMAIN B
      BY <2>1, <1>3
    <3> QED
      BY <3>1, <2>1, <2>2, <2>7, <1>3, TwoSteps DEF u
  <2>9. Relocated(u, w, s, p)
    BY <2>1, <2>3, <2>7, <1>3, Renamed
  <2> HIDE DEF w
  <2>10. Arrived(B, w, s, p)
    <3>1. ASSUME NEW r \in Place
          PROVE  /\ p \o r \in DOMAIN w <=> s \o r \in DOMAIN B
                 /\ s \o r \in DOMAIN B => w[p \o r] = B[s \o r]
      <4>1. /\ s \o r \in DOMAIN u <=> s \o r \in DOMAIN B
            /\ s \o r \in DOMAIN B => u[s \o r] = B[s \o r]
        BY <1>2, <2>3 DEF Relocated
      <4> QED
        BY <4>1, <2>9 DEF Relocated
    <3>2. ASSUME NEW q \in Place, ~IsPrefix(p, q), ~IsPrefix(s, q), ~IsPrefix(TransactionDir, q)
          PROVE  (q \in DOMAIN w <=> q \in DOMAIN B) /\ (q \in DOMAIN B => w[q] = B[q])
      <4>1. ~IsPrefix(Old, q)
        BY <3>2, <1>1, PrefixOrder
      <4> QED
        BY <3>2, <4>1, <2>3, <2>9 DEF Relocated
    <3> QED
      BY <3>1, <3>2 DEF Arrived
  <2> QED
    BY <2>1, <2>8, <2>10
<1> QED
  BY <1>4, <1>5

(* The files of the items of N: those that stay and those that arrive.     *)
Stays(n, s, p) == n \in indexFile /\ ~IsPrefix(p, n.key.path) /\ ~IsPrefix(s, n.key.path)
Comes(n, r, B, s, p) ==
  /\ n.key.path = p \o r /\ s \o r \in DOMAIN B /\ (B[s \o r] = Dir) = n.key.dir
  /\ ~n.key.dir => B[s \o r] \in Content /\ Size[B[s \o r]] = n.size
Carried(N, B, s, p) == \A n \in N : Stays(n, s, p) \/ \E r \in Place : Comes(n, r, B, s, p)

LEMMA ArrivedFiles ==
  ASSUME NEW B, NEW F, NEW s \in Place, NEW p \in Place, Arrived(B, F, s, p), FilesMatch(indexFile, B),
         NEW N \in SUBSET Meta, Carried(N, B, s, p)
  PROVE  FilesMatch(N, F)
<1> SUFFICES ASSUME NEW n \in N
             PROVE  /\ n.key.path \in DOMAIN F /\ (F[n.key.path] = Dir) = n.key.dir
                    /\ ~n.key.dir => F[n.key.path] \in Content /\ Size[F[n.key.path]] = n.size
  BY DEF FilesMatch
<1>1. ASSUME Stays(n, s, p)
      PROVE  /\ n.key.path \in DOMAIN F /\ (F[n.key.path] = Dir) = n.key.dir
             /\ ~n.key.dir => F[n.key.path] \in Content /\ Size[F[n.key.path]] = n.size
  <2>0. n \in indexFile /\ ~IsPrefix(p, n.key.path) /\ ~IsPrefix(s, n.key.path)
    BY <1>1 DEF Stays
  <2>1. n.key.path \in Place /\ ~IsPrefix(TransactionDir, n.key.path)
    BY MetaFacts, Places
  <2>2. n.key.path \in DOMAIN F <=> n.key.path \in DOMAIN B
    BY <2>0, <2>1 DEF Arrived
  <2>3. n.key.path \in DOMAIN B => F[n.key.path] = B[n.key.path]
    BY <2>0, <2>1 DEF Arrived
  <2> QED
    BY <2>0, <2>2, <2>3 DEF FilesMatch
<1>2. ASSUME NEW r \in Place, Comes(n, r, B, s, p)
      PROVE  /\ n.key.path \in DOMAIN F /\ (F[n.key.path] = Dir) = n.key.dir
             /\ ~n.key.dir => F[n.key.path] \in Content /\ Size[F[n.key.path]] = n.size
  <2>1. p \o r \in DOMAIN F /\ F[p \o r] = B[s \o r]
    BY <1>2 DEF Arrived, Comes
  <2> QED
    BY <1>2, <2>1 DEF Comes
<1> QED
  BY <1>1, <1>2 DEF Carried

LEMMA Renamings ==
  /\ \A a, b \in Spot : /\ Renaming(a, b) \in Step
                        /\ <<Renaming(a, b)>> \in Seq(Step) /\ Len(<<Renaming(a, b)>>) = 1
                        /\ <<Renaming(a, b)>>[1] = Renaming(a, b)
  /\ \A a, b, c, d \in Spot :
       LET s == <<Renaming(a, b), Renaming(c, d)>> IN
         s \in Seq(Step) /\ Len(s) = 2 /\ s[1] = Renaming(a, b) /\ s[2] = Renaming(c, d)
  /\ <<>> \in Seq(Step)
<1>1. \A a, b \in Spot : Renaming(a, b) \in Step
  BY DEF Renaming, Step
<1> QED
  BY <1>1

(* One item more, or changed.                                              *)
Fits(m, M) == \A n \in M : n.id = m.id <=> n.key = m.key
Entered(m, M) == {n \in M : n.id # m.id} \cup {m}

LEMMA MapsPut ==
  ASSUME NEW M, NEW ids, NEW paths, Maps(M, ids, paths), NEW m \in Meta, Fits(m, M)
  PROVE  /\ Range(With(ids, Only(m.id, m))) = Entered(m, M)
         /\ Maps(Range(With(ids, Only(m.id, m))), With(ids, Only(m.id, m)), With(paths, Only(m.key, m)))
<1> DEFINE I == With(ids, Only(m.id, m))
           P == With(paths, Only(m.key, m))
           N == {n \in M : n.id # m.id} \cup {m}
<1>1. /\ DOMAIN I = DOMAIN ids \cup {m.id} /\ I[m.id] = m /\ \A i \in DOMAIN ids : i # m.id => I[i] = ids[i]
      /\ DOMAIN P = DOMAIN paths \cup {m.key} /\ P[m.key] = m /\ \A k \in DOMAIN paths : k # m.key => P[k] = paths[k]
  BY DEF With, Only
<1> HIDE DEF I, P
<1>2. /\ \A i \in DOMAIN ids : ids[i] \in Meta /\ ids[i].id = i /\ ids[i] \in M
      /\ \A k \in DOMAIN paths : paths[k] \in Meta /\ paths[k].key = k /\ paths[k] \in M
      /\ \A n \in M : (\E i \in DOMAIN ids : ids[i] = n) /\ \E k \in DOMAIN paths : paths[k] = n
  BY DEF Maps, Range
<1>3. /\ \A i \in DOMAIN I : I[i] \in Meta /\ I[i].id = i /\ I[i] \in N
      /\ \A k \in DOMAIN P : P[k] \in Meta /\ P[k].key = k /\ P[k] \in N
  BY <1>1, <1>2 DEF Fits
<1>4. ASSUME NEW n \in N PROVE (\E i \in DOMAIN I : I[i] = n) /\ \E k \in DOMAIN P : P[k] = n
  <2>1. CASE n = m
    BY <2>1, <1>1
  <2>2. CASE n \in M /\ n.id # m.id
    <3>1. PICK i \in DOMAIN ids : ids[i] = n
      BY <2>2, <1>2
    <3>2. PICK k \in DOMAIN paths : paths[k] = n
      BY <2>2, <1>2
    <3>3. i # m.id /\ k # m.key
      BY <2>2, <3>1, <3>2, <1>2 DEF Fits
    <3> QED
      BY <3>1, <3>2, <3>3, <1>1
  <2> QED
    BY <2>1, <2>2
<1>5. Range(I) = N /\ Range(P) = N
  <2> HIDE DEF N
  <2> QED
    BY <1>3, <1>4 DEF Range
<1>6. Maps(Range(I), I, P)
  BY <1>3, <1>5 DEF Maps
<1> QED
  BY <1>5, <1>6 DEF I, P, Entered

(* Fewer items.                                                            *)
LEMMA MapsWithout ==
  ASSUME NEW M, Index(M), NEW ids, NEW paths, Maps(M, ids, paths), NEW U \in SUBSET M
  PROVE  /\ Range(Without(ids, {u.id : u \in U})) = M \ U
         /\ Range(Without(paths, {u.key : u \in U})) = M \ U
         /\ Maps(M \ U, Without(ids, {u.id : u \in U}), Without(paths, {u.key : u \in U}))
<1> DEFINE A == {u.id : u \in U}
           K == {u.key : u \in U}
           I == Without(ids, A)
           P == Without(paths, K)
<1>1. /\ DOMAIN I = DOMAIN ids \ A /\ \A i \in DOMAIN I : I[i] = ids[i]
      /\ DOMAIN P = DOMAIN paths \ K /\ \A k \in DOMAIN P : P[k] = paths[k]
  BY DEF Without, Restrict
<1> HIDE DEF I, P
<1>2. /\ \A i \in DOMAIN ids : ids[i] \in Meta /\ ids[i].id = i /\ ids[i] \in M
      /\ \A k \in DOMAIN paths : paths[k] \in Meta /\ paths[k].key = k /\ paths[k] \in M
      /\ \A n \in M : (\E i \in DOMAIN ids : ids[i] = n) /\ \E k \in DOMAIN paths : paths[k] = n
  BY DEF Maps, Range
<1>3. \A n \in M : (n.id \in A <=> n \in U) /\ (n.key \in K <=> n \in U)
  BY Unique
<1> HIDE DEF A, K
<1>4. /\ \A i \in DOMAIN I : I[i] \in Meta /\ I[i].id = i /\ I[i] \in M \ U
      /\ \A k \in DOMAIN P : P[k] \in Meta /\ P[k].key = k /\ P[k] \in M \ U
  BY <1>1, <1>2, <1>3
<1>5. \A n \in M \ U : (\E i \in DOMAIN I : I[i] = n) /\ \E k \in DOMAIN P : P[k] = n
  BY <1>1, <1>2, <1>3
<1>6. Range(I) = M \ U /\ Range(P) = M \ U
  BY <1>4, <1>5 DEF Range
<1>7. Maps(M \ U, I, P)
  BY <1>4, <1>6 DEF Maps
<1> QED
  BY <1>6, <1>7 DEF I, P, A, K

LEMMA AddedIndex ==
  ASSUME NEW M, Index(M), NEW m \in Meta,
         \A n \in M : n.id = m.id <=> n.key.path = m.key.path,
         \A n \in M : n.id = m.id => n.key = m.key,
         Len(m.key.path) = 1 \/ \E n \in M : n.key = DirKey(ParentPath(m.key.path))
  PROVE  Index({n \in M : n.id # m.id} \cup {m})
<1> DEFINE N == {n \in M : n.id # m.id} \cup {m}
<1>1. N \subseteq Meta
  BY DEF Index
<1>2. ASSUME NEW x \in N, NEW y \in N, x # y PROVE x.id # y.id /\ x.key.path # y.key.path
  BY <1>2 DEF Index, WellFormed
<1>3. ASSUME NEW x \in N, Len(x.key.path) # 1 PROVE \E n \in N : n.key = DirKey(ParentPath(x.key.path))
  <2>1. PICK y \in M : y.key = DirKey(ParentPath(x.key.path))
    BY <1>3 DEF Index, WellFormed
  <2>2. CASE y.id = m.id
    <3>1. m.key = y.key
      BY <2>2
    <3> QED
      BY <3>1, <2>1
  <2>3. CASE y.id # m.id
    BY <2>1, <2>3
  <2> QED
    BY <2>2, <2>3
<1> QED
  BY <1>1, <1>2, <1>3 DEF Index, WellFormed

LEMMA RemovedIndex ==
  ASSUME NEW M, Index(M), NEW p \in Place, NEW N, N = M \ Under(M, p)
  PROVE  Index(N)
<1>1. ASSUME NEW x \in N, Len(x.key.path) # 1 PROVE \E n \in N : n.key = DirKey(ParentPath(x.key.path))
  <2>1. PICK y \in M : y.key = DirKey(ParentPath(x.key.path))
    BY <1>1 DEF Index, WellFormed
  <2>2. x \in Meta /\ x.key.path \in Place /\ x.key.path # <<>>
    BY MetaFacts DEF Index
  <2>3. y.key.path = ParentPath(x.key.path) /\ IsPrefix(y.key.path, x.key.path) /\ y.key.path \in Place
    BY <2>1, <2>2, ParentOf DEF DirKey
  <2>4. ~IsPrefix(p, y.key.path)
    BY <2>2, <2>3, PrefixOrder DEF Under
  <2> QED
    BY <2>1, <2>4 DEF Under
<1> QED
  BY <1>1 DEF Index, WellFormed

(* A part of one node.                                                     *)
LEMMA OneNode ==
  ASSUME NEW v \in Node
  PROVE  /\ Part(Only(<<>>, v)) /\ Part(NoMetas)
         /\ DOMAIN Only(<<>>, v) = {<<>>} /\ Only(<<>>, v)[<<>>] = v
<1>1. DOMAIN Only(<<>>, v) = {<<>>} /\ Only(<<>>, v)[<<>>] = v
  BY DEF Only
<1>2. Only(<<>>, v) = [p \in DOMAIN Only(<<>>, v) |-> Only(<<>>, v)[p]]
  BY DEF Only
<1>3. IsFiniteSet({<<>>}) /\ <<>> \in Place
  BY FS_Singleton, Places
<1>4. Part(Only(<<>>, v))
  BY <1>1, <1>2, <1>3 DEF Part
<1>5. Part(NoMetas)
  BY FS_EmptySet DEF Part, NoMetas
<1> QED
  BY <1>1, <1>4, <1>5
-----------------------------------------------------------------------------
(***************************************************************************)
(* What each call plans.                                                   *)
(***************************************************************************)

Planned(staged, absent, moves, ids, paths) ==
  /\ moves \in Seq(Step)
  /\ absent \cap DOMAIN Opened = {} => Index(Range(ids)) /\ Maps(Range(ids), ids, paths)
  /\ absent \cap DOMAIN Opened = {} =>
       \E f : /\ Walk(f, moves, Len(moves)) /\ f[0] = Put(Opened, New, staged)
              /\ FilesMatch(indexFile, f[0]) /\ FilesMatch(Range(ids), f[Len(moves)])
              /\ Promises(f, moves, ids)

ItemOf(m, t) == [id |-> m.id, key |-> m.key,
                 content |-> IF m.key.path \in DOMAIN t THEN t[m.key.path] ELSE Torn]

LEMMA ItemsAre ==
  ASSUME NEW M \in SUBSET Meta, NEW t
  PROVE  /\ ItemsOf(M, t) = {ItemOf(m, t) : m \in M}
         /\ \A m \in M : ItemOf(m, t).id = m.id /\ ItemOf(m, t).key = m.key
         /\ \A m \in M : FilesMatch(M, t) => /\ m.key.path \in DOMAIN t /\ ItemOf(m, t).content = t[m.key.path]
BY DEF ItemsOf, ItemOf, FilesMatch

LEMMA SameParent == \A p : Drive!ParentPath(p) = ParentPath(p)
BY DEF Drive!ParentPath, ParentPath, Drive!Front, Front

LEMMA CreatePromised ==
  ASSUME NEW M, Index(M), NEW m \in Meta, NEW B, NEW F, FilesMatch(M, B),
         \A n \in M : n.id # m.id /\ n.key.path # m.key.path,
         Len(m.key.path) = 1 \/ \E n \in M : n.key = DirKey(ParentPath(m.key.path)),
         m.key.path \in DOMAIN F, F[m.key.path] \in Content \cup {Dir}, m.key.dir = (F[m.key.path] = Dir),
         \A n \in M : n.key.path \in DOMAIN F /\ F[n.key.path] = B[n.key.path]
  PROVE  Promised(ItemsOf(M, B), ItemsOf(M \cup {m}, F))
<1> DEFINE S == ItemsOf(M, B)
           c == F[m.key.path]
           p == m.key.path
           i == [id |-> m.id, key |-> [path |-> p, dir |-> c = Dir], content |-> c]
<1>1. M \subseteq Meta /\ M \cup {m} \subseteq Meta
  BY DEF Index
<1>2. m.key = [path |-> p, dir |-> m.key.dir] /\ m.id \in Id /\ p \in Path
  BY MetaFacts
<1>3. S = {ItemOf(n, B) : n \in M} /\ ItemsOf(M \cup {m}, F) = {ItemOf(n, F) : n \in M \cup {m}}
  BY <1>1, ItemsAre
<1>4. ItemOf(m, F) = i
  BY <1>2 DEF ItemOf
<1>5. \A n \in M : ItemOf(n, F) = ItemOf(n, B)
  BY <1>1, ItemsAre DEF ItemOf, FilesMatch
<1> DEFINE N == ItemsOf(M \cup {m}, F)
<1>6. N = S \cup {i}
  <2>1. N = {ItemOf(n, F) : n \in M \cup {m}} /\ S = {ItemOf(n, B) : n \in M}
    BY <1>3
  <2> HIDE DEF i, N, S
  <2>2. N = {ItemOf(n, F) : n \in M} \cup {ItemOf(m, F)}
    BY <2>1
  <2>3. {ItemOf(n, F) : n \in M} = S
    BY <2>1, <1>5
  <2> QED
    BY <2>2, <2>3, <1>4
<1> HIDE DEF i, N
<1>7. \A x \in S : \E n \in M : x.id = n.id /\ x.key = n.key
  BY <1>3 DEF ItemOf
<1>8. m.id \notin Drive!Ids(S) /\ Drive!At(S, p) = {}
  BY <1>7 DEF Drive!Ids, Drive!At
<1>9. Drive!HasParent(S, p)
  <2>1. ASSUME NEW n \in M, n.key = DirKey(ParentPath(p)) PROVE Drive!HasParent(S, p)
    <3>1. ItemOf(n, B) \in S /\ ItemOf(n, B).key = DirKey(ParentPath(p))
      BY <1>3, <2>1 DEF ItemOf
    <3>2. ItemOf(n, B).key.path = Drive!ParentPath(p) /\ ItemOf(n, B).key.dir
      <4>1. ItemOf(n, B).key.path = ParentPath(p) /\ ItemOf(n, B).key.dir
        BY <3>1 DEF DirKey
      <4> QED
        BY <4>1, SameParent
    <3> QED
      BY <3>1, <3>2 DEF Drive!HasParent, Drive!At
  <2> QED
    BY <2>1 DEF Drive!HasParent
<1>10. Drive!Create(S, N, m.id, p, c)
  BY <1>6, <1>8, <1>9 DEF Drive!Create, i
<1>11. Drive!Change(S, N)
  BY <1>2, <1>10 DEF Drive!Change
<1> QED
  BY <1>11 DEF Promised, N

LEMMA NewItemPlanned ==
  ASSUME IInv, pc = "ready", NEW k \in Key, NEW node \in Content \cup {Dir}, k.dir = (node = Dir),
         StatPath(LookedUp(k)) = NoKey, CheckParent(k.path), NEW m \in Meta, m.key = k,
         m.id \notin DOMAIN idMap, node # Dir => m.size = Size[node]
  PROVE  Planned(Only(<<>>, node), {k.path}, <<Renaming(New, k.path)>>,
                 With(idMap, Only(m.id, m)), With(pathMap, Only(k, m)))
<1> DEFINE p == k.path
           s == Only(<<>>, node)
           B == Put(Opened, New, s)
           ids == With(idMap, Only(m.id, m))
           moves == <<Renaming(New, p)>>
           M == indexFile
<1>1. /\ p \in Path /\ p \in Place /\ p \in Spot /\ Index(M) /\ M \subseteq Meta /\ m.key.path = p
      /\ Maps(M, idMap, pathMap)
  BY ShapeFacts, Places, Spots DEF Key, IInv, Memory
<1>2. \A n \in M : n.id # m.id
  BY <1>1, Lookup
<1>3. Len(p) = 1 \/ \E n \in M : n.key = DirKey(ParentPath(p))
  BY <1>1, ParentItem
<1>4. node \in Node /\ Part(s) /\ DOMAIN s = {<<>>} /\ s[<<>>] = node
  BY OneNode DEF Node
<1>5. moves \in Seq(Step) /\ Len(moves) = 1 /\ moves[1] = Renaming(New, p)
  BY <1>1, OldPlace, Renamings
<1> HIDE DEF moves, ids, s, B
(* The place may hold an item that statPath, looking for another, missed.  *)
<1>6. ASSUME p \notin DOMAIN Opened PROVE \A n \in M : n.key.path # p
  <2>1. FilesMatch(M, tree)
    BY ShapeFacts DEF IInv, Marks, Work, Disk
  <2> QED
    BY <2>1, <1>6 DEF FilesMatch, Opened, With
<1>7. ASSUME p \notin DOMAIN Opened
      PROVE  Range(ids) = M \cup {m} /\ Maps(Range(ids), ids, With(pathMap, Only(k, m)))
  <2>1. \A n \in M : n.id = m.id <=> n.key = m.key
    BY <1>1, <1>2, <1>6, <1>7
  <2>2. /\ Range(ids) = {n \in M : n.id # m.id} \cup {m}
        /\ Maps(Range(ids), ids, With(pathMap, Only(m.key, m)))
    BY <1>1, <2>1, MapsPut DEF ids, Fits, Entered
  <2>3. {n \in M : n.id # m.id} = M
    BY <1>2
  <2> QED
    BY <2>2, <2>3
<1>8. ASSUME p \notin DOMAIN Opened PROVE Index(M \cup {m})
  <2>1. {n \in M : n.id # m.id} = M
    BY <1>2
  <2>2. Index({n \in M : n.id # m.id} \cup {m})
    BY <1>1, <1>2, <1>3, <1>6, <1>8, AddedIndex
  <2> QED
    BY <2>1, <2>2
<1>9. ASSUME p \notin DOMAIN Opened
      PROVE  \E f : /\ Walk(f, moves, Len(moves)) /\ f[0] = B
                    /\ FilesMatch(M, f[0]) /\ FilesMatch(M \cup {m}, f[Len(moves)])
                    /\ Promised(ItemsOf(M, f[0]), ItemsOf(M \cup {m}, f[Len(moves)]))
  <2>1. /\ Tree(B) /\ TransactionDir \in DOMAIN B /\ FilesMatch(M, B)
        /\ \A q \in Place : ~IsPrefix(TransactionDir, q) =>
              /\ q \in DOMAIN B <=> q \in DOMAIN tree
              /\ q \in DOMAIN B => B[q] = tree[q]
        /\ \A r \in Place : /\ New \o r \in DOMAIN B <=> r \in DOMAIN s
                            /\ r \in DOMAIN s => B[New \o r] = s[r]
        /\ \A q \in Place : IsPrefix(TransactionDir, q) /\ q # TransactionDir /\ ~IsPrefix(New, q) => q \notin DOMAIN B
    BY <1>4, Staging DEF B
  <2>2. New \in DOMAIN B /\ B[New] = node /\ New \o <<>> = New /\ <<>> \in Place /\ p \o <<>> = p
    <3>1. New \o <<>> = New /\ <<>> \in Place /\ p \o <<>> = p
      BY <1>1, OldPlace, Places DEF Place
    <3>2. <<>> \in DOMAIN s /\ s[<<>>] = node
      BY <1>4
    <3> QED
      BY <2>1, <3>1, <3>2
  <2>3. Old \notin DOMAIN B
    BY <2>1, OldPlace, Places
  <2>4. p \notin DOMAIN B
    <3>1. p \notin DOMAIN tree
      BY <1>9 DEF Opened, With
    <3> QED
      BY <3>1, <2>1, <1>1, Places
  <2>5. Len(p) = 1 \/ ParentPath(p) \in DOMAIN B
    <3>1. ASSUME NEW n \in M, n.key = DirKey(ParentPath(p)) PROVE ParentPath(p) \in DOMAIN B
      BY <2>1, <3>1 DEF FilesMatch, DirKey
    <3> QED
      BY <3>1, <1>3
  <2>6. PICK f : Walk(f, moves, Len(moves)) /\ f[0] = B /\ Arrived(B, f[Len(moves)], New, p)
    BY <2>1, <2>2, <2>3, <2>4, <2>5, <1>1, <1>5, OldPlace, Places, Arrival
  <2> DEFINE F == f[Len(moves)]
  <2> HIDE DEF F
  <2>7. Arrived(B, F, New, p)
    BY <2>6 DEF F
  <2>8. \A n \in M : ~IsPrefix(p, n.key.path) /\ ~IsPrefix(New, n.key.path) /\ n.key.path \in Place
    <3> SUFFICES ASSUME NEW n \in M PROVE ~IsPrefix(p, n.key.path) /\ ~IsPrefix(New, n.key.path) /\ n.key.path \in Place
      OBVIOUS
    <3>1. n.key.path \in DOMAIN B /\ n.key.path \in Path /\ n.key.path \in Place /\ p # <<>>
      BY <2>1, <1>1, MetaFacts, Places DEF FilesMatch
    <3>2. ~IsPrefix(p, n.key.path)
      BY <3>1, <2>1, <2>4, <1>1, Closed
    <3> QED
      BY <3>1, <3>2, OldPlace
  <2>9. m.key.dir => node = Dir
    OBVIOUS
  <2>10. ~m.key.dir => node \in Content /\ Size[node] = m.size
    OBVIOUS
  <2>11. FilesMatch(M \cup {m}, F)
    <3>1. Comes(m, <<>>, B, New, p)
      BY <2>2, <2>9, <2>10, <1>1 DEF Comes
    <3>2. \A n \in M : Stays(n, New, p)
      BY <2>8 DEF Stays
    <3>3. Carried(M \cup {m}, B, New, p) /\ M \cup {m} \in SUBSET Meta
      BY <2>2, <3>1, <3>2, <1>1 DEF Carried
    <3>4. FilesMatch(indexFile, B) /\ p \in Place /\ New \in Place
      BY <2>1, <1>1, OldPlace
    <3> QED
      BY <3>3, <3>4, <2>7, ArrivedFiles
  <2>12. F[p] = node /\ p \in DOMAIN F
    BY <2>2, <2>7 DEF Arrived
  <2>13. \A n \in M : n.key.path \in DOMAIN F /\ F[n.key.path] = B[n.key.path]
    <3>1. \A n \in M : ~IsPrefix(TransactionDir, n.key.path) /\ n.key.path \in DOMAIN B
      BY <2>1, <1>1, MetaFacts, Places DEF FilesMatch
    <3> QED
      BY <3>1, <2>7, <2>8 DEF Arrived
  <2>14. Promised(ItemsOf(M, B), ItemsOf(M \cup {m}, F))
    BY <2>1, <2>12, <2>13, <1>1, <1>2, <1>3, <1>6, <1>9, CreatePromised
  <2> QED
    BY <2>1, <2>6, <2>11, <2>14 DEF F
<1>10. \A A : {p} \cap A = {} => p \notin A
  OBVIOUS
<1>11. Planned(s, {p}, moves, ids, With(pathMap, Only(k, m)))
  BY <1>5, <1>7, <1>8, <1>9, <1>10 DEF Planned, Promises, B
<1> QED
  BY <1>11 DEF s, moves, ids

LEMMA SamePrefix ==
  \A p, q : /\ Drive!IsStrictPrefix(p, q) <=> IsPrefix(p, q) /\ p # q
            /\ IsStrictPrefix(p, q) <=> IsPrefix(p, q) /\ p # q
<1>1. \A p, q : Drive!IsPrefix(p, q) <=> IsPrefix(p, q)
  BY DEF Drive!IsPrefix, IsPrefix
<1> QED
  BY <1>1 DEF Drive!IsStrictPrefix, IsStrictPrefix

(* Items are as many as their metadata.                                    *)
LEMMA ItemsDiffer ==
  ASSUME NEW M, Index(M), NEW B, NEW m \in M, NEW n \in M, ItemOf(m, B) = ItemOf(n, B)
  PROVE  m = n
<1>1. m.id = n.id
  BY DEF ItemOf
<1> QED
  BY <1>1, Unique

Others(M, m, B, F) ==
  \A n \in M : n # m => n.key.path \in DOMAIN F /\ F[n.key.path] = B[n.key.path]

LEMMA WritePromised ==
  ASSUME NEW M, Index(M), NEW old \in M, ~old.key.dir, NEW c \in Content, NEW size \in {0} \cup Range(Size),
         NEW B, NEW F, FilesMatch(M, B), NEW m, m = [old EXCEPT !.size = size],
         old.key.path \in DOMAIN F, F[old.key.path] = c,
         Others(M, old, B, F)
  PROVE  Promised(ItemsOf(M, B), ItemsOf({n \in M : n.id # m.id} \cup {m}, F))
<1> DEFINE S == ItemsOf(M, B)
           i == ItemOf(old, B)
           N == {n \in M : n.id # m.id} \cup {m}
           T == ItemsOf(N, F)
<1>1. M \subseteq Meta /\ m \in Meta /\ m.id = old.id /\ m.key = old.key
  BY DEF Index, Meta
<1>2. N \subseteq Meta /\ \A n \in M : n.id # m.id <=> n # old
  BY <1>1, Unique
<1>3. S = {ItemOf(n, B) : n \in M} /\ T = {ItemOf(n, F) : n \in N}
  BY <1>1, <1>2, ItemsAre
<1>4. i \in S /\ i.id = old.id /\ i.key = old.key
  BY <1>3 DEF ItemOf
<1>5. ItemOf(m, F) = [i EXCEPT !.content = c]
  BY <1>1 DEF ItemOf
<1>6. \A n \in M : n # old => ItemOf(n, F) = ItemOf(n, B) /\ ItemOf(n, B) # i
  <2>1. \A n \in M : n # old => ItemOf(n, F) = ItemOf(n, B)
    BY <1>1, ItemsAre DEF ItemOf, FilesMatch, Others
  <2> QED
    BY <2>1, ItemsDiffer
<1>7. T = (S \ {i}) \cup {[i EXCEPT !.content = c]}
  <2> DEFINE x == [i EXCEPT !.content = c]
  <2>1. ItemOf(m, F) = x
    BY <1>5
  <2> HIDE DEF x, i, T, S
  <2>2. ASSUME NEW y \in T PROVE y \in (S \ {i}) \cup {x}
    BY <1>2, <1>3, <1>6, <2>1
  <2>3. ASSUME NEW y \in (S \ {i}) \cup {x} PROVE y \in T
    <3>1. CASE y = x
      BY <1>3, <2>1, <3>1
    <3>2. CASE y \in S /\ y # i
      <4>1. PICK n \in M : y = ItemOf(n, B)
        BY <3>2, <1>3
      <4>2. n # old
        BY <4>1, <3>2 DEF i
      <4> QED
        BY <4>1, <4>2, <1>2, <1>3, <1>6
    <3> QED
      BY <3>1, <3>2
  <2> QED
    BY <2>2, <2>3 DEF x
<1>8. Drive!Write(S, T, i, c)
  BY <1>4, <1>7 DEF Drive!Write
<1> HIDE DEF T, i
<1>9. Drive!Change(S, T)
  BY <1>4, <1>8 DEF Drive!Change
<1> QED
  BY <1>9 DEF Promised, T

LEMMA WritePlanned ==
  ASSUME IInv, pc = "ready", NEW id \in DOMAIN idMap, ~idMap[id].key.dir, NEW content \in Content,
         NEW m, m = [idMap[id] EXCEPT !.size = Size[content]]
  PROVE  Planned(Only(<<>>, content), {},
                 <<Renaming(m.key.path, Old), Renaming(New, m.key.path)>>,
                 With(idMap, Only(id, m)), With(pathMap, Only(m.key, m)))
<1> DEFINE old == idMap[id]
           p == m.key.path
           s == Only(<<>>, content)
           B == Put(Opened, New, s)
           ids == With(idMap, Only(id, m))
           moves == <<Renaming(p, Old), Renaming(New, p)>>
           M == indexFile
           N == {n \in M : n.id # m.id} \cup {m}
<1>1. Index(M) /\ M \subseteq Meta /\ Maps(M, idMap, pathMap) /\ old \in M /\ old.id = id
  BY ShapeFacts, Lookup DEF IInv, Memory
<1>2. Size[content] \in Range(Size) /\ content # Dir
  BY StorageAssumption DEF Range
<1>3. m \in Meta /\ m.id = id /\ m.key = old.key /\ m.size = Size[content]
  BY <1>1, <1>2 DEF Meta
<1>4. p \in Path /\ p \in Place /\ p \in Spot /\ p = old.key.path /\ m.key.dir = FALSE
  BY <1>3, MetaFacts, Spots
<1>5. content \in Node /\ Part(s) /\ DOMAIN s = {<<>>} /\ s[<<>>] = content
  BY OneNode DEF Node
<1>6. \A n \in M : /\ n.id = m.id <=> n = old
                   /\ n.key = m.key <=> n = old
                   /\ n.key.path = p <=> n = old
  BY <1>1, <1>3, <1>4, Unique
<1>7. Range(ids) = N /\ Maps(Range(ids), ids, With(pathMap, Only(m.key, m)))
  <2>1. \A n \in M : n.id = m.id <=> n.key = m.key
    BY <1>6
  <2>2. /\ Range(With(idMap, Only(m.id, m))) = Entered(m, indexFile)
        /\ Maps(Range(With(idMap, Only(m.id, m))), With(idMap, Only(m.id, m)), With(pathMap, Only(m.key, m)))
    <3>1. Maps(indexFile, idMap, pathMap) /\ m \in Meta
      BY <1>1, <1>3
    <3>2. Fits(m, indexFile)
      BY <2>1 DEF Fits
    <3> QED
      BY <3>1, <3>2, MapsPut
  <2> QED
    BY <2>2, <1>3 DEF Entered
<1>8. Index(N)
  <2>1. Len(p) = 1 \/ \E n \in M : n.key = DirKey(ParentPath(p))
    BY <1>1, <1>4 DEF Index, WellFormed
  <2> QED
    BY <2>1, <1>1, <1>3, <1>6, AddedIndex
<1>9. moves \in Seq(Step) /\ Len(moves) = 2 /\ moves[1] = Renaming(p, Old) /\ moves[2] = Renaming(New, p)
  BY <1>4, OldPlace, Renamings
<1> HIDE DEF moves, ids, s, B
<1>10. \E f : /\ Walk(f, moves, Len(moves)) /\ f[0] = B
              /\ FilesMatch(M, f[0]) /\ FilesMatch(N, f[Len(moves)])
              /\ Promised(ItemsOf(M, f[0]), ItemsOf(N, f[Len(moves)]))
  <2>1. /\ Tree(B) /\ TransactionDir \in DOMAIN B /\ FilesMatch(M, B)
        /\ \A r \in Place : /\ New \o r \in DOMAIN B <=> r \in DOMAIN s
                            /\ r \in DOMAIN s => B[New \o r] = s[r]
        /\ \A q \in Place : IsPrefix(TransactionDir, q) /\ q # TransactionDir /\ ~IsPrefix(New, q) => q \notin DOMAIN B
    BY <1>5, Staging DEF B
  <2>2. New \in DOMAIN B /\ B[New] = content /\ New \o <<>> = New /\ <<>> \in Place /\ p \o <<>> = p
    <3>1. New \o <<>> = New /\ <<>> \in Place /\ p \o <<>> = p
      BY <1>4, OldPlace, Places DEF Place
    <3>2. <<>> \in DOMAIN s /\ s[<<>>] = content
      BY <1>5
    <3> QED
      BY <2>1, <3>1, <3>2
  <2>3. Old \notin DOMAIN B
    BY <2>1, OldPlace, Places
  <2>4. p \in DOMAIN B
    BY <2>1, <1>1, <1>4 DEF FilesMatch
  <2>5. Len(p) = 1 \/ ParentPath(p) \in DOMAIN B
    BY <2>1, <2>4 DEF Tree
  <2>6. PICK f : Walk(f, moves, Len(moves)) /\ f[0] = B /\ Arrived(B, f[Len(moves)], New, p)
    BY <2>1, <2>2, <2>3, <2>4, <2>5, <1>4, <1>9, OldPlace, Places, Arrival
  <2> DEFINE F == f[Len(moves)]
  <2> HIDE DEF F
  <2>7. Arrived(B, F, New, p)
    BY <2>6 DEF F
  <2>8. \A n \in M : n # old => ~IsPrefix(p, n.key.path) /\ ~IsPrefix(New, n.key.path) /\ n.key.path \in Place
    <3> SUFFICES ASSUME NEW n \in M, n # old
                 PROVE  ~IsPrefix(p, n.key.path) /\ ~IsPrefix(New, n.key.path) /\ n.key.path \in Place
      OBVIOUS
    <3>1. n.key.path \in Path /\ n.key.path \in Place
      BY <1>1, MetaFacts
    <3>2. ~IsPrefix(p, n.key.path)
      BY <1>1, <1>4, InDirectory
    <3> QED
      BY <3>1, <3>2, OldPlace
  <2>9. FilesMatch(N, F)
    <3>1. Comes(m, <<>>, B, New, p)
      BY <2>2, <1>2, <1>3, <1>4 DEF Comes
    <3>2. \A n \in M : n # old => Stays(n, New, p)
      BY <2>8 DEF Stays
    <3>3. Carried(N, B, New, p) /\ N \in SUBSET Meta
      BY <2>2, <3>1, <3>2, <1>1, <1>3, <1>6 DEF Carried
    <3>4. FilesMatch(indexFile, B) /\ p \in Place /\ New \in Place
      BY <2>1, <1>4, OldPlace
    <3> QED
      BY <3>3, <3>4, <2>7, ArrivedFiles
  <2>10. F[p] = content /\ p \in DOMAIN F
    BY <2>2, <2>7 DEF Arrived
  <2>11. \A n \in M : n # old => n.key.path \in DOMAIN F /\ F[n.key.path] = B[n.key.path]
    <3>1. \A n \in M : ~IsPrefix(TransactionDir, n.key.path) /\ n.key.path \in DOMAIN B
      BY <2>1, <1>1, MetaFacts, Places DEF FilesMatch
    <3> QED
      BY <3>1, <2>7, <2>8 DEF Arrived
  <2>12. Promised(ItemsOf(M, B), ItemsOf(N, F))
    <3>1. ~old.key.dir /\ old.key.path \in DOMAIN F /\ F[old.key.path] = content /\ Size[content] \in {0} \cup Range(Size)
      BY <2>10, <1>2, <1>4
    <3>2. FilesMatch(M, B) /\ Index(M) /\ old \in M /\ m = [old EXCEPT !.size = Size[content]]
      BY <2>1, <1>1
    <3>3. Others(M, old, B, F)
      BY <2>11 DEF Others
    <3> HIDE DEF M, old
    <3>4. m = [old EXCEPT !.size = Size[content]] /\ ~old.key.dir /\ content \in Content
      BY <3>1, <3>2
    <3> QED
      BY <3>1, <3>2, <3>3, <3>4, WritePromised
  <2> QED
    BY <2>1, <2>6, <2>9, <2>12 DEF F
<1>11. Planned(s, {}, moves, ids, With(pathMap, Only(m.key, m)))
  BY <1>7, <1>8, <1>9, <1>10 DEF Planned, Promises, B
<1> QED
  BY <1>11 DEF s, moves, ids

LEMMA WriteCommentsPlanned ==
  ASSUME IInv, pc = "ready"
  PROVE  Planned(NoMetas, {}, <<>>, idMap, pathMap)
<1> DEFINE B == Put(Opened, New, NoMetas)
<1>1. Index(indexFile) /\ Maps(indexFile, idMap, pathMap) /\ Range(idMap) = indexFile
  BY ShapeFacts DEF IInv, Memory, Maps
<1>2. Part(NoMetas)
  BY OneNode DEF Node
<1>3. Tree(B) /\ FilesMatch(indexFile, B)
  BY <1>2, Staging
<1>4. <<>> \in Seq(Step) /\ Len(<<>>) = 0
  BY Renamings
<1> HIDE DEF B
<1>5. PICK f : Walk(f, <<>>, 0) /\ f[0] = B
  BY <1>3, <1>4, NoWalk
<1>6. Promised(ItemsOf(indexFile, B), ItemsOf(indexFile, B))
  BY DEF Promised
<1> QED
  BY <1>1, <1>3, <1>4, <1>5, <1>6 DEF Planned, Promises, B

(* What is at or below a path, as items.                                   *)
LEMMA Owner ==
  ASSUME NEW M, Index(M), NEW p \in Path, NEW n \in Under(M, p)
  PROVE  \E m \in M : m.key.path = p /\ (n = m \/ (m.key.dir /\ n.key.path # p))
<1>1. n \in M /\ n \in Meta /\ IsPrefix(p, n.key.path) /\ p \in Place /\ p # <<>>
  BY Places DEF Under, Index
<1>2. CASE n.key.path = p
  BY <1>1, <1>2
<1>3. CASE n.key.path # p
  <2>1. PICK m \in M : m.key = DirKey(p)
    BY <1>1, <1>3, Ancestor
  <2> QED
    BY <2>1, <1>3 DEF DirKey
<1> QED
  BY <1>2, <1>3

LEMMA ItemsBelow ==
  ASSUME NEW M, Index(M), NEW B, NEW p \in Path
  PROVE  /\ Drive!Below(ItemsOf(M, B), Drive!At(ItemsOf(M, B), p)) = ItemsOf(Under(M, p), B)
         /\ \A m \in M : m.key.path = p => Drive!At(ItemsOf(M, B), p) = {ItemOf(m, B)}
         /\ (\A m \in M : m.key.path # p) => Drive!At(ItemsOf(M, B), p) = {}
<1> DEFINE S == ItemsOf(M, B)
           A == Drive!At(S, p)
<1>1. M \subseteq Meta /\ Under(M, p) \subseteq M
  BY DEF Index, Under
<1>2. S = {ItemOf(n, B) : n \in M} /\ ItemsOf(Under(M, p), B) = {ItemOf(n, B) : n \in Under(M, p)}
  BY <1>1, ItemsAre
<1>3. \A n \in M : ItemOf(n, B).id = n.id /\ ItemOf(n, B).key = n.key /\ ItemOf(n, B) \in S
  BY <1>1, <1>2, ItemsAre
<1>4. A = {i \in S : i.key.path = p}
  BY DEF Drive!At
<1> HIDE DEF S
<1>5. \A m \in M : m.key.path = p => A = {ItemOf(m, B)}
  <2> SUFFICES ASSUME NEW m \in M, m.key.path = p PROVE A = {ItemOf(m, B)}
    OBVIOUS
  <2>1. ASSUME NEW i \in A PROVE i = ItemOf(m, B)
    <3>1. i \in S /\ i.key.path = p
      BY <1>4
    <3>2. PICK n \in M : i = ItemOf(n, B)
      BY <3>1, <1>2
    <3>3. n = m
      BY <3>1, <3>2, <1>3, Unique
    <3> QED
      BY <3>2, <3>3
  <2>2. ItemOf(m, B) \in A
    BY <1>3, <1>4
  <2> QED
    BY <2>1, <2>2
<1>6. (\A m \in M : m.key.path # p) => A = {}
  BY <1>2, <1>3, <1>4
<1> HIDE DEF A
<1>7. Drive!Below(S, A) = {i \in S : \E t \in A : i = t \/ (t.key.dir /\ Drive!IsStrictPrefix(t.key.path, i.key.path))}
  BY DEF Drive!Below
<1>8. ASSUME NEW i \in Drive!Below(S, A) PROVE i \in ItemsOf(Under(M, p), B)
  <2>1. i \in S
    BY <1>7
  <2>2. PICK n \in M : i = ItemOf(n, B)
    BY <2>1, <1>2
  <2>3. PICK t \in A : i = t \/ (t.key.dir /\ Drive!IsStrictPrefix(t.key.path, i.key.path))
    BY <1>7
  <2>4. t.key.path = p
    BY <2>3, <1>4
  <2>5. p \in Place
    BY Places
  <2>6. IsPrefix(p, i.key.path)
    BY <2>3, <2>4, <2>5, SamePrefix, PrefixOrder
  <2>7. n \in Under(M, p)
    BY <2>2, <2>6, <1>3 DEF Under
  <2> QED
    BY <2>2, <2>7, <1>2
<1>9. ASSUME NEW i \in ItemsOf(Under(M, p), B) PROVE i \in Drive!Below(S, A)
  <2>1. PICK n \in Under(M, p) : i = ItemOf(n, B)
    BY <1>2
  <2>2. PICK m \in M : m.key.path = p /\ (n = m \/ (m.key.dir /\ n.key.path # p))
    BY Owner
  <2>3. ItemOf(m, B) \in A /\ i \in S
    BY <2>1, <2>2, <1>1, <1>3, <1>5
  <2>4. IsPrefix(p, n.key.path)
    BY DEF Under
  <2>5. i = ItemOf(m, B) \/ (ItemOf(m, B).key.dir /\ Drive!IsStrictPrefix(ItemOf(m, B).key.path, i.key.path))
    <3>1. CASE n = m
      BY <3>1, <2>1
    <3>2. CASE m.key.dir /\ n.key.path # p
      BY <3>2, <2>1, <2>2, <2>4, <1>1, <1>3, SamePrefix
    <3> QED
      BY <3>1, <3>2, <2>2
  <2> QED
    BY <2>3, <2>5, <1>7
<1> QED
  BY <1>5, <1>6, <1>8, <1>9 DEF S, A

(* Their files stay.                                                       *)
LEMMA SameItems ==
  ASSUME NEW N \in SUBSET Meta, NEW B, NEW F,
         \A n \in N : n.key.path \in DOMAIN B /\ n.key.path \in DOMAIN F /\ F[n.key.path] = B[n.key.path]
  PROVE  ItemsOf(N, F) = ItemsOf(N, B)
<1>1. \A n \in N : ItemOf(n, F) = ItemOf(n, B)
  BY DEF ItemOf
<1>2. ItemsOf(N, F) = {ItemOf(n, F) : n \in N} /\ ItemsOf(N, B) = {ItemOf(n, B) : n \in N}
  BY ItemsAre
<1>3. \A x : x \in {ItemOf(n, F) : n \in N} <=> x \in {ItemOf(n, B) : n \in N}
  BY <1>1
<1> QED
  BY <1>2, <1>3

LEMMA ItemsWithout ==
  ASSUME NEW M, Index(M), NEW B, NEW U \in SUBSET M
  PROVE  ItemsOf(M \ U, B) = ItemsOf(M, B) \ ItemsOf(U, B)
<1>1. M \subseteq Meta
  BY DEF Index
<1>2. /\ ItemsOf(M, B) = {ItemOf(n, B) : n \in M} /\ ItemsOf(U, B) = {ItemOf(n, B) : n \in U}
      /\ ItemsOf(M \ U, B) = {ItemOf(n, B) : n \in M \ U}
  BY <1>1, ItemsAre
<1>3. ASSUME NEW i \in ItemsOf(M \ U, B) PROVE i \in ItemsOf(M, B) /\ i \notin ItemsOf(U, B)
  <2>1. PICK n \in M \ U : i = ItemOf(n, B)
    BY <1>2
  <2>2. \A u \in U : ItemOf(u, B) # i
    BY <2>1, ItemsDiffer
  <2> QED
    BY <2>1, <2>2, <1>2
<1>4. ASSUME NEW i \in ItemsOf(M, B), i \notin ItemsOf(U, B) PROVE i \in ItemsOf(M \ U, B)
  BY <1>2, <1>4
<1> QED
  BY <1>3, <1>4

LEMMA DeletePromised ==
  ASSUME NEW M, Index(M), NEW m \in M, NEW B, NEW F,
         ItemsOf(M \ Under(M, m.key.path), F) = ItemsOf(M \ Under(M, m.key.path), B)
  PROVE  Promised(ItemsOf(M, B), ItemsOf(M \ Under(M, m.key.path), F))
<1> DEFINE S == ItemsOf(M, B)
           T == ItemsOf(M \ Under(M, m.key.path), F)
           i == ItemOf(m, B)
<1>1. M \subseteq Meta /\ m.key.path \in Path /\ Under(M, m.key.path) \subseteq M
  BY MetaFacts DEF Index, Under
<1>2. i \in S
  BY <1>1, ItemsAre
<1>3. Drive!At(S, m.key.path) = {i}
  BY <1>1, ItemsBelow
<1>4. Drive!Below(S, {i}) = ItemsOf(Under(M, m.key.path), B)
  <2>1. Drive!Below(S, Drive!At(S, m.key.path)) = ItemsOf(Under(M, m.key.path), B)
    BY <1>1, ItemsBelow
  <2> QED
    BY <2>1, <1>3
<1>5. T = S \ Drive!Below(S, {i})
  BY <1>1, <1>4, ItemsWithout
<1> HIDE DEF S, T, i
<1>6. Drive!Delete(S, T, i)
  BY <1>5 DEF Drive!Delete
<1>7. Drive!Change(S, T)
  BY <1>2, <1>6 DEF Drive!Change
<1> QED
  BY <1>7 DEF Promised, S, T

LEMMA DeletePlanned ==
  ASSUME IInv, pc = "ready", NEW id \in DOMAIN idMap
  PROVE  Planned(NoMetas, {}, <<Renaming(idMap[id].key.path, Old)>>,
                 Without(idMap, Covered(idMap[id])), Without(pathMap, KeysOf(Covered(idMap[id]))))
<1> DEFINE m == idMap[id]
           p == m.key.path
           B == Put(Opened, New, NoMetas)
           ids == Without(idMap, Covered(m))
           paths == Without(pathMap, KeysOf(Covered(m)))
           moves == <<Renaming(p, Old)>>
           M == indexFile
           U == Under(M, p)
           N == M \ U
<1>1. Index(M) /\ M \subseteq Meta /\ Maps(M, idMap, pathMap) /\ m \in M /\ m \in Meta
  BY ShapeFacts, Lookup DEF IInv, Memory
<1>2. p \in Path /\ p \in Place /\ p \in Spot /\ U \subseteq M /\ N \subseteq Meta
  BY <1>1, MetaFacts, Spots DEF Under
<1>3. Range(ids) = N /\ Maps(Range(ids), ids, paths)
  <2>1. Covered(m) = {u.id : u \in U} /\ KeysOf(Covered(m)) = {u.key : u \in U}
    BY <1>1, CoveredIs
  <2>2. /\ Range(Without(idMap, {u.id : u \in U})) = M \ U
        /\ Maps(M \ U, Without(idMap, {u.id : u \in U}), Without(pathMap, {u.key : u \in U}))
    BY <1>1, <1>2, MapsWithout
  <2> QED
    BY <2>1, <2>2
<1>4. Index(N)
  BY <1>1, <1>2, RemovedIndex
<1>5. moves \in Seq(Step) /\ Len(moves) = 1 /\ moves[1] = Renaming(p, Old)
  BY <1>2, OldPlace, Renamings
<1> HIDE DEF moves, ids, paths, B
<1>6. \E f : /\ Walk(f, moves, Len(moves)) /\ f[0] = B
             /\ FilesMatch(M, f[0]) /\ FilesMatch(N, f[Len(moves)])
             /\ Promised(ItemsOf(M, f[0]), ItemsOf(N, f[Len(moves)]))
  <2>1. /\ Tree(B) /\ TransactionDir \in DOMAIN B /\ FilesMatch(M, B)
        /\ \A q \in Place : IsPrefix(TransactionDir, q) /\ q # TransactionDir /\ ~IsPrefix(New, q) => q \notin DOMAIN B
    <3>1. Part(NoMetas)
      BY OneNode DEF Node
    <3> QED
      BY <3>1, Staging DEF B
  <2>2. Old \notin DOMAIN B
    BY <2>1, OldPlace, Places
  <2>3. p \in DOMAIN B
    BY <2>1, <1>1 DEF FilesMatch
  <2>4. CanMove(B, moves[1])
    BY <2>1, <2>2, <2>3, <1>2, <1>5, OldPlace DEF CanMove, Renaming
  <2>5. PICK f : Walk(f, moves, 1) /\ f[0] = B /\ f[1] = Rename(B, moves[1].from, moves[1].to)
    BY <2>1, <2>4, <1>5, OneStep
  <2> DEFINE F == f[1]
  <2>6. Relocated(B, F, p, Old)
    BY <2>1, <2>4, <2>5, <1>5, Renamed DEF Renaming
  <2> HIDE DEF F
  <2>7. \A n \in N : /\ n.key.path \in DOMAIN B /\ n.key.path \in DOMAIN F
                     /\ F[n.key.path] = B[n.key.path]
    <3> SUFFICES ASSUME NEW n \in N
                 PROVE  /\ n.key.path \in DOMAIN B /\ n.key.path \in DOMAIN F
                        /\ F[n.key.path] = B[n.key.path]
      OBVIOUS
    <3>1. n.key.path \in Path /\ n.key.path \in Place /\ ~IsPrefix(p, n.key.path)
      BY <1>1, MetaFacts DEF Under
    <3>2. ~IsPrefix(Old, n.key.path) /\ n.key.path \in DOMAIN B
      BY <3>1, <2>1, OldPlace DEF FilesMatch
    <3> QED
      BY <3>1, <3>2, <2>6 DEF Relocated
  <2>8. FilesMatch(N, F)
    <3>1. FilesMatch(N, B)
      BY <2>1 DEF FilesMatch
    <3> QED
      BY <3>1, <2>7 DEF FilesMatch
  <2>9. Promised(ItemsOf(M, B), ItemsOf(N, F))
    BY <2>7, <1>1, <1>2, SameItems, DeletePromised
  <2> QED
    BY <2>1, <2>5, <2>8, <2>9, <1>5 DEF F
<1>7. Planned(NoMetas, {}, moves, ids, paths)
  BY <1>3, <1>4, <1>5, <1>6 DEF Planned, Promises, B
<1> QED
  BY <1>7 DEF moves, ids, paths

(***************************************************************************)
(* Transfers.  Neither of the source and the destination is below the      *)
(* other.                                                                  *)
(***************************************************************************)
Apart(p, q) == ~IsPrefix(p, q) /\ ~IsPrefix(q, p)

LEMMA TransferApart ==
  ASSUME IInv, pc = "ready", NEW src \in indexFile, NEW dst \in Path,
         TransferAllowed(src.key, dst), CheckParent(dst)
  PROVE  Apart(src.key.path, dst)
<1> DEFINE p == src.key.path
<1>1. Index(indexFile) /\ src \in Meta
  BY ShapeFacts DEF IInv, Index
<1>2. p \in Place /\ p # <<>> /\ dst \in Place /\ dst # <<>> /\ Len(dst) \in Nat /\ Len(p) \in Nat
  BY <1>1, MetaFacts, Places, At
<1>3. dst # p /\ ~IsPrefix(dst, p) /\ (src.key.dir => ~IsPrefix(p, dst))
  BY SamePrefix, <1>2, PrefixOrder DEF TransferAllowed
<1>4. ASSUME IsPrefix(p, dst) PROVE FALSE
  <2>1. Len(p) # 0 /\ IsPrefix(p, ParentPath(dst)) /\ ParentPath(dst) \in Place
    BY <1>2, <1>3, <1>4, At, ParentOf
  <2>2. Len(dst) # 1
    <3>1. Len(dst) = 1 => ParentPath(dst) = <<>>
      BY <1>2, ParentOf
    <3>2. IsPrefix(p, <<>>) => p = <<>>
      BY <1>2, Places, PrefixOrder
    <3> QED
      BY <3>1, <3>2, <2>1, <1>2
  <2>3. PICK m \in indexFile : m.key = DirKey(ParentPath(dst))
    BY <2>2, ParentItem
  <2>4. m.key.path = ParentPath(dst) /\ m.key.dir
    BY <2>3 DEF DirKey
  <2>5. src.key.dir
    BY <2>1, <2>4, <1>1, InDirectory
  <2> QED
    BY <2>5, <1>3, <1>4
<1> QED
  BY <1>3, <1>4 DEF Apart

LEMMA NothingBoth ==
  ASSUME NEW M \in SUBSET Meta, NEW p \in Place, NEW q \in Place, Apart(p, q)
  PROVE  \A n \in M : ~(n \in Under(M, p) /\ n \in Under(M, q))
<1> SUFFICES ASSUME NEW n \in M, IsPrefix(p, n.key.path), IsPrefix(q, n.key.path) PROVE FALSE
  BY DEF Under
<1>1. n.key.path \in Place
  BY MetaFacts
<1>2. IsPrefix(p, q) \/ IsPrefix(q, p)
  BY <1>1, PrefixOrder
<1> QED
  BY <1>2 DEF Apart

(* The path of what is transferred.                                        *)
LEMMA RebaseFacts ==
  ASSUME NEW p \in Place, NEW d \in Place, NEW q \in Place, IsPrefix(p, q)
  PROVE  /\ Rebase(q, p, d) = d \o Rest(q, p) /\ Rest(q, p) \in Place /\ q = p \o Rest(q, p)
         /\ Rebase(q, p, d) \in Place /\ IsPrefix(d, Rebase(q, p, d))
         /\ q = p => Rebase(q, p, d) = d
         /\ q # p => /\ IsPrefix(p, ParentPath(q))
                     /\ ParentPath(Rebase(q, p, d)) = Rebase(ParentPath(q), p, d)
<1> DEFINE r == Rest(q, p)
<1>1. Rebase(q, p, d) = d \o r
  BY DEF Rebase, Rest
<1>2. r \in Place /\ q = p \o r
  BY Below
<1> HIDE DEF r
<1>3. d \o r \in Place /\ IsPrefix(d, d \o r)
  BY <1>2, Beneath
<1>4. p \o <<>> = p /\ d \o <<>> = d /\ <<>> \in Place
  BY Places DEF Place
<1>5. q = p => r = <<>>
  <2>1. Rest(p \o <<>>, p) = <<>>
    BY <1>4, Beneath
  <2> QED
    BY <2>1, <1>4 DEF r
<1>6. ASSUME q # p
      PROVE  IsPrefix(p, ParentPath(q)) /\ ParentPath(d \o r) = Rebase(ParentPath(q), p, d)
  <2>1. r # <<>>
    BY <1>2, <1>4, <1>6
  <2>2. ParentPath(q) = p \o ParentPath(r) /\ ParentPath(d \o r) = d \o ParentPath(r) /\ ParentPath(r) \in Place
    BY <2>1, <1>2, ParentBeneath, ParentAt
  <2>3. IsPrefix(p, p \o ParentPath(r)) /\ Rest(p \o ParentPath(r), p) = ParentPath(r)
    BY <2>2, Beneath
  <2> QED
    BY <2>2, <2>3 DEF Rebase, Rest
<1> QED
  BY <1>1, <1>2, <1>3, <1>4, <1>5, <1>6 DEF r

LEMMA RebaseInjective ==
  ASSUME NEW p \in Place, NEW d \in Place, NEW q \in Place, NEW u \in Place,
         IsPrefix(p, q), IsPrefix(p, u), Rebase(q, p, d) = Rebase(u, p, d)
  PROVE  q = u
<1>1. Rest(q, p) \in Place /\ Rest(u, p) \in Place /\ q = p \o Rest(q, p) /\ u = p \o Rest(u, p)
  BY RebaseFacts
<1>2. d \o Rest(q, p) = d \o Rest(u, p)
  <2>1. Rebase(q, p, d) = d \o Rest(q, p)
    BY RebaseFacts
  <2>2. Rebase(u, p, d) = d \o Rest(u, p)
    BY RebaseFacts
  <2> QED
    BY <2>1, <2>2
<1>3. Rest(d \o Rest(q, p), d) = Rest(q, p) /\ Rest(d \o Rest(u, p), d) = Rest(u, p)
  BY <1>1, Beneath
<1> QED
  BY <1>1, <1>2, <1>3

(* The items at or below p, numbered anew or not, and what is kept.        *)
Relabelled(n, id, q) == [n EXCEPT !.id = id, !.key.path = q]
Resettled(n, newId, p, d) == Relabelled(n, newId[n.id], Rebase(n.key.path, p, d))
Arrivals(M, newId, p, d) == {Resettled(n, newId, p, d) : n \in Under(M, p)}
Kept(M, newId, p, d) == {n \in M : n \notin Under(M, d) /\ \A u \in Under(M, p) : newId[u.id] # n.id}
Settled(M, newId, p, d) == Kept(M, newId, p, d) \cup Arrivals(M, newId, p, d)

(* The new identifiers: those of a move are the old ones.                  *)
Numbered(M, newId, p, copyItem) ==
  /\ \A u \in Under(M, p) : newId[u.id] \in Id
  /\ \A u, v \in Under(M, p) : newId[u.id] = newId[v.id] => u = v
  /\ IF copyItem THEN \A u \in Under(M, p), n \in M : newId[u.id] # n.id
                 ELSE \A u \in Under(M, p) : newId[u.id] = u.id
Fitting(M, p, d) == \A u \in Under(M, p) : Rebase(u.key.path, p, d) \in Path

LEMMA Rewritten ==
  ASSUME NEW i, NEW o, NEW b, NEW z, NEW j, NEW q, NEW u, u = [id |-> i, key |-> [path |-> o, dir |-> b], size |-> z]
  PROVE  Relabelled(u, j, q) = [id |-> j, key |-> [path |-> q, dir |-> b], size |-> z]
<1> DEFINE x == [id |-> i, key |-> [path |-> o, dir |-> b], size |-> z]
           y == [id |-> j, key |-> [path |-> o, dir |-> b], size |-> z]
<1>1. [x EXCEPT !.id = j] = y
  OBVIOUS
<1>2. [y EXCEPT !.key.path = q] = [id |-> j, key |-> [path |-> q, dir |-> b], size |-> z]
  OBVIOUS
<1>3. [x EXCEPT !.id = j, !.key.path = q] = [[x EXCEPT !.id = j] EXCEPT !.key.path = q]
  OBVIOUS
<1>4. u = x
  OBVIOUS
<1> HIDE DEF x, y
<1>5. [x EXCEPT !.id = j, !.key.path = q] = [id |-> j, key |-> [path |-> q, dir |-> b], size |-> z]
  BY <1>1, <1>2, <1>3
<1> QED
  BY <1>4, <1>5 DEF Relabelled

Transferring(M, newId, p, d, c) ==
  M \subseteq Meta /\ p \in Path /\ d \in Path /\ Numbered(M, newId, p, c) /\ Fitting(M, p, d)

ResettledAs(u, v, newId, p, d) ==
  /\ v \in Meta /\ v.id = newId[u.id] /\ v.size = u.size
  /\ v.key = [path |-> Rebase(u.key.path, p, d), dir |-> u.key.dir]
  /\ v.key.path = Rebase(u.key.path, p, d) /\ v.key.dir = u.key.dir
  /\ IsPrefix(d, v.key.path)

LEMMA ResettledFacts ==
  ASSUME NEW M, NEW p, NEW d, NEW newId, NEW c, Transferring(M, newId, p, d, c), NEW u, u \in Under(M, p)
  PROVE  ResettledAs(u, Resettled(u, newId, p, d), newId, p, d)
<1>1. /\ u \in Meta /\ newId[u.id] \in Id /\ Rebase(u.key.path, p, d) \in Path /\ IsPrefix(p, u.key.path)
      /\ p \in Path /\ d \in Path
  BY DEF Under, Numbered, Fitting, Transferring
<1>2. u = [id |-> u.id, key |-> [path |-> u.key.path, dir |-> u.key.dir], size |-> u.size] /\ u.key.dir \in BOOLEAN
      /\ u.size \in {0} \cup Range(Size)
  BY <1>1 DEF Meta, Key
<1>3. IsPrefix(d, Rebase(u.key.path, p, d))
  <2>1. u.key.path \in Place /\ p \in Place /\ d \in Place
    BY <1>1, MetaFacts, Places
  <2> QED
    BY <2>1, <1>1, RebaseFacts
<1> DEFINE q == Rebase(u.key.path, p, d)
<1> HIDE DEF q
<1>4. Relabelled(u, newId[u.id], q) = [id |-> newId[u.id], key |-> [path |-> q, dir |-> u.key.dir], size |-> u.size]
  <2>1. PICK i, o, b, z : u = [id |-> i, key |-> [path |-> o, dir |-> b], size |-> z]
    BY <1>2
  <2>2. Relabelled(u, newId[u.id], q) = [id |-> newId[u.id], key |-> [path |-> q, dir |-> b], size |-> z]
    BY <2>1, Rewritten
  <2>3. u.key.dir = b /\ u.size = z
    BY <2>1
  <2> QED
    BY <2>2, <2>3
<1>5. Resettled(u, newId, p, d) = [id |-> newId[u.id], key |-> [path |-> q, dir |-> u.key.dir], size |-> u.size]
  BY <1>4 DEF Resettled, q
<1>6. q \in Path /\ IsPrefix(d, q)
  BY <1>1, <1>3 DEF q
<1>7. Resettled(u, newId, p, d) \in Meta
  BY <1>1, <1>2, <1>5, <1>6 DEF Meta, Key
<1> QED
  BY <1>1, <1>5, <1>6, <1>7 DEF q, ResettledAs

LEMMA SettledIndex ==
  ASSUME NEW M, Index(M), NEW src \in M, NEW p, p = src.key.path, NEW d \in Path, NEW newId, NEW c \in BOOLEAN,
         Apart(p, d), Numbered(M, newId, p, c), Fitting(M, p, d),
         Len(d) = 1 \/ \E n \in M : n.key = DirKey(ParentPath(d))
  PROVE  Index(Settled(M, newId, p, d))
<1> DEFINE A == Under(M, p)
           K == Kept(M, newId, p, d)
           N == Settled(M, newId, p, d)
           Mv(n) == Resettled(n, newId, p, d)
<1>1. M \in SUBSET Meta /\ M \subseteq Meta /\ src \in Meta /\ A \subseteq M /\ K \subseteq M
  BY DEF Index, Under, Kept
<1>2. p \in Path /\ p \in Place /\ d \in Place /\ p # <<>> /\ d # <<>>
  BY <1>1, MetaFacts, Places
<1>3. \A u \in A : /\ Mv(u) \in Meta /\ Mv(u).id = newId[u.id]
                   /\ Mv(u).key = [path |-> Rebase(u.key.path, p, d), dir |-> u.key.dir]
                   /\ Mv(u).key.path = Rebase(u.key.path, p, d) /\ IsPrefix(d, Mv(u).key.path)
  <2>1. Transferring(M, newId, p, d, c)
    BY <1>1, <1>2 DEF Transferring
  <2> QED
    BY <2>1, ResettledFacts DEF ResettledAs
<1>4. \A u \in A : u.key.path \in Place /\ u.key.path \in Path /\ IsPrefix(p, u.key.path)
  BY <1>1, MetaFacts DEF Under
<1>5. \A k \in K : ~IsPrefix(d, k.key.path) /\ \A u \in A : newId[u.id] # k.id
  BY DEF Kept, Under
<1>6. N = K \cup {Mv(u) : u \in A}
  BY DEF Settled, Arrivals
<1> HIDE DEF N, Mv, K, A
<1>7. N \subseteq Meta
  BY <1>1, <1>3, <1>6
<1>8. ASSUME NEW m \in N, NEW n \in N, m.id = n.id \/ m.key.path = n.key.path PROVE m = n
  <2>1. CASE m \in K /\ n \in K
    BY <2>1, <1>1, <1>8, Unique
  <2>2. \A k \in K, u \in A : k.id # Mv(u).id /\ k.key.path # Mv(u).key.path
    BY <1>3, <1>5
  <2>3. ASSUME NEW u \in A, NEW v \in A, m = Mv(u), n = Mv(v) PROVE m = n
    <3>1. newId[u.id] = newId[v.id] => u = v
      BY DEF Numbered, A
    <3>2. Rebase(u.key.path, p, d) = Rebase(v.key.path, p, d) => u.key.path = v.key.path
      BY <1>2, <1>4, RebaseInjective
    <3>3. u.key.path = v.key.path => u = v
      BY <1>1, Unique
    <3> QED
      BY <1>3, <1>8, <2>3, <3>1, <3>2, <3>3
  <2> QED
    BY <1>6, <1>8, <2>1, <2>2, <2>3
<1>9. ASSUME NEW k \in K PROVE Len(k.key.path) = 1 \/ \E n \in N : n.key = DirKey(ParentPath(k.key.path))
  <2> SUFFICES ASSUME Len(k.key.path) # 1 PROVE \E n \in N : n.key = DirKey(ParentPath(k.key.path))
    OBVIOUS
  <2>1. PICK n \in M : n.key = DirKey(ParentPath(k.key.path))
    BY <1>1 DEF Index, WellFormed
  <2>2. n.key.path = ParentPath(k.key.path) /\ k.key.path \in Place /\ n.key.path \in Place /\ k.key.path # <<>>
    <3>1. n \in Meta /\ k \in Meta
      BY <1>1
    <3>2. n.key.path \in Place /\ k.key.path \in Place /\ k.key.path # <<>>
      BY <3>1, MetaFacts
    <3> QED
      BY <2>1, <3>2 DEF DirKey
  <2>3. IsPrefix(n.key.path, k.key.path)
    BY <2>2, ParentOf
  <2>4. ~IsPrefix(d, n.key.path)
    BY <2>2, <2>3, <1>2, <1>5, PrefixOrder
  <2>5. \A u \in A : newId[u.id] # n.id
    <3>1. CASE c
      BY <3>1 DEF Numbered, A
    <3>2. CASE ~c
      <4> SUFFICES ASSUME NEW u \in A, newId[u.id] = n.id PROVE FALSE
        OBVIOUS
      <4>1. newId[u.id] = u.id
        BY <3>2 DEF Numbered, A
      <4>2. u = n
        <5>1. u \in M /\ n \in M /\ u.id = n.id
          BY <4>1, <1>1
        <5> QED
          BY <5>1, Unique
      <4>3. IsPrefix(p, k.key.path)
        BY <4>2, <2>2, <2>3, <1>2, <1>4, PrefixOrder
      <4>4. k \in A
        BY <4>3, <1>1 DEF A, Under
      <4>5. newId[k.id] = k.id
        BY <4>4, <3>2 DEF Numbered, A
      <4> QED
        BY <4>4, <4>5, <1>5
    <3> QED
      BY <3>1, <3>2
  <2>6. n \in K
    BY <2>4, <2>5 DEF K, Kept, Under, A
  <2> QED
    BY <2>1, <2>6, <1>6
<1>10. ASSUME NEW u \in A PROVE Len(Mv(u).key.path) = 1 \/ \E n \in N : n.key = DirKey(ParentPath(Mv(u).key.path))
  <2>1. CASE u.key.path = p
    <3>1. Mv(u).key.path = d
      BY <2>1, <1>2, <1>3, <1>4, RebaseFacts
    <3>2. CASE Len(d) = 1
      BY <3>1, <3>2
    <3>3. CASE Len(d) # 1
      <4>1. PICK n \in M : n.key = DirKey(ParentPath(d))
        BY <3>3
      <4>2. n.key.path = ParentPath(d) /\ n.key.path \in Place
        BY <4>1, <1>1, MetaFacts DEF DirKey
      <4>3. ParentPath(d) # d /\ IsPrefix(ParentPath(d), d)
        BY <1>2, ParentOf
      <4>4. ~IsPrefix(d, n.key.path)
        BY <4>2, <4>3, <1>2, PrefixOrder
      <4>5. ~IsPrefix(p, n.key.path)
        BY <4>2, <4>3, <1>2, PrefixOrder DEF Apart
      <4>6. \A v \in A : newId[v.id] # n.id
        <5>1. CASE c
          BY <5>1 DEF Numbered, A
        <5>2. CASE ~c
          <6>1. \A v \in A : newId[v.id] = v.id /\ v # n
            BY <5>2, <4>5 DEF Numbered, A, Under
          <6> QED
            BY <6>1, <1>1, Unique
        <5> QED
          BY <5>1, <5>2
      <4>7. n \in K
        BY <4>4, <4>6 DEF K, Kept, Under, A
      <4> QED
        BY <3>1, <4>1, <4>7, <1>6
    <3> QED
      BY <3>2, <3>3
  <2>2. CASE u.key.path # p
    <3>1. IsPrefix(p, ParentPath(u.key.path)) /\ ParentPath(Mv(u).key.path) = Rebase(ParentPath(u.key.path), p, d)
      <4>1. u.key.path \in Place /\ IsPrefix(p, u.key.path) /\ Mv(u).key.path = Rebase(u.key.path, p, d)
        BY <1>3, <1>4
      <4> QED
        BY <2>2, <1>2, <4>1, RebaseFacts
    <3>2. Len(u.key.path) # 1
      <4>1. u.key.path # <<>> /\ (Len(u.key.path) = 1 => ParentPath(u.key.path) = <<>>)
        BY <1>4, Places, ParentOf
      <4>2. IsPrefix(p, <<>>) => p = <<>>
        BY <1>2, Places, PrefixOrder
      <4> QED
        BY <3>1, <4>1, <4>2, <1>2
    <3>3. PICK n \in M : n.key = DirKey(ParentPath(u.key.path))
      BY <3>2, <1>1 DEF Index, WellFormed
    <3>4. n.key.path = ParentPath(u.key.path) /\ n.key.dir = TRUE
      BY <3>3 DEF DirKey
    <3>5. n \in A
      BY <3>1, <3>4 DEF A, Under
    <3>6. Mv(n).key = DirKey(ParentPath(Mv(u).key.path)) /\ Mv(n) \in N
      BY <3>1, <3>4, <3>5, <1>3, <1>6 DEF DirKey
    <3> QED
      BY <3>6
  <2> QED
    BY <2>1, <2>2
<1>11. WellFormed(N)
  BY <1>6, <1>8, <1>9, <1>10 DEF WellFormed
<1> QED
  BY <1>7, <1>11 DEF Index, N

(* transferMetadata: the maps afterwards.                                  *)
IdsAre(ids, gone, newId, p, d) ==
  /\ DOMAIN ids = (DOMAIN idMap \ gone) \cup {newId[u.id] : u \in Under(indexFile, p)}
  /\ \A u \in Under(indexFile, p) : ids[newId[u.id]] = Resettled(u, newId, p, d)
  /\ \A j \in DOMAIN idMap \ gone : (\A u \in Under(indexFile, p) : newId[u.id] # j) => ids[j] = idMap[j]

LEMMA TransferIdsAre ==
  ASSUME IInv, pc = "ready", NEW src \in indexFile, NEW p, p = src.key.path, NEW d \in Path, NEW newId,
         NEW c \in BOOLEAN, Numbered(indexFile, newId, p, c), NEW gone, NEW ids,
         ids = TransferIds(Covered(src), gone, newId, src, d)
  PROVE  IdsAre(ids, gone, newId, p, d)
<1> DEFINE A == Under(indexFile, p)
           items == Covered(src)
           Moved(i) == [idMap[i] EXCEPT !.id = newId[i],
                                        !.key.path = Rebase(idMap[i].key.path, src.key.path, d)]
           new == {newId[i] : i \in items}
           g == [j \in new |-> Moved(CHOOSE i \in items : newId[i] = j)]
<1>1. items = {u.id : u \in A}
  BY CoveredIs
<1>2. \A u \in A : u \in indexFile /\ u.id \in items /\ idMap[u.id] = u
  BY <1>1, Lookup DEF Under
<1>3. \A u \in A : Moved(u.id) = Resettled(u, newId, p, d)
  BY <1>2 DEF Resettled, Relabelled
<1>4. new = {newId[u.id] : u \in A}
  BY <1>1
<1>5. \A u \in A : (CHOOSE i \in items : newId[i] = newId[u.id]) = u.id
  <2> SUFFICES ASSUME NEW u \in A PROVE (CHOOSE i \in items : newId[i] = newId[u.id]) = u.id
    OBVIOUS
  <2>1. \A i \in items : newId[i] = newId[u.id] => i = u.id
    BY <1>1 DEF Numbered
  <2> QED
    BY <2>1, <1>2
<1>6. ids = With(Without(idMap, gone), g)
  <2>1. ids = TransferIds(items, gone, newId, src, d)
    OBVIOUS
  <2> HIDE DEF items
  <2>2. TransferIds(items, gone, newId, src, d) = With(Without(idMap, gone), g)
    BY Zenon DEF TransferIds
  <2> HIDE DEF g
  <2> QED
    BY <2>1, <2>2
<1> HIDE DEF Moved, items, new
<1>7. DOMAIN g = new /\ \A u \in A : g[newId[u.id]] = Resettled(u, newId, p, d)
  <2>1. DOMAIN g = new
    OBVIOUS
  <2>2. ASSUME NEW u \in A PROVE g[newId[u.id]] = Resettled(u, newId, p, d)
    <3>1. newId[u.id] \in new
      BY <1>4
    <3>2. g[newId[u.id]] = Moved(CHOOSE i \in items : newId[i] = newId[u.id])
      BY <3>1
    <3> QED
      BY <3>2, <1>3, <1>5
  <2> QED
    BY <2>1, <2>2
<1> HIDE DEF g
<1>8. /\ DOMAIN ids = (DOMAIN idMap \ gone) \cup new
      /\ \A j \in new : ids[j] = g[j]
      /\ \A j \in DOMAIN idMap \ gone : j \notin new => ids[j] = idMap[j]
  BY <1>6, <1>7 DEF With, Without, Restrict
<1>9. \A u \in A : newId[u.id] \in new
  BY <1>4
<1> QED
  BY <1>4, <1>7, <1>8, <1>9 DEF IdsAre

PathsAre(paths, gone, left, newId, p, d) ==
  /\ DOMAIN paths = (DOMAIN pathMap \ (KeysOf(gone) \cup left))
                      \cup {Resettled(u, newId, p, d).key : u \in Under(indexFile, p)}
  /\ \A u \in Under(indexFile, p) : paths[Resettled(u, newId, p, d).key] = Resettled(u, newId, p, d)
  /\ \A k \in DOMAIN pathMap \ (KeysOf(gone) \cup left) :
       (\A u \in Under(indexFile, p) : Resettled(u, newId, p, d).key # k) => paths[k] = pathMap[k]

LEMMA TransferPathsAre ==
  ASSUME IInv, pc = "ready", NEW src \in indexFile, NEW p, p = src.key.path, NEW d \in Path, NEW newId,
         NEW c \in BOOLEAN, Numbered(indexFile, newId, p, c), Fitting(indexFile, p, d), NEW gone, NEW paths,
         paths = TransferPaths(Covered(src), gone, newId, src, d), NEW left,
         left = IF c THEN {} ELSE {u.key : u \in Under(indexFile, p)}
  PROVE  PathsAre(paths, gone, left, newId, p, d)
<1> DEFINE A == Under(indexFile, p)
           Mv(u) == Resettled(u, newId, p, d)
           items == Covered(src)
           ids == TransferIds(items, gone, newId, src, d)
           new == {newId[i] : i \in items}
           lost == IF \A i \in items : newId[i] = i THEN KeysOf(items) ELSE {}
           keys == {ids[j].key : j \in new}
           g == [k \in keys |-> ids[CHOOSE j \in new : ids[j].key = k]]
<1>1. items = {u.id : u \in A} /\ KeysOf(items) = {u.key : u \in A}
  BY CoveredIs
<1>2. src \in A /\ Index(indexFile) /\ indexFile \in SUBSET Meta /\ p \in Path /\ p \in Place /\ d \in Place /\ A \subseteq indexFile
  <2>1. Index(indexFile) /\ indexFile \in SUBSET Meta /\ p \in Path /\ p \in Place /\ d \in Place
    BY ShapeFacts, MetaFacts, Places
  <2> QED
    BY <2>1, PrefixOrder DEF Under
<1>12. \A w \in A : Resettled(w, newId, p, d).key.path = Rebase(w.key.path, p, d)
  <2> SUFFICES ASSUME NEW w \in Under(indexFile, p)
               PROVE  Resettled(w, newId, p, d).key.path = Rebase(w.key.path, p, d)
    OBVIOUS
  <2> HIDE DEF Mv, items, ids, new, lost, keys, g, A
  <2>1. Transferring(indexFile, newId, p, d, c)
    BY <1>2 DEF Transferring
  <2> QED
    <3>1. w \in Under(indexFile, p)
      OBVIOUS
    <3>2. ResettledAs(w, Resettled(w, newId, p, d), newId, p, d)
      BY ONLY <2>1, <3>1, ResettledFacts
    <3> QED
      BY <3>2 DEF ResettledAs
<1>3. lost = left
  <2>1. CASE c
    <3>1. newId[src.id] # src.id
      BY <2>1, <1>2 DEF Numbered
    <3> QED
      BY <3>1, <2>1, <1>1, <1>2
  <2>2. CASE ~c
    <3>1. \A i \in items : newId[i] = i
      BY <2>2, <1>1 DEF Numbered
    <3> QED
      BY <3>1, <2>2, <1>1
  <2> QED
    BY <2>1, <2>2
<1>4. new = {newId[u.id] : u \in A}
  BY <1>1
<1>5. \A u \in A : ids[newId[u.id]] = Mv(u)
  <2> DEFINE h == ids
  <2>1. h = TransferIds(Covered(src), gone, newId, src, d)
    OBVIOUS
  <2> HIDE DEF h
  <2>2. \A u \in A : h[newId[u.id]] = Resettled(u, newId, p, d)
    <3>1. IdsAre(h, gone, newId, p, d)
      BY <2>1, TransferIdsAre
    <3> QED
      BY <3>1 DEF IdsAre
  <2> QED
    BY <2>2 DEF h
<1>6. paths = With(Without(pathMap, KeysOf(gone) \cup lost), g)
  BY DEF TransferPaths
<1> HIDE DEF ids, items, new, lost, Mv
<1>7. keys = {Mv(u).key : u \in A}
  BY <1>4, <1>5
<1>8. \A u \in A : (CHOOSE j \in new : ids[j].key = Mv(u).key) = newId[u.id]
  <2> SUFFICES ASSUME NEW u \in A PROVE (CHOOSE j \in new : ids[j].key = Mv(u).key) = newId[u.id]
    OBVIOUS
  <2>1. newId[u.id] \in new /\ ids[newId[u.id]].key = Mv(u).key
    BY <1>4, <1>5
  <2>2. ASSUME NEW j \in new, ids[j].key = Mv(u).key PROVE j = newId[u.id]
    <3>1. PICK v \in A : j = newId[v.id]
      BY <1>4
    <3>2. Mv(v).key = Mv(u).key
      BY <3>1, <2>2, <1>5
    <3>3. Mv(v).key.path = Rebase(v.key.path, p, d) /\ Mv(u).key.path = Rebase(u.key.path, p, d)
      BY <1>12 DEF Mv
    <3>4. /\ v.key.path \in Place /\ u.key.path \in Place /\ IsPrefix(p, v.key.path) /\ IsPrefix(p, u.key.path)
          /\ Rebase(v.key.path, p, d) = Rebase(u.key.path, p, d)
      BY <3>2, <3>3, <1>2, MetaFacts DEF Under
    <3>5. v.key.path = u.key.path
      BY <3>4, <1>2, RebaseInjective
    <3>6. v = u
      BY <3>5, <1>2, Unique
    <3> QED
      BY <3>1, <3>6
  <2> QED
    BY <2>1, <2>2
<1>9. DOMAIN g = keys /\ \A u \in A : g[Mv(u).key] = Mv(u)
  <2>1. DOMAIN g = keys
    OBVIOUS
  <2>2. ASSUME NEW u \in A PROVE g[Mv(u).key] = Mv(u)
    <3>1. Mv(u).key \in keys
      BY <1>7
    <3> HIDE DEF keys
    <3>2. g[Mv(u).key] = ids[CHOOSE j \in new : ids[j].key = Mv(u).key]
      BY <3>1
    <3> QED
      BY <3>2, <1>5, <1>8
  <2> QED
    BY <2>1, <2>2
<1> HIDE DEF g, keys
<1>10. /\ DOMAIN paths = (DOMAIN pathMap \ (KeysOf(gone) \cup left)) \cup keys
       /\ \A k \in keys : paths[k] = g[k]
       /\ \A k \in DOMAIN pathMap \ (KeysOf(gone) \cup left) : k \notin keys => paths[k] = pathMap[k]
  BY <1>3, <1>6, <1>9 DEF With, Without, Restrict
<1>11. \A u \in A : Mv(u).key \in keys
  BY <1>7
<1> QED
  BY <1>7, <1>9, <1>10, <1>11 DEF Mv, PathsAre

LEMMA SettledMaps ==
  ASSUME IInv, pc = "ready", NEW src \in indexFile, NEW p, p = src.key.path, NEW d \in Path, NEW newId,
         NEW c \in BOOLEAN, Transferring(indexFile, newId, p, d, c), Apart(p, d),
         NEW gone, gone = {n.id : n \in Under(indexFile, d)},
         NEW ids, ids = TransferIds(Covered(src), gone, newId, src, d),
         NEW paths, paths = TransferPaths(Covered(src), gone, newId, src, d)
  PROVE  Range(ids) = Settled(indexFile, newId, p, d) /\ Maps(Range(ids), ids, paths)
<1> DEFINE M == indexFile
           A == Under(M, p)
           G == Under(M, d)
           Mv(u) == Resettled(u, newId, p, d)
           K == Kept(M, newId, p, d)
           N == Settled(M, newId, p, d)
           left == IF c THEN {} ELSE {u.key : u \in A}
<1>1. Index(M) /\ M \in SUBSET Meta /\ A \subseteq M /\ G \subseteq M /\ Numbered(M, newId, p, c) /\ Fitting(M, p, d)
  BY ShapeFacts DEF Under, Transferring
<1>2. /\ \A i \in DOMAIN idMap : idMap[i] \in M /\ idMap[i].id = i
      /\ \A m \in M : m.id \in DOMAIN idMap /\ idMap[m.id] = m
      /\ \A k \in DOMAIN pathMap : pathMap[k] \in M /\ pathMap[k].key = k
      /\ \A m \in M : m.key \in DOMAIN pathMap /\ pathMap[m.key] = m
  BY Lookup
<1>3. \A u \in A : /\ Mv(u) \in Meta /\ Mv(u).id = newId[u.id] /\ IsPrefix(d, Mv(u).key.path)
  <2> SUFFICES ASSUME NEW u \in A PROVE Mv(u) \in Meta /\ Mv(u).id = newId[u.id] /\ IsPrefix(d, Mv(u).key.path)
    OBVIOUS
  <2>1. u \in Under(indexFile, p)
    OBVIOUS
  <2>2. ResettledAs(u, Resettled(u, newId, p, d), newId, p, d)
    BY <2>1, ResettledFacts
  <2> QED
    BY <2>2 DEF ResettledAs
<1>4. N = K \cup {Mv(u) : u \in A} /\ K = {n \in M : n \notin G /\ \A u \in A : newId[u.id] # n.id}
  BY DEF Settled, Arrivals, Kept
<1>5. IdsAre(ids, gone, newId, p, d)
  BY <1>1, TransferIdsAre
<1>6. /\ DOMAIN ids = (DOMAIN idMap \ gone) \cup {newId[u.id] : u \in A}
      /\ \A u \in A : ids[newId[u.id]] = Mv(u)
      /\ \A j \in DOMAIN idMap \ gone : (\A u \in A : newId[u.id] # j) => ids[j] = idMap[j]
  BY <1>5 DEF IdsAre
<1>7. /\ DOMAIN paths = (DOMAIN pathMap \ (KeysOf(gone) \cup left)) \cup {Mv(u).key : u \in A}
      /\ \A u \in A : paths[Mv(u).key] = Mv(u)
      /\ \A k \in DOMAIN pathMap \ (KeysOf(gone) \cup left) :
           (\A u \in A : Mv(u).key # k) => paths[k] = pathMap[k]
  <2>1. PathsAre(paths, gone, left, newId, p, d)
    BY <1>1, TransferPathsAre
  <2> QED
    BY <2>1 DEF PathsAre
<1>8. KeysOf(gone) = {n.key : n \in G}
  BY <1>1, <1>2 DEF KeysOf
<1>9. \A n \in M : (n.id \in gone <=> n \in G) /\ (n.key \in KeysOf(gone) <=> n \in G)
  BY <1>1, <1>8, Unique
<1> HIDE DEF Mv, N, K, A, G
<1>10. \A n \in M : (\A u \in A : newId[u.id] # n.id) => n.key \notin left
  <2> SUFFICES ASSUME NEW n \in M, \A u \in A : newId[u.id] # n.id, n.key \in left PROVE FALSE
    OBVIOUS
  <2>1. ~c
    OBVIOUS
  <2>2. PICK u \in A : u.key = n.key
    BY <2>1
  <2>3. u \in M /\ u = n
    BY <2>2, <1>1, Unique
  <2> QED
    BY <2>1, <2>2, <2>3, <1>1 DEF Numbered, A
<1>11. \A n \in M : n.key \notin left /\ n \notin G => \A u \in A : newId[u.id] # n.id
  <2> SUFFICES ASSUME NEW n \in M, n.key \notin left, n \notin G, NEW u \in A, newId[u.id] = n.id PROVE FALSE
    OBVIOUS
  <2>1. ~c
    BY <1>1 DEF Numbered, A
  <2>2. newId[u.id] = u.id /\ u \in M
    BY <2>1, <1>1 DEF Numbered, A
  <2>3. u = n
    BY <2>2, <1>1, Unique
  <2> QED
    BY <2>1, <2>3
<1> HIDE DEF left
<1>12. \A n \in K, u \in A : n.key # Mv(u).key /\ n.id # Mv(u).id
  <2> SUFFICES ASSUME NEW n \in K, NEW u \in A PROVE n.key # Mv(u).key /\ n.id # Mv(u).id
    OBVIOUS
  <2>1. n.id # Mv(u).id
    BY <1>3, <1>4
  <2>2. ~IsPrefix(d, n.key.path)
    BY <1>4 DEF G, Under
  <2> QED
    BY <2>1, <2>2, <1>3
<1>13. \A n \in K : /\ n.id \in DOMAIN ids /\ ids[n.id] = n
                    /\ n.key \in DOMAIN paths /\ paths[n.key] = n
  <2> SUFFICES ASSUME NEW n \in K
               PROVE  /\ n.id \in DOMAIN ids /\ ids[n.id] = n
                      /\ n.key \in DOMAIN paths /\ paths[n.key] = n
    OBVIOUS
  <2>1. n \in M /\ n \notin G /\ \A u \in A : newId[u.id] # n.id
    BY <1>4
  <2>2. n.id \in DOMAIN idMap \ gone /\ idMap[n.id] = n
    BY <2>1, <1>2, <1>9
  <2>3. n.key \in DOMAIN pathMap \ (KeysOf(gone) \cup left) /\ pathMap[n.key] = n
    BY <2>1, <1>2, <1>9, <1>10
  <2>4. \A u \in A : Mv(u).key # n.key
    BY <1>12
  <2> QED
    BY <2>1, <2>2, <2>3, <2>4, <1>6, <1>7
<1>14. \A u \in A : /\ Mv(u).id \in DOMAIN ids /\ ids[Mv(u).id] = Mv(u)
                    /\ Mv(u).key \in DOMAIN paths /\ paths[Mv(u).key] = Mv(u)
  BY <1>3, <1>6, <1>7
<1>15. \A j \in DOMAIN ids : ids[j] \in N /\ ids[j].id = j
  <2> SUFFICES ASSUME NEW j \in DOMAIN ids PROVE ids[j] \in N /\ ids[j].id = j
    OBVIOUS
  <2>1. CASE \E u \in A : j = newId[u.id]
    BY <2>1, <1>3, <1>4, <1>6
  <2>2. CASE \A u \in A : newId[u.id] # j
    <3>1. j \in DOMAIN idMap \ gone /\ ids[j] = idMap[j]
      BY <2>2, <1>6
    <3>2. idMap[j] \in M /\ idMap[j].id = j
      BY <3>1, <1>2
    <3>3. idMap[j] \notin G
      BY <3>1, <3>2, <1>9
    <3> QED
      BY <2>2, <3>1, <3>2, <3>3, <1>4
  <2> QED
    BY <2>1, <2>2
<1>16. \A k \in DOMAIN paths : paths[k] \in N /\ paths[k].key = k
  <2> SUFFICES ASSUME NEW k \in DOMAIN paths PROVE paths[k] \in N /\ paths[k].key = k
    OBVIOUS
  <2>1. CASE \E u \in A : k = Mv(u).key
    BY <2>1, <1>4, <1>7
  <2>2. CASE \A u \in A : Mv(u).key # k
    <3>1. k \in DOMAIN pathMap \ (KeysOf(gone) \cup left) /\ paths[k] = pathMap[k]
      BY <2>2, <1>7
    <3>2. pathMap[k] \in M /\ pathMap[k].key = k
      BY <3>1, <1>2
    <3>3. pathMap[k] \notin G /\ pathMap[k].key \notin left
      BY <3>1, <3>2, <1>9
    <3>4. \A u \in A : newId[u.id] # pathMap[k].id
      BY <3>2, <3>3, <1>11
    <3> QED
      BY <3>1, <3>2, <3>3, <3>4, <1>4
  <2> QED
    BY <2>1, <2>2
<1>17. \A n \in N : /\ n.id \in DOMAIN ids /\ ids[n.id] = n
                    /\ n.key \in DOMAIN paths /\ paths[n.key] = n
  BY <1>4, <1>13, <1>14
<1>18. Range(ids) = N /\ Range(paths) = N
  <2>1. \A n : n \in Range(ids) <=> n \in N
    BY <1>15, <1>17 DEF Range
  <2>2. \A n : n \in Range(paths) <=> n \in N
    BY <1>16, <1>17 DEF Range
  <2> QED
    BY <2>1, <2>2
<1>19. N \subseteq Meta
  BY <1>1, <1>3, <1>4
<1>20. Maps(N, ids, paths)
  BY <1>15, <1>16, <1>18, <1>19 DEF Maps
<1> QED
  BY <1>18, <1>20 DEF N

(* What comes to the destination has the files of the source.              *)
Sourced(B, s, p) ==
  \A u \in Under(indexFile, p) : /\ s \o Rest(u.key.path, p) \in DOMAIN B
                                 /\ B[s \o Rest(u.key.path, p)] = B[u.key.path]
(* The files of the items before and after.                                *)
Brought(M, B, F, newId, p, d) ==
  /\ \A n \in Kept(M, newId, p, d) : /\ n.key.path \in DOMAIN B /\ n.key.path \in DOMAIN F
                                     /\ F[n.key.path] = B[n.key.path]
  /\ \A u \in Under(M, p) : LET q == Resettled(u, newId, p, d).key.path IN
                              u.key.path \in DOMAIN B /\ q \in DOMAIN F /\ F[q] = B[u.key.path]

LEMMA SettledFiles ==
  ASSUME IInv, NEW p, NEW d, NEW newId, NEW c \in BOOLEAN,
         Transferring(indexFile, newId, p, d, c), Apart(p, d), NEW B, FilesMatch(indexFile, B),
         NEW s \in Place, s = IF c THEN New ELSE p, Sourced(B, s, p), NEW F, Arrived(B, F, s, d)
  PROVE  FilesMatch(Settled(indexFile, newId, p, d), F) /\ Brought(indexFile, B, F, newId, p, d)
<1> DEFINE M == indexFile
           A == Under(M, p)
           K == Kept(M, newId, p, d)
           N == Settled(M, newId, p, d)
           V == Arrivals(M, newId, p, d)
<1>1. Index(M) /\ M \in SUBSET Meta /\ A \subseteq M /\ Numbered(M, newId, p, c) /\ p \in Path /\ d \in Path
  BY ShapeFacts DEF Under, Transferring
<1>2. p \in Place /\ d \in Place
  BY <1>1, Places
<1>3. \A n \in M : n.key.path \in Path /\ n.key.path \in Place /\ n.key.path \in DOMAIN B
  BY <1>1, MetaFacts DEF FilesMatch
<1>4. ASSUME NEW u \in A
      PROVE  /\ ResettledAs(u, Resettled(u, newId, p, d), newId, p, d)
             /\ Resettled(u, newId, p, d).key.path = d \o Rest(u.key.path, p) /\ Rest(u.key.path, p) \in Place
  <2>1. u \in Under(indexFile, p)
    OBVIOUS
  <2>2. ResettledAs(u, Resettled(u, newId, p, d), newId, p, d)
    BY <2>1, ResettledFacts
  <2>3. IsPrefix(p, u.key.path) /\ u.key.path \in Place
    BY <1>1, <1>3 DEF Under
  <2>4. Rebase(u.key.path, p, d) = d \o Rest(u.key.path, p) /\ Rest(u.key.path, p) \in Place
    BY <2>3, <1>2, RebaseFacts
  <2> QED
    BY <2>2, <2>4 DEF ResettledAs
<1>5. ASSUME NEW n \in K PROVE Stays(n, s, d)
  <2>1. n \in M /\ ~IsPrefix(d, n.key.path) /\ \A u \in A : newId[u.id] # n.id
    BY DEF Kept, Under
  <2>2. CASE c
    BY <2>1, <2>2, <1>3, OldPlace DEF Stays
  <2>3. CASE ~c
    <3>1. n \notin A
      BY <2>1, <2>3, <1>1 DEF Numbered
    <3> QED
      BY <2>1, <2>3, <3>1 DEF Stays, Under
  <2> QED
    BY <2>2, <2>3
<1>6. \A u \in A : F[d \o Rest(u.key.path, p)] = B[u.key.path] /\ d \o Rest(u.key.path, p) \in DOMAIN F
  <2> SUFFICES ASSUME NEW u \in A
               PROVE  F[d \o Rest(u.key.path, p)] = B[u.key.path] /\ d \o Rest(u.key.path, p) \in DOMAIN F
    OBVIOUS
  <2> DEFINE r == Rest(u.key.path, p)
  <2>1. r \in Place /\ s \o r \in DOMAIN B /\ B[s \o r] = B[u.key.path]
    BY <1>4 DEF Sourced
  <2> HIDE DEF r
  <2>2. d \o r \in DOMAIN F /\ F[d \o r] = B[s \o r]
    BY <2>1 DEF Arrived
  <2> QED
    BY <2>1, <2>2 DEF r
<1>7. ASSUME NEW u \in A PROVE Comes(Resettled(u, newId, p, d), Rest(u.key.path, p), B, s, d)
  <2> DEFINE r == Rest(u.key.path, p)
             v == Resettled(u, newId, p, d)
  <2>1. s \o r \in DOMAIN B /\ B[s \o r] = B[u.key.path]
    BY DEF Sourced
  <2>2. v.key.path = d \o r /\ v.key.dir = u.key.dir /\ v.size = u.size
    BY <1>4 DEF ResettledAs
  <2>3. /\ (B[u.key.path] = Dir) = u.key.dir
        /\ ~u.key.dir => B[u.key.path] \in Content /\ Size[B[u.key.path]] = u.size
    BY <1>1 DEF FilesMatch
  <2> HIDE DEF r, v
  <2>4. Comes(v, r, B, s, d)
    BY <2>1, <2>2, <2>3 DEF Comes
  <2> QED
    BY <2>4 DEF r, v
<1>8. FilesMatch(N, F)
  <2>1. \A v \in V : \E r \in Place : Comes(v, r, B, s, d)
    BY <1>4, <1>7 DEF Arrivals
  <2>2. Carried(N, B, s, d)
    <3> HIDE DEF V, K
    <3>1. \A n \in N : n \in K \/ n \in V
      BY DEF Settled, K, V
    <3> QED
      BY <2>1, <3>1, <1>5 DEF Carried
  <2>3. N \in SUBSET Meta
    <3>1. \A u \in A : Resettled(u, newId, p, d) \in Meta
      BY <1>4 DEF ResettledAs
    <3> QED
      BY <3>1, <1>1 DEF Settled, Kept, Arrivals
  <2> QED
    BY <2>2, <2>3, <1>2, ArrivedFiles
<1>9. \A n \in K : n.key.path \in DOMAIN F /\ F[n.key.path] = B[n.key.path] /\ n.key.path \in DOMAIN B
  <2> SUFFICES ASSUME NEW n \in K
               PROVE  n.key.path \in DOMAIN F /\ F[n.key.path] = B[n.key.path] /\ n.key.path \in DOMAIN B
    OBVIOUS
  <2>1. n \in M /\ Stays(n, s, d)
    BY <1>5 DEF Kept
  <2>2. n.key.path \in DOMAIN B /\ n.key.path \in Place /\ ~IsPrefix(TransactionDir, n.key.path)
    BY <2>1, <1>3, Places
  <2> QED
    BY <2>1, <2>2 DEF Arrived, Stays
<1>10. \A u \in A : u.key.path \in DOMAIN B /\ Resettled(u, newId, p, d).key.path = d \o Rest(u.key.path, p)
  BY <1>1, <1>3, <1>4
<1>11. Brought(indexFile, B, F, newId, p, d)
  BY <1>6, <1>9, <1>10 DEF Brought
<1> QED
  BY <1>8, <1>11

(* The rules of AtomicDrive are those of this module.                      *)
LEMMA SameRules ==
  /\ \A k, q : Drive!TransferAllowed(k, q) <=> TransferAllowed(k, q)
  /\ \A x, y : Drive!CheckReplacement(x, y) <=> CheckReplacement(x, y)
  /\ \A x, y, z : Drive!Rebase(x, y, z) = Rebase(x, y, z)
<1>1. \A k, q : Drive!TransferAllowed(k, q) <=> TransferAllowed(k, q)
  <2>1. \A x, y : Drive!IsStrictPrefix(x, y) <=> IsStrictPrefix(x, y)
    BY SamePrefix
  <2> QED
    BY <2>1 DEF Drive!TransferAllowed, TransferAllowed, Drive!Root, Root
<1>2. \A x, y : Drive!CheckReplacement(x, y) <=> CheckReplacement(x, y)
  BY DEF Drive!CheckReplacement, CheckReplacement
<1>3. \A x, y, z : Drive!Rebase(x, y, z) = Rebase(x, y, z)
  BY DEF Drive!Rebase, Rebase
<1> QED
  BY <1>1, <1>2, <1>3

LEMMA BelowBoth ==
  \A S, X, Y : Drive!Below(S, X \cup Y) = Drive!Below(S, X) \cup Drive!Below(S, Y)
BY DEF Drive!Below

LEMMA TargetIs ==
  ASSUME NEW M, Index(M), NEW B, NEW d \in Path
  PROVE  /\ (\A m \in M : m.key.path # d) => Drive!Target(ItemsOf(M, B), d) = NoUuid
         /\ \A m \in M : m.key.path = d => Drive!Target(ItemsOf(M, B), d) = m.id
<1>1. ASSUME NEW m \in M, m.key.path = d PROVE Drive!Target(ItemsOf(M, B), d) = m.id
  <2>1. Drive!At(ItemsOf(M, B), d) = {ItemOf(m, B)}
    BY <1>1, ItemsBelow
  <2>2. (CHOOSE i \in {ItemOf(m, B)} : TRUE) = ItemOf(m, B)
    OBVIOUS
  <2>3. ItemOf(m, B).id = m.id
    BY DEF ItemOf
  <2> QED
    BY <2>1, <2>2, <2>3 DEF Drive!Target
<1>2. ASSUME \A m \in M : m.key.path # d PROVE Drive!Target(ItemsOf(M, B), d) = NoUuid
  BY <1>2, ItemsBelow DEF Drive!Target
<1> QED
  BY <1>1, <1>2

(* What arrives, as items.                                                 *)
NewItemIs(x, u, B, newId, p, d) ==
  x = [id |-> newId[u.id], key |-> [path |-> Rebase(u.key.path, p, d), dir |-> u.key.dir],
       content |-> B[u.key.path]]

LEMMA ItemsBrought ==
  ASSUME NEW M, Index(M), NEW p, NEW d, NEW newId, NEW c, Transferring(M, newId, p, d, c),
         NEW B, NEW F, Brought(M, B, F, newId, p, d), NEW u, u \in Under(M, p)
  PROVE  NewItemIs(ItemOf(Resettled(u, newId, p, d), F), u, B, newId, p, d)
<1> DEFINE v == Resettled(u, newId, p, d)
<1>1. ResettledAs(u, v, newId, p, d)
  BY ResettledFacts
<1>2. v.key.path \in DOMAIN F /\ F[v.key.path] = B[u.key.path]
  BY DEF Brought
<1> HIDE DEF v
<1>3. v.id = newId[u.id] /\ v.key = [path |-> Rebase(u.key.path, p, d), dir |-> u.key.dir]
  BY <1>1 DEF ResettledAs
<1>4. ItemOf(v, F) = [id |-> newId[u.id], key |-> [path |-> Rebase(u.key.path, p, d), dir |-> u.key.dir],
                      content |-> B[u.key.path]]
  BY <1>2, <1>3 DEF ItemOf
<1> QED
  BY <1>4 DEF v, NewItemIs

(* Where a transferred item goes, in the words of AtomicDrive.             *)
LEMMA TransferredIs ==
  ASSUME NEW p, NEW d, NEW i, i.key.path = p, NEW j, NEW id, NEW q, NEW b, NEW x,
         j = [id |-> id, key |-> [path |-> q, dir |-> b], content |-> x]
  PROVE  /\ Drive!Transferred(j, i, d) = [id |-> id, key |-> [path |-> Rebase(q, p, d), dir |-> b], content |-> x]
         /\ \A e : [Drive!Transferred(j, i, d) EXCEPT !.id = e]
                     = [id |-> e, key |-> [path |-> Rebase(q, p, d), dir |-> b], content |-> x]
<1> DEFINE o == Rebase(q, p, d)
           y == [id |-> id, key |-> [path |-> o, dir |-> b], content |-> x]
<1>1. Drive!Transferred(j, i, d) = [j EXCEPT !.key.path = Drive!Rebase(j.key.path, i.key.path, d)]
  BY DEF Drive!Transferred
<1>2. Drive!Rebase(j.key.path, i.key.path, d) = o
  BY SameRules
<1> HIDE DEF o
<1>3. [j EXCEPT !.key.path = o] = y
  OBVIOUS
<1>4. Drive!Transferred(j, i, d) = y
  BY <1>1, <1>2, <1>3
<1>5. \A e : [y EXCEPT !.id = e] = [id |-> e, key |-> [path |-> o, dir |-> b], content |-> x]
  OBVIOUS
<1> HIDE DEF y
<1>6. \A e : [Drive!Transferred(j, i, d) EXCEPT !.id = e] = [id |-> e, key |-> [path |-> o, dir |-> b], content |-> x]
  BY <1>4, <1>5
<1> QED
  BY <1>4, <1>6 DEF y, o

(* A move and a copy change the items as AtomicDrive has it.               *)
LEMMA TransferOKPromised ==
  ASSUME NEW M, Index(M), NEW src \in M, NEW d \in Path, NEW B, NEW rep,
         TransferAllowed(src.key, d), Len(d) = 1 \/ \E n \in M : n.key = DirKey(ParentPath(d)),
         CheckReplacement(Drive!Target(ItemsOf(M, B), d), rep)
  PROVE  Drive!TransferOK(ItemsOf(M, B), ItemOf(src, B), d, rep)
<1> DEFINE S == ItemsOf(M, B)
           i == ItemOf(src, B)
<1>1. M \in SUBSET Meta
  BY DEF Index
<1>2. i.key = src.key
  BY DEF ItemOf
<1>3. Drive!HasParent(S, d)
  <2>1. CASE Len(d) = 1
    BY <2>1 DEF Drive!HasParent
  <2>2. CASE Len(d) # 1
    <3>1. PICK n \in M : n.key = DirKey(ParentPath(d))
      BY <2>2
    <3>2. n.key.path = ParentPath(d) /\ n.key.dir /\ n.key.path \in Path
      BY <3>1, <1>1, MetaFacts DEF DirKey
    <3>3. Drive!At(S, ParentPath(d)) = {ItemOf(n, B)}
      BY <3>2, ItemsBelow
    <3>4. ItemOf(n, B).key.dir
      BY <3>2, <1>1, ItemsAre
    <3> QED
      BY <3>3, <3>4, SameParent DEF Drive!HasParent
  <2> QED
    BY <2>1, <2>2
<1> HIDE DEF S, i
<1>4. Drive!TransferAllowed(i.key, d) /\ Drive!CheckReplacement(Drive!Target(S, d), rep)
  BY <1>2, SameRules DEF S
<1>5. Drive!TransferOK(S, i, d, rep)
  BY <1>3, <1>4 DEF Drive!TransferOK
<1> QED
  BY <1>5 DEF S, i

LEMMA MovePromised ==
  ASSUME NEW M, Index(M), NEW src \in M, NEW p, p = src.key.path, NEW d, NEW newId,
         Transferring(M, newId, p, d, FALSE), NEW B, NEW F, FilesMatch(M, B), Brought(M, B, F, newId, p, d),
         NEW rep \in Id \cup {NoUuid, AnyTarget},
         TransferAllowed(src.key, d), Len(d) = 1 \/ \E n \in M : n.key = DirKey(ParentPath(d)),
         CheckReplacement(Drive!Target(ItemsOf(M, B), d), rep)
  PROVE  Promised(ItemsOf(M, B), ItemsOf(Settled(M, newId, p, d), F))
<1> DEFINE S == ItemsOf(M, B)
           A == Under(M, p)
           G == Under(M, d)
           K == Kept(M, newId, p, d)
           V == Arrivals(M, newId, p, d)
           N == Settled(M, newId, p, d)
           T == ItemsOf(N, F)
           i == ItemOf(src, B)
           R == {Drive!Transferred(j, i, d) : j \in Drive!Below(S, {i})}
<1>1. /\ M \in SUBSET Meta /\ A \subseteq M /\ G \subseteq M /\ Numbered(M, newId, p, FALSE) /\ d \in Path /\ p \in Path
      /\ K \subseteq M /\ V \subseteq Meta
  <2>1. /\ M \in SUBSET Meta /\ A \subseteq M /\ G \subseteq M /\ Numbered(M, newId, p, FALSE) /\ d \in Path /\ p \in Path
        /\ K \subseteq M
    BY DEF Index, Transferring, Under, Kept
  <2>2. \A u : u \in A => ResettledAs(u, Resettled(u, newId, p, d), newId, p, d)
    BY ResettledFacts
  <2>3. V \subseteq Meta
    BY <2>2 DEF Arrivals, ResettledAs
  <2> QED
    BY <2>1, <2>3
<1>2. K = M \ (G \cup A)
  <2>1. \A n \in M : (\A u \in A : newId[u.id] # n.id) <=> n \notin A
    <3> SUFFICES ASSUME NEW n \in M PROVE (\A u \in A : newId[u.id] # n.id) <=> n \notin A
      OBVIOUS
    <3>1. \A u \in A : newId[u.id] = u.id /\ u \in M
      BY <1>1 DEF Numbered
    <3> QED
      BY <3>1, Unique
  <2> HIDE DEF A, G
  <2>2. K = {n \in M : n \notin G /\ \A u \in A : newId[u.id] # n.id}
    BY DEF Kept, A, G
  <2> QED
    BY <2>1, <2>2
<1>3. ItemsOf(K, F) = ItemsOf(K, B)
  <2>1. \A n \in K : n.key.path \in DOMAIN B /\ n.key.path \in DOMAIN F /\ F[n.key.path] = B[n.key.path]
    BY DEF Brought
  <2>2. K \in SUBSET Meta
    BY <1>1
  <2> QED
    BY <2>1, <2>2, SameItems
<1>4. Drive!Below(S, Drive!At(S, d)) = ItemsOf(G, B) /\ Drive!Below(S, {i}) = ItemsOf(A, B)
  <2>1. Drive!Below(S, Drive!At(S, d)) = ItemsOf(G, B)
    BY <1>1, ItemsBelow
  <2>2. Drive!Below(S, Drive!At(S, p)) = ItemsOf(A, B) /\ Drive!At(S, p) = {i}
    BY <1>1, ItemsBelow
  <2> QED
    BY <2>1, <2>2
<1>5. ItemsOf(K, B) = S \ Drive!Below(S, Drive!At(S, d) \cup {i})
  <2>1. Drive!Below(S, Drive!At(S, d) \cup {i}) = ItemsOf(G, B) \cup ItemsOf(A, B)
    BY <1>4, BelowBoth
  <2>2. ItemsOf(G, B) \cup ItemsOf(A, B) = ItemsOf(G \cup A, B)
    <3> HIDE DEF A, G
    <3> QED
      BY DEF ItemsOf
  <2>3. ItemsOf(M \ (G \cup A), B) = S \ ItemsOf(G \cup A, B)
    <3>1. G \cup A \in SUBSET M
      BY <1>1
    <3> QED
      BY <3>1, ItemsWithout
  <2> QED
    BY <2>1, <2>2, <2>3, <1>2
<1>6. \A u \in A : /\ ItemOf(Resettled(u, newId, p, d), F) = Drive!Transferred(ItemOf(u, B), i, d)
  <2> SUFFICES ASSUME NEW u \in A
               PROVE  ItemOf(Resettled(u, newId, p, d), F) = Drive!Transferred(ItemOf(u, B), i, d)
    OBVIOUS
  <2>1. ItemOf(Resettled(u, newId, p, d), F)
          = [id |-> newId[u.id], key |-> [path |-> Rebase(u.key.path, p, d), dir |-> u.key.dir],
             content |-> B[u.key.path]]
    <3>1. u \in Under(M, p)
      OBVIOUS
    <3>2. NewItemIs(ItemOf(Resettled(u, newId, p, d), F), u, B, newId, p, d)
      BY <3>1, ItemsBrought
    <3> QED
      BY <3>2 DEF NewItemIs
  <2>2. newId[u.id] = u.id /\ u.key.path \in DOMAIN B /\ u \in Meta
    BY <1>1 DEF Numbered, Brought
  <2>3. u.key = [path |-> u.key.path, dir |-> u.key.dir]
    BY <2>2, MetaFacts
  <2>4. ItemOf(u, B) = [id |-> u.id, key |-> [path |-> u.key.path, dir |-> u.key.dir], content |-> B[u.key.path]]
    BY <2>2, <2>3 DEF ItemOf
  <2>5. i.key.path = p
    BY <1>1, ItemsAre
  <2>6. Drive!Transferred(ItemOf(u, B), i, d)
          = [id |-> u.id, key |-> [path |-> Rebase(u.key.path, p, d), dir |-> u.key.dir], content |-> B[u.key.path]]
    <3> HIDE DEF i
    <3> QED
      BY <2>4, <2>5, TransferredIs
  <2> QED
    BY <2>1, <2>2, <2>6
<1>7. ItemsOf(V, F) = R
  <2>1. ItemsOf(V, F) = {ItemOf(v, F) : v \in V} /\ ItemsOf(A, B) = {ItemOf(u, B) : u \in A}
    BY DEF ItemsOf, ItemOf
  <2>2. V = {Resettled(u, newId, p, d) : u \in A}
    BY DEF Arrivals
  <2> HIDE DEF i, A, V, S
  <2>3. \A x : x \in ItemsOf(V, F) <=> \E u \in A : x = ItemOf(Resettled(u, newId, p, d), F)
    BY <2>1, <2>2
  <2>4. \A x : x \in R <=> \E u \in A : x = Drive!Transferred(ItemOf(u, B), i, d)
    BY <2>1, <1>4
  <2> QED
    BY <2>3, <2>4, <1>6
<1>8. T = ItemsOf(K, F) \cup ItemsOf(V, F)
  <2> HIDE DEF K, V
  <2>1. N = K \cup V
    BY DEF Settled, K, V
  <2> QED
    BY <2>1 DEF ItemsOf
<1>9. Drive!TransferOK(S, i, d, rep)
  BY <1>1, TransferOKPromised
<1>10. i \in S
  BY <1>1, ItemsAre
<1> HIDE DEF S, T, i, R
<1>11. T = (S \ Drive!Below(S, Drive!At(S, d) \cup {i})) \cup R
  BY <1>3, <1>5, <1>7, <1>8
<1>12. Drive!Move(S, T, i, d, rep)
  BY <1>9, <1>11 DEF Drive!Move, R
<1>13. Drive!Change(S, T)
  BY <1>1, <1>10, <1>12 DEF Drive!Change
<1> QED
  BY <1>13 DEF Promised, S, T

Copied(j, i, d, id) == [Drive!Transferred(j, i, d) EXCEPT !.id = id]

LEMMA CopyPromised ==
  ASSUME NEW M, Index(M), NEW src \in M, NEW p, p = src.key.path, NEW d, NEW newId,
         Transferring(M, newId, p, d, TRUE), NEW B, NEW F, FilesMatch(M, B), Brought(M, B, F, newId, p, d),
         NEW rep \in Id \cup {NoUuid, AnyTarget}, rep # AnyTarget,
         TransferAllowed(src.key, d), Len(d) = 1 \/ \E n \in M : n.key = DirKey(ParentPath(d)),
         CheckReplacement(Drive!Target(ItemsOf(M, B), d), rep)
  PROVE  Promised(ItemsOf(M, B), ItemsOf(Settled(M, newId, p, d), F))
<1> DEFINE S == ItemsOf(M, B)
           A == Under(M, p)
           G == Under(M, d)
           K == Kept(M, newId, p, d)
           V == Arrivals(M, newId, p, d)
           N == Settled(M, newId, p, d)
           T == ItemsOf(N, F)
           i == ItemOf(src, B)
           b == Drive!Below(S, {i})
           g == [j \in b |-> newId[j.id]]
           R == {[Drive!Transferred(j, i, d) EXCEPT !.id = g[j]] : j \in b}
<1>1. /\ M \in SUBSET Meta /\ A \subseteq M /\ G \subseteq M /\ Numbered(M, newId, p, TRUE) /\ d \in Path /\ p \in Path
      /\ K \subseteq M
  BY DEF Index, Transferring, Under, Kept
<1>2. K = M \ G
  <2>1. \A n \in M : \A u \in A : newId[u.id] # n.id
    BY <1>1 DEF Numbered
  <2> HIDE DEF A, G
  <2>2. K = {n \in M : n \notin G /\ \A u \in A : newId[u.id] # n.id}
    BY DEF Kept, A, G
  <2> QED
    BY <2>1, <2>2
<1>3. ItemsOf(K, F) = ItemsOf(K, B)
  <2>1. \A n \in K : n.key.path \in DOMAIN B /\ n.key.path \in DOMAIN F /\ F[n.key.path] = B[n.key.path]
    BY DEF Brought
  <2>2. K \in SUBSET Meta
    BY <1>1
  <2> QED
    BY <2>1, <2>2, SameItems
<1>4. Drive!Below(S, Drive!At(S, d)) = ItemsOf(G, B) /\ b = ItemsOf(A, B)
  <2>1. Drive!Below(S, Drive!At(S, d)) = ItemsOf(G, B)
    BY <1>1, ItemsBelow
  <2>2. Drive!Below(S, Drive!At(S, p)) = ItemsOf(A, B) /\ Drive!At(S, p) = {i}
    BY <1>1, ItemsBelow
  <2> QED
    BY <2>1, <2>2
<1>5. ItemsOf(K, B) = S \ Drive!Below(S, Drive!At(S, d))
  <2>1. ItemsOf(M \ G, B) = S \ ItemsOf(G, B)
    <3>1. G \in SUBSET M
      BY DEF Under
    <3>2. \A U \in SUBSET M : ItemsOf(M \ U, B) = ItemsOf(M, B) \ ItemsOf(U, B)
      BY ONLY Index(M), ItemsWithout
    <3> HIDE DEF G
    <3> QED
      BY ONLY <3>1, <3>2
  <2> QED
    BY <2>1, <1>2, <1>4
<1>6. b = {ItemOf(u, B) : u \in A} /\ S = {ItemOf(m, B) : m \in M} /\ \A m : ItemOf(m, B).id = m.id
  <2> HIDE DEF b, A
  <2>1. \A X : ItemsOf(X, B) = {ItemOf(m, B) : m \in X}
    BY DEF ItemsOf, ItemOf
  <2>2. \A m : ItemOf(m, B).id = m.id
    BY DEF ItemOf
  <2> QED
    BY <2>1, <2>2, <1>4
<1>7. \A u \in A : /\ ItemOf(u, B) \in b /\ g[ItemOf(u, B)] = newId[u.id]
  <2> HIDE DEF b, A
  <2> QED
    BY <1>6
<1>8. \A u \in A : ItemOf(Resettled(u, newId, p, d), F)
                     = Copied(ItemOf(u, B), i, d, g[ItemOf(u, B)])
  <2> SUFFICES ASSUME NEW u \in A
               PROVE  ItemOf(Resettled(u, newId, p, d), F)
                        = Copied(ItemOf(u, B), i, d, g[ItemOf(u, B)])
    OBVIOUS
  <2>1. NewItemIs(ItemOf(Resettled(u, newId, p, d), F), u, B, newId, p, d)
    <3>1. u \in Under(M, p)
      OBVIOUS
    <3> QED
      BY <3>1, ItemsBrought
  <2>2. u.key.path \in DOMAIN B /\ u \in Meta
    BY <1>1 DEF Brought
  <2>3. u.key = [path |-> u.key.path, dir |-> u.key.dir]
    BY <2>2, MetaFacts
  <2>4. ItemOf(u, B) = [id |-> u.id, key |-> [path |-> u.key.path, dir |-> u.key.dir], content |-> B[u.key.path]]
    BY <2>2, <2>3 DEF ItemOf
  <2>5. i.key.path = p
    BY DEF ItemOf
  <2> HIDE DEF i, g
  <2>6. [Drive!Transferred(ItemOf(u, B), i, d) EXCEPT !.id = newId[u.id]]
          = [id |-> newId[u.id], key |-> [path |-> Rebase(u.key.path, p, d), dir |-> u.key.dir],
             content |-> B[u.key.path]]
    BY <2>4, <2>5, TransferredIs
  <2>7. g[ItemOf(u, B)] = newId[u.id]
    BY <1>7
  <2> QED
    BY <2>1, <2>6, <2>7 DEF NewItemIs, Copied
<1>9. ItemsOf(V, F) = R
  <2>1. ItemsOf(V, F) = {ItemOf(v, F) : v \in V}
    BY DEF ItemsOf, ItemOf
  <2>2. V = {Resettled(u, newId, p, d) : u \in A}
    BY DEF Arrivals
  <2> HIDE DEF i, A, V, S, b, g
  <2>3. \A x : x \in ItemsOf(V, F) <=> \E u \in A : x = ItemOf(Resettled(u, newId, p, d), F)
    BY <2>1, <2>2
  <2>4. \A x : x \in R <=> \E u \in A : x = Copied(ItemOf(u, B), i, d, g[ItemOf(u, B)])
    BY <1>6 DEF Copied
  <2> HIDE DEF R
  <2>5. \A x : x \in ItemsOf(V, F) <=> x \in R
    BY <2>3, <2>4, <1>8
  <2> QED
    BY <2>5
<1>10. T = ItemsOf(K, F) \cup ItemsOf(V, F)
  <2> HIDE DEF K, V
  <2>1. N = K \cup V
    BY DEF Settled, K, V
  <2> QED
    BY <2>1 DEF ItemsOf
<1>11. g \in Drive!Injection(b, Id \ Drive!Ids(S))
  <2> HIDE DEF b, S, A
  <2>1. Drive!Ids(S) = {m.id : m \in M}
    BY <1>6 DEF Drive!Ids
  <2>2. \A j \in b : newId[j.id] \in Id \ Drive!Ids(S)
    BY <2>1, <1>1, <1>6 DEF Numbered, A
  <2>3. \A j, k \in b : newId[j.id] = newId[k.id] => j = k
    BY <1>1, <1>6 DEF Numbered, A
  <2>4. g \in [b -> Id \ Drive!Ids(S)] /\ \A j \in b : g[j] = newId[j.id]
    BY <2>2
  <2> HIDE DEF g
  <2> QED
    BY <2>3, <2>4 DEF Drive!Injection, Drive!IsInjective
<1>12. Drive!TransferOK(S, i, d, rep)
  BY <1>1, TransferOKPromised
<1>13. i \in S
  BY <1>6
<1> HIDE DEF S, T, i, g, b
<1>14. T = (S \ Drive!Below(S, Drive!At(S, d))) \cup R
  BY <1>3, <1>5, <1>9, <1>10
<1>15. Drive!Copy(S, T, i, d, rep)
  BY <1>11, <1>12, <1>14 DEF Drive!Copy, b
<1>16. Drive!Change(S, T)
  BY <1>1, <1>13, <1>15 DEF Drive!Change
<1> QED
  BY <1>16 DEF Promised, S, T

LEMMA Joining ==
  ASSUME NEW a \in Step, NEW b \in Step
  PROVE  /\ <<>> \o <<b>> \in Seq(Step) /\ Len(<<>> \o <<b>>) = 1 /\ (<<>> \o <<b>>)[1] = b
         /\ <<a>> \o <<b>> \in Seq(Step) /\ Len(<<a>> \o <<b>>) = 2
         /\ (<<a>> \o <<b>>)[1] = a /\ (<<a>> \o <<b>>)[2] = b
<1> DEFINE x == <<a>>
           y == <<b>>
           e == <<>>
<1>1. /\ x \in Seq(Step) /\ Len(x) = 1 /\ x[1] = a /\ y \in Seq(Step) /\ Len(y) = 1 /\ y[1] = b
      /\ e \in Seq(Step) /\ Len(e) = 0
  OBVIOUS
<1> HIDE DEF x, y, e
<1>2. /\ e \o y \in Seq(Step) /\ Len(e \o y) = 1 /\ (e \o y)[1] = y[1]
  BY <1>1, ConcatProperties
<1>3. /\ x \o y \in Seq(Step) /\ Len(x \o y) = 2 /\ (x \o y)[1] = x[1] /\ (x \o y)[2] = y[1]
  BY <1>1, ConcatProperties
<1> QED
  BY <1>1, <1>2, <1>3 DEF x, y, e

(* What a transfer is allowed to, as facts about the index.                *)
LEMMA TransferFacts ==
  ASSUME IInv, pc = "ready", NEW id \in DOMAIN idMap, NEW src, src = idMap[id], NEW dst \in Path, NEW rep,
         TransferOK(id, dst, rep), NEW exists, exists = (StatPath(dst) # NoKey)
  PROVE  /\ src \in indexFile /\ Index(indexFile) /\ src.key.path \in Path
         /\ TransferAllowed(src.key, dst) /\ Apart(src.key.path, dst) /\ Fitting(indexFile, src.key.path, dst)
         /\ Len(dst) = 1 \/ \E n \in indexFile : n.key = DirKey(ParentPath(dst))
         /\ \A B : CheckReplacement(Drive!Target(ItemsOf(indexFile, B), dst), rep)
         /\ exists => \E m \in indexFile : m.key.path = dst
         /\ (IF exists THEN Covered(pathMap[StatPath(dst)]) ELSE {}) = {n.id : n \in Under(indexFile, dst)}
<1> DEFINE M == indexFile
           p == src.key.path
<1>1. src \in M /\ Index(M) /\ p \in Path /\ M \in SUBSET Meta
  BY ShapeFacts, Lookup, MetaFacts
<1>2. TransferAllowed(src.key, dst) /\ CheckParent(dst)
  BY DEF TransferOK
<1>3. Apart(p, dst)
  BY <1>1, <1>2, TransferApart
<1>4. Fitting(M, p, dst)
  <2> SUFFICES ASSUME NEW u \in Under(M, p) PROVE Rebase(u.key.path, p, dst) \in Path
    BY DEF Fitting
  <2>1. u.id \in Covered(src) /\ u \in M
    BY <1>1, CoveredIs DEF Under
  <2>2. idMap[u.id] = u
    BY <2>1, Lookup
  <2> QED
    BY <2>1, <2>2 DEF TransferOK
<1>5. Len(dst) = 1 \/ \E n \in M : n.key = DirKey(ParentPath(dst))
  BY <1>2, ParentItem
<1>6. CASE exists
  <2>1. PICK m \in M : m.key.path = dst /\ StatPath(dst) = m.key
    BY <1>6, Stat
  <2>2. pathMap[StatPath(dst)] = m
    BY <2>1, Lookup
  <2>3. Covered(m) = {n.id : n \in Under(M, dst)}
    BY <2>1, CoveredIs
  <2>4. \A B : Drive!Target(ItemsOf(M, B), dst) = m.id
    BY <2>1, <1>1, TargetIs
  <2>5. CheckReplacement(m.id, rep)
    BY <2>2, <1>6 DEF TransferOK
  <2> QED
    BY <2>1, <2>2, <2>3, <2>4, <2>5, <1>1, <1>2, <1>3, <1>4, <1>5, <1>6
<1>7. CASE ~exists
  <2>1. \A m \in M : m.key.path # dst
    BY <1>7, Stat
  <2>2. Under(M, dst) = {}
    <3>1. \A n \in Under(M, dst) : FALSE
      BY <2>1, <1>1, Owner
    <3> QED
      BY <3>1
  <2>3. \A B : Drive!Target(ItemsOf(M, B), dst) = NoUuid
    BY <2>1, <1>1, TargetIs
  <2>4. CheckReplacement(NoUuid, rep)
    BY <1>7 DEF TransferOK
  <2> QED
    BY <2>2, <2>3, <2>4, <1>1, <1>2, <1>3, <1>4, <1>5, <1>7
<1> QED
  BY <1>6, <1>7

LEMMA Matched ==
  ASSUME IInv, pc = "ready"
  PROVE  FilesMatch(indexFile, tree)
BY DEF IInv, Work, Disk, Marks

(* The tree a transfer starts from.                                        *)
LEMMA TransferStart ==
  ASSUME IInv, pc = "ready", NEW src \in indexFile, NEW p, p = src.key.path, NEW c \in BOOLEAN,
         NEW staged, staged = IF c THEN SubtreeAt(tree, p) ELSE NoMetas,
         NEW s, s = IF c THEN New ELSE p, NEW B, B = Put(Opened, New, staged)
  PROVE  /\ Tree(B) /\ TransactionDir \in DOMAIN B /\ FilesMatch(indexFile, B) /\ Old \notin DOMAIN B
         /\ \A q \in Path : q \in DOMAIN B <=> q \in DOMAIN tree
         /\ s \in Spot /\ s \in DOMAIN B /\ Sourced(B, s, p)
<1> DEFINE A == Under(indexFile, p)
<1>1. /\ Index(indexFile) /\ indexFile \subseteq Meta /\ Tree(tree) /\ FilesMatch(indexFile, tree) /\ p \in Path
      /\ p \in Place /\ p \in Spot /\ \A n \in indexFile : n.key.path \in Path /\ n.key.path \in Place
  BY ShapeFacts, Matched, MetaFacts, Spots
<1>2. p \in DOMAIN tree
  BY <1>1 DEF FilesMatch
<1>3. Part(staged)
  <2>1. Part(NoMetas)
    BY OneNode DEF Node
  <2>2. Part(SubtreeAt(tree, p))
    BY <1>1, <1>2, TakingOut
  <2> QED
    BY <2>1, <2>2
<1>4. /\ Tree(B) /\ TransactionDir \in DOMAIN B /\ FilesMatch(indexFile, B)
      /\ \A q \in Place : ~IsPrefix(TransactionDir, q) =>
           /\ q \in DOMAIN B <=> q \in DOMAIN tree
           /\ q \in DOMAIN B => B[q] = tree[q]
      /\ \A r \in Place : /\ New \o r \in DOMAIN B <=> r \in DOMAIN staged
                          /\ r \in DOMAIN staged => B[New \o r] = staged[r]
      /\ \A q \in Place : IsPrefix(TransactionDir, q) /\ q # TransactionDir /\ ~IsPrefix(New, q) => q \notin DOMAIN B
  BY <1>3, Staging
<1>5. Old \notin DOMAIN B
  BY <1>4, OldPlace, Places
<1>6. \A q \in Path : (q \in DOMAIN B <=> q \in DOMAIN tree) /\ (q \in DOMAIN B => B[q] = tree[q])
  BY <1>4, Places
<1>7. ASSUME NEW u \in A
      PROVE  Rest(u.key.path, p) \in Place /\ u.key.path = p \o Rest(u.key.path, p)
             /\ u.key.path \in DOMAIN tree /\ u.key.path \in DOMAIN B /\ B[u.key.path] = tree[u.key.path]
  <2>1. u \in indexFile /\ IsPrefix(p, u.key.path) /\ u.key.path \in Place /\ u.key.path \in Path
    BY <1>1 DEF Under
  <2>2. u.key.path \in DOMAIN tree
    BY <2>1, <1>1 DEF FilesMatch
  <2> QED
    BY <2>1, <2>2, <1>1, <1>6, Below
<1>8. CASE c
  <2>1. /\ <<>> \in DOMAIN staged
        /\ \A r \in Place : /\ r \in DOMAIN staged <=> p \o r \in DOMAIN tree
                            /\ p \o r \in DOMAIN tree => staged[r] = tree[p \o r]
    BY <1>1, <1>2, <1>8, TakingOut
  <2>2. New \in DOMAIN B
    <3>1. New \o <<>> = New /\ <<>> \in Place
      BY Places, OldPlace DEF Place
    <3>2. New \o <<>> \in DOMAIN B
      BY <2>1, <3>1, <1>4
    <3> QED
      BY <3>1, <3>2
  <2>3. Sourced(B, New, p)
    <3> SUFFICES ASSUME NEW u \in A
                 PROVE  /\ New \o Rest(u.key.path, p) \in DOMAIN B
                        /\ B[New \o Rest(u.key.path, p)] = B[u.key.path]
      BY DEF Sourced
    <3> DEFINE r == Rest(u.key.path, p)
    <3>1. r \in Place /\ u.key.path = p \o r /\ u.key.path \in DOMAIN tree /\ B[u.key.path] = tree[u.key.path]
      BY <1>7
    <3> HIDE DEF r
    <3>2. r \in DOMAIN staged /\ staged[r] = tree[p \o r]
      BY <2>1, <3>1
    <3>3. New \o r \in DOMAIN B /\ B[New \o r] = staged[r]
      BY <1>4, <3>1, <3>2
    <3> QED
      BY <3>1, <3>2, <3>3 DEF r
  <2> QED
    BY <2>2, <2>3, <1>4, <1>5, <1>6, <1>8, OldPlace
<1>9. CASE ~c
  <2>1. p \in DOMAIN B
    BY <1>1, <1>2, <1>6
  <2>2. Sourced(B, p, p)
    BY <1>7 DEF Sourced
  <2> QED
    BY <2>1, <2>2, <1>1, <1>4, <1>5, <1>6, <1>9
<1> QED
  BY <1>8, <1>9

LEMMA TransferPlanned ==
  ASSUME IInv, pc = "ready", NEW id \in DOMAIN idMap, NEW src, src = idMap[id], NEW dst \in Path,
         NEW rep \in Id \cup {NoUuid, AnyTarget}, TransferOK(id, dst, rep),
         NEW exists, exists = (StatPath(dst) # NoKey), NEW c \in BOOLEAN, c => rep # AnyTarget,
         NEW newId, Numbered(indexFile, newId, src.key.path, c),
         NEW gone, gone = IF exists THEN Covered(pathMap[StatPath(dst)]) ELSE {}
  PROVE  Planned(IF c THEN SubtreeAt(tree, src.key.path) ELSE NoMetas, IF exists THEN {} ELSE {dst},
                 (IF exists THEN <<Renaming(dst, Old)>> ELSE <<>>)
                   \o <<Renaming(IF c THEN New ELSE src.key.path, dst)>>,
                 TransferIds(Covered(src), gone, newId, src, dst),
                 TransferPaths(Covered(src), gone, newId, src, dst))
<1> DEFINE M == indexFile
           p == src.key.path
           N == Settled(M, newId, p, dst)
           ids == TransferIds(Covered(src), gone, newId, src, dst)
           paths == TransferPaths(Covered(src), gone, newId, src, dst)
           s == IF c THEN New ELSE p
           staged == IF c THEN SubtreeAt(tree, p) ELSE NoMetas
           absent == IF exists THEN {} ELSE {dst}
           moves == (IF exists THEN <<Renaming(dst, Old)>> ELSE <<>>) \o <<Renaming(s, dst)>>
           B == Put(Opened, New, staged)
<1>1. /\ src \in M /\ Index(M) /\ p \in Path
      /\ TransferAllowed(src.key, dst) /\ Apart(p, dst) /\ Fitting(M, p, dst)
      /\ Len(dst) = 1 \/ \E n \in M : n.key = DirKey(ParentPath(dst))
      /\ \A t : CheckReplacement(Drive!Target(ItemsOf(M, t), dst), rep)
      /\ exists => \E m \in M : m.key.path = dst
      /\ gone = {n.id : n \in Under(M, dst)}
  BY TransferFacts
<1>2. Transferring(M, newId, p, dst, c)
  BY <1>1 DEF Transferring, Index
<1>3. Range(ids) = N /\ Maps(Range(ids), ids, paths)
  BY <1>1, <1>2, SettledMaps
<1>4. Index(N)
  <2>1. Numbered(M, newId, p, c)
    OBVIOUS
  <2> QED
    BY <1>1, <2>1, SettledIndex
<1>5. /\ Tree(B) /\ TransactionDir \in DOMAIN B /\ FilesMatch(M, B) /\ Old \notin DOMAIN B
      /\ \A q \in Path : q \in DOMAIN B <=> q \in DOMAIN tree
      /\ s \in Spot /\ s \in DOMAIN B /\ Sourced(B, s, p)
  BY <1>1, TransferStart
<1>6. s \in Place /\ dst \in Place /\ dst \in Spot /\ p \in Place
  BY <1>1, <1>5, Spots
<1>7. /\ ~IsPrefix(s, dst) /\ ~IsPrefix(dst, s) /\ ~IsPrefix(s, Old) /\ ~IsPrefix(Old, s)
  <2>1. CASE c
    BY <2>1, OldPlace, Places
  <2>2. CASE ~c
    BY <2>2, <1>1, OldPlace DEF Apart
  <2> QED
    BY <2>1, <2>2
<1>8. /\ moves \in Seq(Step) /\ moves[Len(moves)] = Renaming(s, dst)
      /\ IF exists THEN Len(moves) = 2 /\ moves[1] = Renaming(dst, Old) ELSE Len(moves) = 1
  <2>1. Renaming(dst, Old) \in Step /\ Renaming(s, dst) \in Step
    BY <1>5, <1>6, OldPlace, Renamings
  <2> DEFINE a == Renaming(dst, Old)
             b == Renaming(s, dst)
  <2> HIDE DEF a, b
  <2>2. /\ <<>> \o <<b>> \in Seq(Step) /\ Len(<<>> \o <<b>>) = 1 /\ (<<>> \o <<b>>)[1] = b
        /\ <<a>> \o <<b>> \in Seq(Step) /\ Len(<<a>> \o <<b>>) = 2
        /\ (<<a>> \o <<b>>)[1] = a /\ (<<a>> \o <<b>>)[2] = b
    BY <2>1, Joining DEF a, b
  <2>3. CASE exists
    BY <2>2, <2>3 DEF a, b
  <2>4. CASE ~exists
    BY <2>2, <2>4 DEF a, b
  <2> QED
    BY <2>3, <2>4
<1>9. Len(dst) = 1 \/ ParentPath(dst) \in DOMAIN B
  <2> SUFFICES ASSUME Len(dst) # 1 PROVE ParentPath(dst) \in DOMAIN B
    OBVIOUS
  <2>1. PICK n \in M : n.key = DirKey(ParentPath(dst))
    BY <1>1
  <2> QED
    BY <2>1, <1>5 DEF FilesMatch, DirKey
<1> HIDE DEF ids, paths, moves, B, staged, s
<1>10. ASSUME absent \cap DOMAIN Opened = {}
       PROVE  \E f : /\ Walk(f, moves, Len(moves)) /\ f[0] = B
                     /\ FilesMatch(M, f[0]) /\ FilesMatch(N, f[Len(moves)])
                     /\ Promised(ItemsOf(M, f[0]), ItemsOf(N, f[Len(moves)]))
  <2>1. dst \in DOMAIN B <=> exists
    <3>1. exists => dst \in DOMAIN B
      BY <1>1, <1>5 DEF FilesMatch
    <3>2. ~exists => dst \notin DOMAIN tree
      BY <1>10 DEF Opened, With
    <3> QED
      BY <3>1, <3>2, <1>5
  <2>2. IF dst \in DOMAIN B THEN Len(moves) = 2 /\ moves[1] = Renaming(dst, Old) ELSE Len(moves) = 1
    BY <2>1, <1>8
  <2>3. PICK f : Walk(f, moves, Len(moves)) /\ f[0] = B /\ Arrived(B, f[Len(moves)], s, dst)
    <3>1. Tree(B) /\ TransactionDir \in DOMAIN B /\ Old \notin DOMAIN B /\ s \in DOMAIN B
      BY <1>5
    <3>2. moves \in Seq(Step) /\ moves[Len(moves)] = Renaming(s, dst)
      BY <1>8
    <3> QED
      BY <3>1, <3>2, <2>2, <1>7, <1>9, Arrival
  <2> DEFINE F == f[Len(moves)]
  <2> HIDE DEF F
  <2>4. Arrived(B, F, s, dst)
    BY <2>3 DEF F
  <2>5. FilesMatch(N, F) /\ Brought(M, B, F, newId, p, dst)
    <3>1. s = IF c THEN New ELSE p
      BY DEF s
    <3> HIDE DEF p, N
    <3>2. FilesMatch(Settled(M, newId, p, dst), F) /\ Brought(M, B, F, newId, p, dst)
      BY <3>1, <2>4, <1>1, <1>2, <1>5, <1>6, SettledFiles
    <3> QED
      BY <3>2 DEF N
  <2>6. Promised(ItemsOf(M, B), ItemsOf(N, F))
    <3>1. /\ Index(M) /\ src \in M /\ TransferAllowed(src.key, dst) /\ FilesMatch(M, B)
          /\ CheckReplacement(Drive!Target(ItemsOf(M, B), dst), rep)
          /\ Brought(M, B, F, newId, p, dst)
          /\ Len(dst) = 1 \/ \E n \in M : n.key = DirKey(ParentPath(dst))
      BY <2>5, <1>1, <1>5
    <3>2. CASE c
      <4>1. Transferring(M, newId, p, dst, TRUE) /\ rep # AnyTarget
        BY <3>2, <1>2
      <4> QED
        BY <3>1, <4>1, CopyPromised
    <3>3. CASE ~c
      <4>1. Transferring(M, newId, p, dst, FALSE)
        BY <3>3, <1>2
      <4> QED
        BY <3>1, <4>1, MovePromised
    <3> QED
      BY <3>2, <3>3
  <2> QED
    BY <2>3, <2>5, <2>6, <1>5 DEF F
<1> HIDE DEF absent, N
<1>11. Planned(staged, absent, moves, ids, paths)
  BY <1>3, <1>4, <1>8, <1>10 DEF Planned, Promises, B
<1> QED
  BY <1>11 DEF staged, absent, moves, ids, paths, s

(***************************************************************************)
(* Load renames many places, one after the other: each from[i] to to[i].   *)
(***************************************************************************)
Scheduled(t, from, to, n) ==
  /\ \A i \in 1..n : /\ from[i] \in Spot /\ to[i] \in Spot /\ from[i] \in DOMAIN t /\ to[i] \notin DOMAIN t
                     /\ \/ Len(to[i]) = 1
                        \/ /\ ParentPath(to[i]) \in DOMAIN t
                           /\ \A j \in 1..n : ~IsPrefix(from[j], ParentPath(to[i])) /\ ~IsPrefix(to[j], ParentPath(to[i]))
  /\ \A i, j \in 1..n : Apart(from[i], to[j]) /\ (i # j => Apart(from[i], from[j]) /\ Apart(to[i], to[j]))

(* u is t after the first k of them.                                       *)
Untouched(q, from, to, k) == \A i \in 1..k : ~IsPrefix(from[i], q) /\ ~IsPrefix(to[i], q)
Shifted(t, u, from, to, k) ==
  /\ \A i \in 1..k, r \in Place : /\ to[i] \o r \in DOMAIN u <=> from[i] \o r \in DOMAIN t
                                  /\ from[i] \o r \in DOMAIN t => u[to[i] \o r] = t[from[i] \o r]
  /\ \A i \in 1..k, q \in Place : IsPrefix(from[i], q) => q \notin DOMAIN u
  /\ \A q \in Place : Untouched(q, from, to, k) =>
       (q \in DOMAIN u <=> q \in DOMAIN t) /\ (q \in DOMAIN t => u[q] = t[q])

LEMMA ApartBelow ==
  ASSUME NEW p \in Place, NEW q \in Place, Apart(p, q), NEW x \in Place
  PROVE  ~(IsPrefix(p, x) /\ IsPrefix(q, x))
BY PrefixOrder DEF Apart

LEMMA ShiftOne ==
  ASSUME NEW t, NEW from, NEW to, NEW n \in Nat, Scheduled(t, from, to, n), NEW k \in Nat, k < n,
         NEW u, Tree(u), Shifted(t, u, from, to, k), NEW m, m = Renaming(from[k + 1], to[k + 1])
  PROVE  /\ CanMove(u, m) /\ Tree(Rename(u, m.from, m.to))
         /\ Shifted(t, Rename(u, m.from, m.to), from, to, k + 1)
<1> DEFINE a == from[k + 1]
           b == to[k + 1]
           v == Rename(u, a, b)
<1>1. m.from = a /\ m.to = b
  BY DEF Renaming
<1>2. k + 1 \in 1..n /\ \A i \in 1..k : i \in 1..n /\ i # k + 1
  OBVIOUS
<1>3. /\ a \in Spot /\ b \in Spot /\ a \in DOMAIN t /\ b \notin DOMAIN t /\ a \in Place /\ b \in Place
      /\ \A i \in 1..k : from[i] \in Place /\ to[i] \in Place
  BY <1>2, Spots DEF Scheduled
<1>4. Apart(a, b) /\ \A i \in 1..k : /\ Apart(from[i], a) /\ Apart(from[i], b)
                                     /\ Apart(a, to[i]) /\ Apart(to[i], b)
  BY <1>2 DEF Scheduled
<1>5. \A r \in Place : /\ Untouched(a \o r, from, to, k) /\ a \o r \in Place /\ b \o r \in Place
                       /\ Untouched(b \o r, from, to, k)
  <2> SUFFICES ASSUME NEW r \in Place
               PROVE  /\ Untouched(a \o r, from, to, k) /\ a \o r \in Place /\ b \o r \in Place
                      /\ Untouched(b \o r, from, to, k)
    OBVIOUS
  <2>1. a \o r \in Place /\ b \o r \in Place /\ IsPrefix(a, a \o r) /\ IsPrefix(b, b \o r)
    BY <1>3, Beneath
  <2> DEFINE x == a \o r
             y == b \o r
  <2>2. x \in Place /\ y \in Place /\ IsPrefix(a, x) /\ IsPrefix(b, y)
    BY <2>1
  <2> HIDE DEF x, y, a, b
  <2>3. Untouched(x, from, to, k)
    <3> SUFFICES ASSUME NEW i \in 1..k PROVE ~IsPrefix(from[i], x) /\ ~IsPrefix(to[i], x)
      BY DEF Untouched
    <3>1. Apart(from[i], a) /\ Apart(a, to[i]) /\ from[i] \in Place /\ to[i] \in Place
      BY <1>3, <1>4
    <3> QED
      BY <3>1, <2>2, <1>3, ApartBelow
  <2>4. Untouched(y, from, to, k)
    <3> SUFFICES ASSUME NEW i \in 1..k PROVE ~IsPrefix(from[i], y) /\ ~IsPrefix(to[i], y)
      BY DEF Untouched
    <3>1. Apart(from[i], b) /\ Apart(to[i], b) /\ from[i] \in Place /\ to[i] \in Place
      BY <1>3, <1>4
    <3> QED
      BY <3>1, <2>2, <1>3, ApartBelow
  <2> QED
    BY <2>1, <2>3, <2>4 DEF x, y
<1>6. Untouched(a, from, to, k) /\ Untouched(b, from, to, k)
  <2>1. a \o <<>> = a /\ b \o <<>> = b /\ <<>> \in Place
    BY <1>3, Places DEF Place
  <2> QED
    BY <2>1, <1>5
<1>7. a \in DOMAIN u /\ b \notin DOMAIN u
  BY <1>3, <1>6 DEF Shifted
<1>8. Len(b) = 1 \/ ParentPath(b) \in DOMAIN u
  <2> SUFFICES ASSUME Len(b) # 1 PROVE ParentPath(b) \in DOMAIN u
    OBVIOUS
  <2>1. ParentPath(b) \in DOMAIN t /\ Untouched(ParentPath(b), from, to, k)
    BY <1>2 DEF Scheduled, Untouched
  <2>2. ParentPath(b) \in Place
    BY <1>3, Spots, ParentAt
  <2> QED
    BY <2>1, <2>2 DEF Shifted
<1>9. CanMove(u, m)
  BY <1>1, <1>3, <1>4, <1>7, <1>8 DEF CanMove, Apart
<1>10. Tree(v) /\ Relocated(u, v, a, b)
  BY <1>1, <1>9, Renamed
<1> HIDE DEF v, a, b
<1>11. \A i \in 1..k, q \in Place : (IsPrefix(to[i], q) \/ IsPrefix(from[i], q)) => ~IsPrefix(a, q) /\ ~IsPrefix(b, q)
  <2> SUFFICES ASSUME NEW i \in 1..k, NEW q \in Place, IsPrefix(to[i], q) \/ IsPrefix(from[i], q)
               PROVE  ~IsPrefix(a, q) /\ ~IsPrefix(b, q)
    OBVIOUS
  <2>1. /\ Apart(from[i], a) /\ Apart(from[i], b) /\ Apart(a, to[i]) /\ Apart(to[i], b)
        /\ from[i] \in Place /\ to[i] \in Place
    BY <1>3, <1>4
  <2> QED
    BY <2>1, <1>3, ApartBelow
<1>12. ASSUME NEW i \in 1..(k + 1), NEW r \in Place
       PROVE  /\ to[i] \o r \in DOMAIN v <=> from[i] \o r \in DOMAIN t
              /\ from[i] \o r \in DOMAIN t => v[to[i] \o r] = t[from[i] \o r]
  <2>1. CASE i = k + 1
    <3>1. (a \o r \in DOMAIN u <=> a \o r \in DOMAIN t) /\ (a \o r \in DOMAIN t => u[a \o r] = t[a \o r])
      BY <1>5 DEF Shifted
    <3>2. (b \o r \in DOMAIN v <=> a \o r \in DOMAIN u) /\ (a \o r \in DOMAIN u => v[b \o r] = u[a \o r])
      BY <1>10 DEF Relocated
    <3> QED
      BY <3>1, <3>2, <2>1 DEF a, b
  <2>2. CASE i \in 1..k
    <3> DEFINE x == to[i] \o r
               y == from[i] \o r
    <3>1. to[i] \in Place /\ x \in Place /\ IsPrefix(to[i], x)
      BY <2>2, <1>3, Beneath
    <3>2. (x \in DOMAIN u <=> y \in DOMAIN t) /\ (y \in DOMAIN t => u[x] = t[y])
      BY <2>2 DEF Shifted
    <3> HIDE DEF x, y
    <3>3. (x \in DOMAIN v <=> x \in DOMAIN u) /\ (x \in DOMAIN u => v[x] = u[x])
      BY <2>2, <3>1, <1>10, <1>11 DEF Relocated
    <3>4. (x \in DOMAIN v <=> y \in DOMAIN t) /\ (y \in DOMAIN t => v[x] = t[y])
      BY <3>2, <3>3
    <3> QED
      BY <3>4 DEF x, y
  <2>3. i = k + 1 \/ i \in 1..k
    OBVIOUS
  <2> QED
    BY <2>1, <2>2, <2>3
<1>13. ASSUME NEW i \in 1..(k + 1), NEW q \in Place, IsPrefix(from[i], q) PROVE q \notin DOMAIN v
  <2>1. CASE i = k + 1
    BY <2>1, <1>10, <1>13 DEF Relocated, a
  <2>2. CASE i \in 1..k
    <3>1. q \notin DOMAIN u
      BY <2>2, <1>13 DEF Shifted
    <3>2. ~IsPrefix(a, q) /\ ~IsPrefix(b, q)
      BY <2>2, <1>11, <1>13
    <3> QED
      BY <3>1, <3>2, <1>10 DEF Relocated
  <2>3. i = k + 1 \/ i \in 1..k
    OBVIOUS
  <2> QED
    BY <2>1, <2>2, <2>3
<1>14. ASSUME NEW q \in Place, Untouched(q, from, to, k + 1)
       PROVE  (q \in DOMAIN v <=> q \in DOMAIN t) /\ (q \in DOMAIN t => v[q] = t[q])
  <2>1. Untouched(q, from, to, k) /\ ~IsPrefix(a, q) /\ ~IsPrefix(b, q)
    BY <1>14 DEF Untouched, a, b
  <2>2. (q \in DOMAIN u <=> q \in DOMAIN t) /\ (q \in DOMAIN t => u[q] = t[q])
    BY <2>1 DEF Shifted
  <2>3. (q \in DOMAIN v <=> q \in DOMAIN u) /\ (q \in DOMAIN u => v[q] = u[q])
    BY <2>1, <1>10 DEF Relocated
  <2> QED
    BY <2>2, <2>3
<1>15. Shifted(t, v, from, to, k + 1)
  BY <1>12, <1>13, <1>14 DEF Shifted
<1> QED
  BY <1>1, <1>9, <1>10, <1>15 DEF v

(* All of them, continuing a walk; the places of Z are there all the time. *)
Waiting(Z, f, n) == \A z \in Z, l \in 0..n : z \in DOMAIN f[l]
Spared(Z, from, to, n) == \A z \in Z : z \in Place /\ Untouched(z, from, to, n)
Renames(moves, a, from, to, n) ==
  moves \in Seq(Step) /\ a + n <= Len(moves) /\ \A i \in 1..n : moves[a + i] = Renaming(from[i], to[i])

LEMMA Phase ==
  ASSUME NEW a \in Nat, NEW n \in Nat, NEW moves, NEW from, NEW to, Renames(moves, a, from, to, n),
         NEW f, Walk(f, moves, a), Scheduled(f[a], from, to, n), Waiting({from[i] : i \in 1..n}, f, a),
         NEW Z, Waiting(Z, f, a), Spared(Z, from, to, n)
  PROVE  \E g : /\ Walk(g, moves, a + n) /\ g[0] = f[0] /\ Shifted(f[a], g[a + n], from, to, n)
                /\ Waiting(Z, g, a + n)
<1> DEFINE Todo(k) == {from[i] : i \in (k + 1)..n}
           OK(k, g) == /\ Walk(g, moves, a + k) /\ g[0] = f[0] /\ Shifted(f[a], g[a + k], from, to, k)
                       /\ Waiting(Z, g, a + k) /\ Waiting(Todo(k), g, a + k)
           P == {k \in Nat : k <= n => \E g : OK(k, g)}
<1>1. 0 \in P
  <2>1. 1..0 = {} /\ a + 0 = a /\ Todo(0) = {from[i] : i \in 1..n}
    OBVIOUS
  <2>2. Shifted(f[a], f[a], from, to, 0)
    BY <2>1 DEF Shifted, Untouched
  <2> HIDE DEF Todo
  <2>3. OK(0, f)
    BY <2>1, <2>2
  <2> HIDE DEF OK
  <2> QED
    BY <2>3
<1> HIDE DEF OK
<1>2. ASSUME NEW k \in P PROVE k + 1 \in P
  <2> SUFFICES ASSUME k + 1 <= n PROVE \E g : OK(k + 1, g)
    OBVIOUS
  <2>1. k \in Nat /\ k < n /\ k <= n /\ a + k \in Nat /\ a + (k + 1) = (a + k) + 1 /\ k + 1 \in 1..n
    OBVIOUS
  <2>2. PICK g : OK(k, g)
    BY <2>1
  <2> DEFINE m == moves[a + k + 1]
             u == g[a + k]
             v == Rename(u, m.from, m.to)
             Y == Z \cup Todo(k + 1)
  <2>3. /\ Walk(g, moves, a + k) /\ g[0] = f[0] /\ Shifted(f[a], u, from, to, k)
        /\ Waiting(Z, g, a + k) /\ Waiting(Todo(k), g, a + k)
    BY <2>2 DEF OK, u
  <2>4. m = Renaming(from[k + 1], to[k + 1]) /\ Len(moves) \in Nat /\ a + k < Len(moves)
    <3>1. Len(moves) \in Nat /\ a + n <= Len(moves) /\ moves[a + (k + 1)] = Renaming(from[k + 1], to[k + 1])
      BY <2>1 DEF Renames
    <3> QED
      BY <3>1, <2>1
  <2>5. Tree(u)
    BY <2>1, <2>3 DEF Walk
  <2> HIDE DEF u, m
  <2>6. CanMove(u, m) /\ Tree(v) /\ Shifted(f[a], v, from, to, k + 1)
    BY <2>1, <2>3, <2>4, <2>5, ShiftOne
  <2>7. \A l \in 0..(a + k) : m.from \in DOMAIN g[l]
    <3>1. from[k + 1] \in Todo(k)
      BY <2>1
    <3> HIDE DEF Todo
    <3> QED
      BY <3>1, <2>3, <2>4 DEF Waiting, Renaming
  <2>8. PICK h : Walk(h, moves, (a + k) + 1) /\ (\A l \in 0..(a + k) : h[l] = g[l]) /\ h[(a + k) + 1] = v
    BY <2>1, <2>3, <2>4, <2>6, <2>7, Walked DEF m, u
  <2>9. \A z \in Y : z \in Place /\ Untouched(z, from, to, k + 1) /\ z \in DOMAIN f[a]
    <3>1. ASSUME NEW z \in Z PROVE z \in Place /\ Untouched(z, from, to, k + 1) /\ z \in DOMAIN f[a]
      BY <2>1 DEF Spared, Untouched, Waiting
    <3>2. ASSUME NEW j \in (k + 2)..n
          PROVE  from[j] \in Place /\ Untouched(from[j], from, to, k + 1) /\ from[j] \in DOMAIN f[a]
      <4>1. j \in 1..n /\ \A i \in 1..(k + 1) : i \in 1..n /\ i # j
        BY <2>1
      <4>2. from[j] \in Place /\ from[j] \in DOMAIN f[a]
        BY <4>1, Spots DEF Scheduled
      <4>3. \A i \in 1..(k + 1) : Apart(from[i], from[j]) /\ Apart(from[j], to[i])
        BY <4>1 DEF Scheduled
      <4> QED
        BY <4>2, <4>3 DEF Untouched, Apart
    <3>3. Todo(k + 1) = {from[j] : j \in (k + 2)..n}
      BY <2>1
    <3> HIDE DEF Todo
    <3> QED
      BY <3>1, <3>2, <3>3
  <2>10. \A z \in Y : z \in DOMAIN v
    BY <2>6, <2>9 DEF Shifted
  <2>11. Waiting(Z, g, a + k) /\ Waiting(Todo(k + 1), g, a + k)
    <3>1. Todo(k + 1) \subseteq Todo(k)
      BY <2>1
    <3> HIDE DEF Todo
    <3> QED
      BY <3>1, <2>3 DEF Waiting
  <2>12. \A z \in Y, l \in 0..((a + k) + 1) : z \in DOMAIN h[l]
    <3> SUFFICES ASSUME NEW z \in Y, NEW l \in 0..((a + k) + 1) PROVE z \in DOMAIN h[l]
      OBVIOUS
    <3>1. l = (a + k) + 1 \/ l \in 0..(a + k)
      BY <2>1
    <3> HIDE DEF Todo, v
    <3>2. CASE l = (a + k) + 1
      BY <3>2, <2>8, <2>10
    <3>3. CASE l \in 0..(a + k)
      BY <3>3, <2>8, <2>11 DEF Waiting
    <3> QED
      BY <3>1, <3>2, <3>3
  <2>13. h[0] = f[0]
    BY <2>1, <2>3, <2>8
  <2> HIDE DEF Todo, v
  <2>14. Waiting(Z, h, (a + k) + 1) /\ Waiting(Todo(k + 1), h, (a + k) + 1)
    BY <2>12 DEF Waiting
  <2>15. OK(k + 1, h)
    BY <2>1, <2>6, <2>8, <2>13, <2>14 DEF OK
  <2> QED
    BY <2>15
<1>3. P = Nat
  <2>1. P \in SUBSET Nat
    OBVIOUS
  <2> HIDE DEF P
  <2> QED
    BY <1>1, <1>2, <2>1, Induction
<1>4. PICK g : OK(n, g)
  BY <1>3
<1> QED
  BY <1>4 DEF OK

BeforePhase(f, moves, a, from, to, n, Z) ==
  /\ a \in Nat /\ n \in Nat /\ Renames(moves, a, from, to, n) /\ Walk(f, moves, a)
  /\ Scheduled(f[a], from, to, n) /\ Waiting({from[i] : i \in 1..n}, f, a)
  /\ Waiting(Z, f, a) /\ Spared(Z, from, to, n)
AfterPhase(f, g, moves, a, from, to, n, Z) ==
  /\ Walk(g, moves, a + n) /\ g[0] = f[0] /\ Shifted(f[a], g[a + n], from, to, n)
  /\ Waiting(Z, g, a + n)

LEMMA OnePhase ==
  ASSUME NEW f, NEW moves, NEW a, NEW from, NEW to, NEW n, NEW Z, BeforePhase(f, moves, a, from, to, n, Z)
  PROVE  \E g : AfterPhase(f, g, moves, a, from, to, n, Z)
<1>1. /\ a \in Nat /\ n \in Nat /\ Renames(moves, a, from, to, n) /\ Walk(f, moves, a)
      /\ Scheduled(f[a], from, to, n) /\ Waiting({from[i] : i \in 1..n}, f, a)
      /\ Waiting(Z, f, a) /\ Spared(Z, from, to, n)
  BY DEF BeforePhase
<1>2. \E g : /\ Walk(g, moves, a + n) /\ g[0] = f[0] /\ Shifted(f[a], g[a + n], from, to, n)
            /\ Waiting(Z, g, a + n)
  BY <1>1, Phase
<1> QED
  BY <1>2 DEF AfterPhase

(* A sequence of all members of a set.                                     *)
LEMMA AllOf ==
  ASSUME NEW S, IsFiniteSet(S), NEW q \in SetToSeqs(S)
  PROVE  /\ Len(q) \in Nat /\ DOMAIN q = 1..Len(q) /\ \A i \in 1..Len(q) : q[i] \in S
         /\ \A i, j \in 1..Len(q) : i # j => q[i] # q[j]
         /\ \A x \in S : \E i \in 1..Len(q) : q[i] = x
<1> DEFINE n == Cardinality(S)
           D == 1..n
<1>1. n \in Nat
  BY FS_CardinalityType
<1>2. q \in [D -> S] /\ \A i, j \in D : i # j => q[i] # q[j]
  BY DEF SetToSeqs
<1>3. IsFiniteSet(D) /\ Cardinality(D) = n
  BY <1>1, FS_Interval
<1>4. q \in Injection(D, S)
  BY <1>2 DEF Injection, IsInjective
<1>5. q \in Surjection(D, S)
  BY <1>3, <1>4, FS_Injection
<1> HIDE DEF n
<1>6. DOMAIN q = 1..n /\ Len(q) = n
  BY <1>1, <1>2
<1>7. \A x \in S : \E i \in D : q[i] = x
  BY <1>5 DEF Surjection
<1> QED
  BY <1>1, <1>2, <1>6, <1>7

(* What Load stages and records.                                           *)
Unpacked(A) == [p \in {<<>>} \cup {i.key.path : i \in A} |->
                  IF p = <<>> THEN Dir ELSE (CHOOSE i \in A : i.key.path = p).content]
Recorded(i) == [id |-> i.id, key |-> i.key, size |-> IF i.key.dir THEN 0 ELSE Size[i.content]]
MetasOf(A) == {[id |-> i.id, key |-> i.key, size |-> IF i.key.dir THEN 0 ELSE Size[i.content]] : i \in A}

LEMMA ArchiveFacts ==
  ASSUME NEW A \in Archives
  PROVE  /\ IsFiniteSet(A)
         /\ \A i \in A : /\ i.id \in Id /\ i.key \in Key /\ i.key.path \in Path /\ i.key.dir \in BOOLEAN
                         /\ i = [id |-> i.id, key |-> i.key, content |-> i.content]
                         /\ i.content \in Content \cup {Dir} /\ (i.content = Dir <=> i.key.dir)
                         /\ Len(i.key.path) = 1 \/ \E j \in A : j.key = DirKey(ParentPath(i.key.path))
         /\ \A i, j \in A : i # j => i.id # j.id /\ i.key.path # j.key.path
         /\ Index(MetasOf(A))
<1>1. /\ IsFiniteSet(A) /\ A \subseteq [id: Id, key: Key, content: Content \cup {Dir}]
      /\ \A i \in A : /\ i.content = Dir <=> i.key.dir
                      /\ Len(i.key.path) = 1 \/ \E j \in A : j.key = DirKey(ParentPath(i.key.path))
      /\ \A i, j \in A : i # j => i.id # j.id /\ i.key.path # j.key.path
  BY StorageAssumption
<1>2. \A i \in A : /\ i.id \in Id /\ i.key \in Key /\ i.content \in Content \cup {Dir}
                   /\ i = [id |-> i.id, key |-> i.key, content |-> i.content]
                   /\ i.key.path \in Path /\ i.key.dir \in BOOLEAN
  BY <1>1 DEF Key
<1>3. \A i \in A : /\ Recorded(i) \in Meta /\ Recorded(i).id = i.id /\ Recorded(i).key = i.key
  <2> SUFFICES ASSUME NEW i \in A PROVE Recorded(i) \in Meta /\ Recorded(i).id = i.id /\ Recorded(i).key = i.key
    OBVIOUS
  <2>1. Recorded(i).id = i.id /\ Recorded(i).key = i.key
    BY DEF Recorded
  <2>2. ~i.key.dir => Size[i.content] \in Range(Size)
    BY <1>1, <1>2, StorageAssumption DEF Range
  <2> DEFINE z == IF i.key.dir THEN 0 ELSE Size[i.content]
  <2>3. z \in {0} \cup Range(Size)
    BY <2>2
  <2> HIDE DEF z
  <2>4. [id |-> i.id, key |-> i.key, size |-> z] \in Meta
    BY <2>3, <1>2 DEF Meta
  <2> QED
    BY <2>1, <2>4 DEF Recorded, z
<1>4. MetasOf(A) = {Recorded(i) : i \in A}
  BY DEF MetasOf, Recorded
<1>5. WellFormed(MetasOf(A))
  <2> HIDE DEF WellFormed
  <2>1. ASSUME NEW m \in MetasOf(A), NEW n \in MetasOf(A) PROVE n = m \/ (n.id # m.id /\ n.key.path # m.key.path)
    <3>1. PICK i \in A, j \in A : m = Recorded(i) /\ n = Recorded(j)
      BY <1>4
    <3> QED
      BY <3>1, <1>1, <1>3
  <2>2. ASSUME NEW m \in MetasOf(A)
        PROVE  Len(m.key.path) = 1 \/ \E n \in MetasOf(A) : n.key = DirKey(ParentPath(m.key.path))
    <3>1. PICK i \in A : m = Recorded(i)
      BY <1>4
    <3> QED
      BY <3>1, <1>1, <1>3, <1>4
  <2> QED
    BY <2>1, <2>2 DEF WellFormed
<1>6. MetasOf(A) \subseteq Meta
  BY <1>3, <1>4
<1> QED
  BY <1>1, <1>2, <1>5, <1>6 DEF Index

LEMMA UnpackedFacts ==
  ASSUME NEW A \in Archives
  PROVE  /\ Part(Unpacked(A)) /\ DOMAIN Unpacked(A) = {<<>>} \cup {i.key.path : i \in A}
         /\ \A i \in A : Unpacked(A)[i.key.path] = i.content
         /\ \A i \in A : \E r \in Place, e \in DOMAIN Unpacked(A) : Len(e) = 1 /\ i.key.path = e \o r
<1> DEFINE u == Unpacked(A)
           d == {i.key.path : i \in A}
<1>1. /\ IsFiniteSet(A)
      /\ \A i \in A : /\ i.key.path \in Path /\ i.content \in Content \cup {Dir}
                      /\ Len(i.key.path) = 1 \/ \E j \in A : j.key = DirKey(ParentPath(i.key.path))
      /\ \A i, j \in A : i # j => i.key.path # j.key.path
  BY ArchiveFacts
<1>2. \A p \in d : p \in Path /\ p \in Place /\ p # <<>>
  BY <1>1, Places
<1>3. DOMAIN u = {<<>>} \cup d /\ u = [p \in DOMAIN u |-> u[p]] /\ u[<<>>] = Dir
  BY DEF Unpacked
<1>4. \A i \in A : u[i.key.path] = i.content
  <2> SUFFICES ASSUME NEW i \in A PROVE u[i.key.path] = i.content
    OBVIOUS
  <2>1. (CHOOSE j \in A : j.key.path = i.key.path) = i
    BY <1>1
  <2>2. i.key.path \in d /\ i.key.path # <<>>
    BY <1>2
  <2>3. u[i.key.path] = (CHOOSE j \in A : j.key.path = i.key.path).content
    BY <2>2 DEF Unpacked
  <2> QED
    BY <2>1, <2>3
<1>5. IsFiniteSet(d)
  <2> DEFINE g == [i \in A |-> i.key.path]
  <2>1. IsFiniteSet({g[x] : x \in DOMAIN g})
    BY <1>1, FiniteImage
  <2> QED
    BY <2>1
<1> HIDE DEF u
<1>6. IsFiniteSet(DOMAIN u)
  <2> HIDE DEF d
  <2> QED
    BY <1>3, <1>5, FS_AddElement
<1>7. \A p \in DOMAIN u : u[p] \in Node
  BY <1>1, <1>3, <1>4 DEF Node
<1>8. \A p \in DOMAIN u : p = <<>> \/ ParentPath(p) \in DOMAIN u
  <2> SUFFICES ASSUME NEW i \in A PROVE ParentPath(i.key.path) \in DOMAIN u
    BY <1>3
  <2>1. CASE Len(i.key.path) = 1
    <3>1. ParentPath(i.key.path) = <<>>
      BY <2>1, <1>2, ParentOf
    <3> QED
      BY <3>1, <1>3
  <2>2. CASE Len(i.key.path) # 1
    <3>1. PICK j \in A : j.key = DirKey(ParentPath(i.key.path))
      BY <2>2, <1>1
    <3> QED
      BY <3>1, <1>3 DEF DirKey
  <2> QED
    BY <2>1, <2>2
<1>9. DOMAIN u \subseteq Place
  BY <1>2, <1>3, Places
<1>10. Part(u)
  BY <1>3, <1>6, <1>7, <1>8, <1>9 DEF Part
<1>11. \A i \in A : \E r \in Place, e \in DOMAIN u : Len(e) = 1 /\ i.key.path = e \o r
  <2> SUFFICES ASSUME NEW i \in A PROVE \E r \in Place, e \in DOMAIN u : Len(e) = 1 /\ i.key.path = e \o r
    OBVIOUS
  <2> DEFINE q == i.key.path
             e == SubSeq(q, 1, 1)
  <2>1. q \in d /\ q \in Place /\ q # <<>> /\ Len(q) \in Nat /\ Len(q) >= 1
    BY <1>2, At
  <2>2. e \in Place /\ Len(e) = 1 /\ e[1] = q[1]
    BY <2>1, Cut
  <2> HIDE DEF e
  <2>3. e # <<>> /\ IsPrefix(e, q)
    <3>1. Len(e) <= Len(q) /\ \A k \in 1..Len(e) : e[k] = q[k]
      BY <2>1, <2>2
    <3>2. e # <<>>
      BY <2>2, At
    <3>3. IsPrefix(e, q)
      BY <3>1, <2>1, <2>2, PrefixAt
    <3> QED
      BY <3>2, <3>3
  <2>4. Rest(q, e) \in Place /\ q = e \o Rest(q, e)
    BY <2>1, <2>2, <2>3, Below
  <2>5. e \in DOMAIN u
    <3>1. CASE e = q
      BY <3>1, <1>3, <2>1
    <3>2. CASE e # q
      <4>1. Index(MetasOf(A)) /\ Recorded(i) \in MetasOf(A) /\ Recorded(i).key = i.key
        BY ArchiveFacts DEF MetasOf, Recorded
      <4>2. \E m \in MetasOf(A) : m.key = DirKey(e)
        BY <4>1, <3>2, <2>2, <2>3, Ancestor
      <4>3. PICK j \in A : j.key = DirKey(e)
        BY <4>2 DEF MetasOf
      <4> QED
        BY <4>3, <1>3 DEF DirKey
    <3> QED
      BY <3>1, <3>2
  <2> QED
    BY <2>2, <2>4, <2>5
<1> QED
  BY <1>3, <1>4, <1>10, <1>11 DEF u
(* Paths that differ somewhere, and the names of a joined path.            *)
LEMMA Differing ==
  ASSUME NEW p \in Place, NEW q \in Place, NEW k \in Nat, 1 <= k, k <= Len(p), k <= Len(q), p[k] # q[k]
  PROVE  Apart(p, q)
<1>1. k \in 1..Len(p) /\ k \in 1..Len(q)
  BY At
<1> QED
  BY <1>1, PrefixAt DEF Apart

LEMMA JoinedOne ==
  ASSUME NEW p \in Place, NEW r \in Place, Len(r) = 1
  PROVE  /\ p \o r \in Place /\ Len(p \o r) = Len(p) + 1 /\ (p \o r)[Len(p) + 1] = r[1]
         /\ Len(p) >= 1 => (p \o r)[1] = p[1]
         /\ Len(p) >= 2 => (p \o r)[2] = p[2]
<1>1. p \o r \in Place /\ Len(p \o r) = Len(p) + 1 /\ Len(p) \in Nat
  <2>1. p \o r \in Place /\ Len(p \o r) = Len(p) + Len(r)
    BY Joined
  <2>2. Len(p) \in Nat
    BY At
  <2> QED
    BY <2>1, <2>2
<1>2. (p \o r)[Len(p) + 1] = r[1]
  BY Joined
<1>3. \A i \in 1..Len(p) : (p \o r)[i] = p[i]
  BY Joined
<1>4. /\ Len(p) >= 1 => 1 \in 1..Len(p)
      /\ Len(p) >= 2 => 2 \in 1..Len(p)
  BY <1>1
<1> QED
  BY <1>1, <1>2, <1>3, <1>4

(* The places that Load renames from and to.                               *)
LEMMA FirstName ==
  /\ \A p, q \in Place : p # <<>> /\ q # <<>> /\ p[1] # q[1] => Apart(p, q)
  /\ \A p, q \in Place : Len(p) = 1 /\ Len(q) = 1 /\ p # q => p[1] # q[1] /\ Apart(p, q)
  /\ \A p, q \in Place : Len(p) = 1 /\ p # <<>> => (p \o q)[1] = p[1]
<1>1. ASSUME NEW p \in Place, NEW q \in Place, p # <<>>, q # <<>>, IsPrefix(p, q) PROVE p[1] = q[1]
  <2>1. Len(p) \in Nat /\ Len(p) >= 1
    BY <1>1, At
  <2> QED
    BY <1>1, <2>1, PrefixAt
<1>2. ASSUME NEW p \in Place, NEW q \in Place, p # <<>>, q # <<>>, p[1] # q[1] PROVE Apart(p, q)
  BY <1>1, <1>2 DEF Apart
<1>3. ASSUME NEW p \in Place, NEW q \in Place, Len(p) = 1, Len(q) = 1, p # q PROVE p[1] # q[1] /\ Apart(p, q)
  <2>1. p[1] # q[1]
    BY <1>3, Same
  <2>2. p # <<>> /\ q # <<>>
    BY <1>3, At
  <2> QED
    BY <2>1, <2>2, <1>2
<1>4. ASSUME NEW p \in Place, NEW q \in Place, Len(p) = 1 PROVE (p \o q)[1] = p[1]
  BY <1>4, Joined
<1> QED
  BY <1>2, <1>3, <1>4

Top(p) == p \in Spot /\ Len(p) = 1 /\ p # TransactionDir

LEMMA Tops ==
  ASSUME NEW p, Top(p)
  PROVE  /\ p \in Place /\ p # <<>> /\ p[1] # "new" /\ p[1] # TransactionDir[1]
         /\ TransactionDir \o p \in Spot /\ TransactionDir \o p \in Place /\ Len(TransactionDir \o p) = 2
         /\ (TransactionDir \o p)[1] = TransactionDir[1] /\ (TransactionDir \o p)[2] = p[1]
         /\ ParentPath(TransactionDir \o p) = TransactionDir
         /\ IsPrefix(TransactionDir, TransactionDir \o p) /\ TransactionDir \o p # TransactionDir
         /\ New \o p \in Spot /\ New \o p \in Place /\ (New \o p)[1] = TransactionDir[1]
         /\ (New \o p)[2] = "new" /\ (New \o p)[3] = p[1] /\ Len(New \o p) = 3
         /\ IsPrefix(New, New \o p) /\ IsPrefix(TransactionDir, New \o p) /\ New \o p # New
<1>1. p \in Spot /\ p \in Place /\ p # <<>> /\ p[1] # "new" /\ Len(p) = 1 /\ p # TransactionDir
  BY Spots DEF Top, Spot
<1>2. /\ TransactionDir \in Place /\ New \in Place /\ TransactionDir # <<>> /\ Len(TransactionDir) = 1
      /\ TransactionDir \in Spot /\ New \in Spot /\ <<>> \in Place
  BY Places, Spots
<1>3. p[1] # TransactionDir[1]
  BY <1>1, <1>2, FirstName
<1>4. /\ TransactionDir \o p \in Spot /\ TransactionDir \o p \in Place /\ Len(TransactionDir \o p) = 2
      /\ (TransactionDir \o p)[1] = TransactionDir[1] /\ (TransactionDir \o p)[2] = p[1]
  <2>1. TransactionDir \o p \in Spot
    BY <1>1, <1>2, Spots
  <2>2. /\ TransactionDir \o p \in Place /\ Len(TransactionDir \o p) = Len(TransactionDir) + 1
        /\ (TransactionDir \o p)[Len(TransactionDir) + 1] = p[1]
        /\ Len(TransactionDir) >= 1 => (TransactionDir \o p)[1] = TransactionDir[1]
    BY <1>1, <1>2, JoinedOne
  <2> QED
    BY <2>1, <2>2, <1>2
<1>5. IsPrefix(TransactionDir, TransactionDir \o p) /\ TransactionDir \o p # TransactionDir
  BY <1>1, <1>2, <1>4, Beneath
<1>6. ParentPath(TransactionDir \o p) = TransactionDir
  <2>1. ParentPath(p) = <<>>
    BY <1>1, ParentOf
  <2>2. ParentPath(TransactionDir \o p) = TransactionDir \o <<>>
    BY <2>1, <1>1, <1>2, ParentBeneath
  <2>3. TransactionDir \o <<>> = TransactionDir
    <3>1. /\ TransactionDir \o <<>> \in Place /\ Len(TransactionDir \o <<>>) = 1
          /\ (TransactionDir \o <<>>)[1] = TransactionDir[1]
      BY <1>2, Joined, At
    <3> QED
      BY <3>1, <1>2, Same
  <2> QED
    BY <2>2, <2>3
<1>7. Len(New) = 2 /\ New[1] = TransactionDir[1] /\ New[2] = "new"
  <2>1. <<"new">> \in Place /\ Len(<<"new">>) = 1 /\ <<"new">>[1] = "new"
    BY DEF Place, Name, Entries
  <2>2. /\ Len(TransactionDir \o <<"new">>) = Len(TransactionDir) + 1
        /\ (TransactionDir \o <<"new">>)[Len(TransactionDir) + 1] = <<"new">>[1]
        /\ Len(TransactionDir) >= 1 => (TransactionDir \o <<"new">>)[1] = TransactionDir[1]
    BY <2>1, <1>2, JoinedOne
  <2> QED
    BY <2>1, <2>2, <1>2 DEF New
<1>8. /\ New \o p \in Spot /\ New \o p \in Place /\ (New \o p)[1] = TransactionDir[1]
      /\ (New \o p)[2] = "new" /\ (New \o p)[3] = p[1] /\ Len(New \o p) = 3
  <2>1. New \o p \in Spot
    BY <1>1, <1>2, Spots
  <2>2. /\ New \o p \in Place /\ Len(New \o p) = Len(New) + 1
        /\ (New \o p)[Len(New) + 1] = p[1]
        /\ Len(New) >= 1 => (New \o p)[1] = New[1]
        /\ Len(New) >= 2 => (New \o p)[2] = New[2]
    BY <1>1, <1>2, JoinedOne
  <2> QED
    BY <2>1, <2>2, <1>7
<1>9. IsPrefix(New, New \o p) /\ New \o p # New
  BY <1>1, <1>2, <1>7, <1>8, Beneath
<1>10. IsPrefix(TransactionDir, New \o p)
  <2>1. IsPrefix(TransactionDir, New)
    BY OldPlace
  <2> QED
    BY <2>1, <1>2, <1>8, <1>9, PrefixOrder
<1> QED
  BY <1>1, <1>3, <1>4, <1>5, <1>6, <1>8, <1>9, <1>10

(* Two of them.                                                            *)
LEMMA TwoTops ==
  ASSUME NEW p, Top(p), NEW q, Top(q)
  PROVE  /\ Apart(p, TransactionDir \o q) /\ Apart(p, New \o q) /\ Apart(TransactionDir \o p, New \o q)
         /\ ~IsPrefix(p, TransactionDir) /\ ~IsPrefix(TransactionDir \o q, TransactionDir)
         /\ ~IsPrefix(TransactionDir, p) /\ ~IsPrefix(New, TransactionDir \o p)
         /\ p # q => /\ Apart(p, q) /\ Apart(TransactionDir \o p, TransactionDir \o q)
                     /\ Apart(New \o p, New \o q)
<1> DEFINE P == TransactionDir \o p
           Q == TransactionDir \o q
           M == New \o p
           N == New \o q
<1>1. /\ p \in Place /\ p # <<>> /\ p[1] # "new" /\ p[1] # TransactionDir[1] /\ P \in Place /\ Len(P) = 2
      /\ P[1] = TransactionDir[1] /\ P[2] = p[1] /\ M \in Place /\ M[1] = TransactionDir[1] /\ M[2] = "new"
      /\ M[3] = p[1] /\ Len(M) = 3
  BY Tops
<1>2. /\ q \in Place /\ q # <<>> /\ q[1] # "new" /\ q[1] # TransactionDir[1] /\ Q \in Place /\ Len(Q) = 2
      /\ Q[1] = TransactionDir[1] /\ Q[2] = q[1] /\ N \in Place /\ N[1] = TransactionDir[1] /\ N[2] = "new"
      /\ N[3] = q[1] /\ Len(N) = 3
  BY Tops
<1>3. TransactionDir \in Place /\ TransactionDir # <<>> /\ Len(TransactionDir) = 1 /\ New \in Place
  BY Places
<1> HIDE DEF P, Q, M, N
<1>4. Apart(p, Q) /\ Apart(p, N) /\ Apart(p, TransactionDir)
  BY <1>1, <1>2, <1>3, FirstName, At
<1>5. Apart(P, N)
  <2>1. P \in Place /\ N \in Place /\ 2 <= Len(P) /\ 2 <= Len(N) /\ P[2] # N[2]
    BY <1>1, <1>2
  <2> QED
    BY <2>1, Differing
<1>6. ~IsPrefix(Q, TransactionDir)
  <2>1. Q \in Place /\ TransactionDir \in Place /\ Len(Q) = 2 /\ Len(TransactionDir) = 1
    BY <1>2, <1>3
  <2>2. ~(Len(Q) <= Len(TransactionDir))
    BY <2>1
  <2> QED
    BY ONLY <2>1, <2>2, PrefixAt
<1>7. ~IsPrefix(New, P)
  <2>1. Len(New) = 2 /\ New[2] = "new"
    <3>1. <<"new">> \in Place /\ Len(<<"new">>) = 1 /\ <<"new">>[1] = "new"
      BY DEF Place, Name, Entries
    <3>2. /\ Len(TransactionDir \o <<"new">>) = Len(TransactionDir) + 1
          /\ (TransactionDir \o <<"new">>)[Len(TransactionDir) + 1] = <<"new">>[1]
      BY <3>1, <1>3, JoinedOne
    <3> QED
      BY <3>1, <3>2, <1>3 DEF New
  <2>2. Apart(New, P)
    BY <2>1, <1>1, <1>3, Differing
  <2> QED
    BY <2>2 DEF Apart
<1>8. ASSUME p # q PROVE Apart(p, q) /\ Apart(P, Q) /\ Apart(M, N)
  <2>1. p[1] # q[1] /\ Apart(p, q)
    BY <1>8, <1>1, <1>2, FirstName DEF Top
  <2>2. Apart(P, Q)
    BY <2>1, <1>1, <1>2, Differing
  <2>3. Apart(M, N)
    <3>1. M \in Place /\ N \in Place /\ 3 <= Len(M) /\ 3 <= Len(N) /\ M[3] # N[3]
      BY <1>1, <1>2, <2>1
    <3> QED
      BY <3>1, Differing
  <2> QED
    BY <2>1, <2>2, <2>3
<1> QED
  BY <1>4, <1>5, <1>6, <1>7, <1>8 DEF Apart, P, Q, M, N

(* The two lists of Load: what leaves the base directory and what comes.   *)
Listed(q, S) ==
  /\ Len(q) \in Nat /\ DOMAIN q = 1..Len(q) /\ \A i \in 1..Len(q) : q[i] \in S /\ Top(q[i])
  /\ \A i, j \in 1..Len(q) : i # j => q[i] # q[j]
  /\ \A x \in S : \E i \in 1..Len(q) : q[i] = x
Entering(A) == {p \in DOMAIN Unpacked(A) : Len(p) = 1}

LEMMA LoadLists ==
  ASSUME IInv, pc = "ready", NEW A \in Archives,
         NEW out \in SetToSeqs(TopLevel(tree)), NEW in \in SetToSeqs(Entering(A))
  PROVE  Listed(out, TopLevel(tree)) /\ Listed(in, Entering(A)) /\ Entering(A) \subseteq Path
<1>1. DOMAIN tree \subseteq Spot /\ IsFiniteSet(DOMAIN tree)
  BY ShapeFacts DEF Tree
<1>2. IsFiniteSet(TopLevel(tree)) /\ \A p \in TopLevel(tree) : Top(p)
  BY <1>1, FS_Subset DEF TopLevel, Top
<1>3. Part(Unpacked(A)) /\ DOMAIN Unpacked(A) = {<<>>} \cup {i.key.path : i \in A}
  BY UnpackedFacts
<1>4. \A i \in A : i.key.path \in Path
  BY ArchiveFacts
<1>5. Len(<<>>) = 0
  OBVIOUS
<1>6. Entering(A) \subseteq Path
  BY <1>3, <1>4, <1>5 DEF Entering
<1>7. IsFiniteSet(Entering(A))
  BY <1>3, FS_Subset DEF Part, Entering
<1>8. \A p \in Path : p \in Spot /\ p # TransactionDir
  BY Places, Spots, PrefixOrder
<1>9. \A p \in Entering(A) : Top(p)
  BY <1>6, <1>8 DEF Top, Entering
<1>10. Listed(out, TopLevel(tree))
  BY <1>2, AllOf DEF Listed
<1>11. Listed(in, Entering(A))
  BY <1>7, <1>9, AllOf DEF Listed
<1> QED
  BY <1>6, <1>10, <1>11

(* The tree that Load starts from.                                         *)
LEMMA LoadStart ==
  ASSUME IInv, pc = "ready", NEW A \in Archives, NEW B, B = Put(Opened, New, Unpacked(A))
  PROVE  /\ Tree(B) /\ TransactionDir \in DOMAIN B /\ FilesMatch(indexFile, B)
         /\ \A p \in TopLevel(tree) : p \in DOMAIN B
         /\ \A p : Top(p) => TransactionDir \o p \notin DOMAIN B
         /\ \A p : Top(p) /\ p \in DOMAIN B => p \in TopLevel(tree)
         /\ \A r \in Place : /\ New \o r \in DOMAIN B <=> r \in DOMAIN Unpacked(A)
                             /\ r \in DOMAIN Unpacked(A) => B[New \o r] = Unpacked(A)[r]
<1>1. Part(Unpacked(A))
  BY UnpackedFacts
<1>2. /\ Tree(B) /\ TransactionDir \in DOMAIN B /\ FilesMatch(indexFile, B)
      /\ \A q \in Place : ~IsPrefix(TransactionDir, q) => (q \in DOMAIN B <=> q \in DOMAIN tree)
      /\ \A r \in Place : /\ New \o r \in DOMAIN B <=> r \in DOMAIN Unpacked(A)
                          /\ r \in DOMAIN Unpacked(A) => B[New \o r] = Unpacked(A)[r]
      /\ \A q \in Place : IsPrefix(TransactionDir, q) /\ q # TransactionDir /\ ~IsPrefix(New, q) => q \notin DOMAIN B
  BY <1>1, Staging
<1>3. \A p : Top(p) => p \in Place /\ ~IsPrefix(TransactionDir, p)
  BY Tops, TwoTops
<1>4. \A p : Top(p) => TransactionDir \o p \notin DOMAIN B
  <2> SUFFICES ASSUME NEW p, Top(p) PROVE TransactionDir \o p \notin DOMAIN B
    OBVIOUS
  <2> DEFINE q == TransactionDir \o p
  <2>1. q \in Place /\ IsPrefix(TransactionDir, q) /\ q # TransactionDir
    BY Tops
  <2>2. ~IsPrefix(New, q)
    BY TwoTops
  <2> HIDE DEF q
  <2>3. q \notin DOMAIN B
    BY <2>1, <2>2, <1>2
  <2> QED
    BY <2>3 DEF q
<1>5. \A p \in TopLevel(tree) : p \in DOMAIN tree /\ Top(p)
  BY ShapeFacts DEF TopLevel, Top, Tree
<1>6. \A p \in TopLevel(tree) : p \in DOMAIN B
  BY <1>2, <1>3, <1>5
<1>7. \A p : Top(p) /\ p \in DOMAIN B => p \in TopLevel(tree)
  BY <1>2, <1>3 DEF TopLevel, Top
<1> QED
  BY <1>2, <1>4, <1>6, <1>7

LEMMA FirstSchedule ==
  ASSUME NEW t, TransactionDir \in DOMAIN t, NEW S, NEW out, Listed(out, S),
         \A i \in 1..Len(out) : out[i] \in DOMAIN t, \A p : Top(p) => TransactionDir \o p \notin DOMAIN t,
         NEW to, to = [n \in 1..Len(out) |-> TransactionDir \o out[n]]
  PROVE  /\ Scheduled(t, out, to, Len(out))
         /\ \A e : Top(e) => New \o e \in Place /\ Untouched(New \o e, out, to, Len(out))
<1> DEFINE n == Len(out)
<1>1. /\ \A i \in 1..n : Top(out[i])
      /\ \A i, j \in 1..n : i # j => out[i] # out[j]
  BY DEF Listed
<1>2. ASSUME NEW i \in 1..n
      PROVE  /\ out[i] \in Spot /\ to[i] \in Spot /\ out[i] \in DOMAIN t /\ to[i] \notin DOMAIN t
             /\ ParentPath(to[i]) = TransactionDir
  <2>1. Top(out[i]) /\ to[i] = TransactionDir \o out[i]
    BY <1>1
  <2>2. TransactionDir \o out[i] \in Spot /\ ParentPath(TransactionDir \o out[i]) = TransactionDir
    BY <2>1, Tops
  <2>3. TransactionDir \o out[i] \notin DOMAIN t
    BY <2>1
  <2>4. out[i] \in Spot /\ out[i] \in DOMAIN t
    BY <2>1 DEF Top
  <2> QED
    BY <2>1, <2>2, <2>3, <2>4
<1>3. ASSUME NEW i \in 1..n, NEW j \in 1..n
      PROVE  /\ Apart(out[i], to[j]) /\ ~IsPrefix(out[j], TransactionDir) /\ ~IsPrefix(to[j], TransactionDir)
             /\ i # j => Apart(out[i], out[j]) /\ Apart(to[i], to[j])
  <2>1. Top(out[i]) /\ Top(out[j]) /\ (i # j => out[i] # out[j])
    BY <1>1
  <2>2. to[i] = TransactionDir \o out[i] /\ to[j] = TransactionDir \o out[j]
    OBVIOUS
  <2>3. /\ Apart(out[i], TransactionDir \o out[j]) /\ ~IsPrefix(TransactionDir \o out[j], TransactionDir)
        /\ out[i] # out[j] => Apart(out[i], out[j]) /\ Apart(TransactionDir \o out[i], TransactionDir \o out[j])
    BY <2>1, TwoTops
  <2>4. ~IsPrefix(out[j], TransactionDir)
    BY <2>1, TwoTops
  <2> QED
    BY ONLY <2>1, <2>2, <2>3, <2>4
<1>4. Scheduled(t, out, to, n)
  <2> HIDE DEF n
  <2>1. \A i \in 1..n : /\ out[i] \in Spot /\ to[i] \in Spot /\ out[i] \in DOMAIN t /\ to[i] \notin DOMAIN t
                        /\ ParentPath(to[i]) = TransactionDir
    BY <1>2
  <2>2. \A i, j \in 1..n : /\ Apart(out[i], to[j]) /\ ~IsPrefix(out[j], TransactionDir) /\ ~IsPrefix(to[j], TransactionDir)
                           /\ i # j => Apart(out[i], out[j]) /\ Apart(to[i], to[j])
    BY <1>3
  <2> QED
    BY ONLY <2>1, <2>2, TransactionDir \in DOMAIN t DEF Scheduled
<1>5. ASSUME NEW e, Top(e) PROVE New \o e \in Place /\ Untouched(New \o e, out, to, n)
  <2>1. New \o e \in Place
    BY <1>5, Tops
  <2>2. ASSUME NEW i \in 1..n PROVE ~IsPrefix(out[i], New \o e) /\ ~IsPrefix(to[i], New \o e)
    <3>1. Top(out[i]) /\ to[i] = TransactionDir \o out[i]
      BY <1>1
    <3>2. Apart(out[i], New \o e) /\ Apart(TransactionDir \o out[i], New \o e)
      BY <3>1, <1>5, TwoTops
    <3> QED
      BY ONLY <3>1, <3>2 DEF Apart
  <2> QED
    BY <2>1, <2>2 DEF Untouched
<1> QED
  BY <1>4, <1>5

LEMMA SecondSchedule ==
  ASSUME NEW t, NEW S, NEW in, Listed(in, S), NEW from, from = [n \in 1..Len(in) |-> New \o in[n]],
         \A i \in 1..Len(in) : from[i] \in DOMAIN t /\ in[i] \notin DOMAIN t
  PROVE  Scheduled(t, from, in, Len(in))
<1> DEFINE n == Len(in)
<1>1. /\ \A i \in 1..n : Top(in[i])
      /\ \A i, j \in 1..n : i # j => in[i] # in[j]
  BY DEF Listed
<1>2. ASSUME NEW i \in 1..n
      PROVE  /\ from[i] \in Spot /\ in[i] \in Spot /\ from[i] \in DOMAIN t /\ in[i] \notin DOMAIN t /\ Len(in[i]) = 1
  <2>1. Top(in[i]) /\ from[i] = New \o in[i]
    BY <1>1
  <2>2. New \o in[i] \in Spot
    BY <2>1, Tops
  <2>3. in[i] \in Spot /\ Len(in[i]) = 1
    BY <2>1 DEF Top
  <2> QED
    BY <2>1, <2>2, <2>3
<1>3. ASSUME NEW i \in 1..n, NEW j \in 1..n
      PROVE  /\ Apart(from[i], in[j])
             /\ i # j => Apart(from[i], from[j]) /\ Apart(in[i], in[j])
  <2>1. Top(in[i]) /\ Top(in[j]) /\ (i # j => in[i] # in[j])
    BY <1>1
  <2>2. from[i] = New \o in[i] /\ from[j] = New \o in[j]
    OBVIOUS
  <2>3. /\ Apart(in[j], New \o in[i])
        /\ in[i] # in[j] => Apart(in[i], in[j]) /\ Apart(New \o in[i], New \o in[j])
    BY <2>1, TwoTops
  <2>4. Apart(New \o in[i], in[j])
    BY <2>3 DEF Apart
  <2> QED
    BY ONLY <2>1, <2>2, <2>3, <2>4
<1> QED
  <2> HIDE DEF n
  <2>1. \A i \in 1..n : /\ from[i] \in Spot /\ in[i] \in Spot /\ from[i] \in DOMAIN t /\ in[i] \notin DOMAIN t
                        /\ Len(in[i]) = 1
    BY <1>2
  <2>2. \A i, j \in 1..n : Apart(from[i], in[j]) /\ (i # j => Apart(from[i], from[j]) /\ Apart(in[i], in[j]))
    BY <1>3
  <2>3. Scheduled(t, from, in, n)
    BY ONLY <2>1, <2>2 DEF Scheduled
  <2> QED
    BY <2>3 DEF n

Movements(out, in) == [n \in DOMAIN out |-> Renaming(out[n], TransactionDir \o out[n])]
                        \o [n \in DOMAIN in |-> Renaming(New \o in[n], in[n])]

LEMMA LoadMoves ==
  ASSUME NEW S, NEW out, Listed(out, S), NEW R, NEW in, Listed(in, R),
         NEW to, to = [n \in 1..Len(out) |-> TransactionDir \o out[n]],
         NEW from, from = [n \in 1..Len(in) |-> New \o in[n]], NEW moves,
         moves = Movements(out, in)
  PROVE  /\ moves \in Seq(Step) /\ Len(moves) = Len(out) + Len(in)
         /\ Renames(moves, 0, out, to, Len(out)) /\ Renames(moves, Len(out), from, in, Len(in))
<1> DEFINE a == [n \in 1..Len(out) |-> Renaming(out[n], TransactionDir \o out[n])]
           b == [n \in 1..Len(in) |-> Renaming(New \o in[n], in[n])]
<1>1. /\ Len(out) \in Nat /\ DOMAIN out = 1..Len(out) /\ Len(in) \in Nat /\ DOMAIN in = 1..Len(in)
      /\ \A i \in 1..Len(out) : Top(out[i])
      /\ \A i \in 1..Len(in) : Top(in[i])
  BY DEF Listed
<1>2. \A i \in 1..Len(out) : a[i] \in Step /\ a[i] = Renaming(out[i], to[i])
  <2> SUFFICES ASSUME NEW i \in 1..Len(out) PROVE a[i] \in Step /\ a[i] = Renaming(out[i], to[i])
    OBVIOUS
  <2>1. out[i] \in Spot /\ TransactionDir \o out[i] \in Spot
    BY <1>1, Tops DEF Top
  <2>2. Renaming(out[i], TransactionDir \o out[i]) \in Step
    BY <2>1, Renamings
  <2> QED
    BY <2>2
<1>3. \A i \in 1..Len(in) : b[i] \in Step /\ b[i] = Renaming(from[i], in[i])
  <2> SUFFICES ASSUME NEW i \in 1..Len(in) PROVE b[i] \in Step /\ b[i] = Renaming(from[i], in[i])
    OBVIOUS
  <2>1. in[i] \in Spot /\ New \o in[i] \in Spot
    BY <1>1, Tops DEF Top
  <2>2. Renaming(New \o in[i], in[i]) \in Step
    BY <2>1, Renamings
  <2> QED
    BY <2>2
<1>4. moves = a \o b
  BY <1>1 DEF Movements
<1>5. a \in Seq(Step) /\ Len(a) = Len(out)
  <2>1. \A i \in 1..Len(out) : a[i] \in Step
    BY <1>2
  <2>2. DOMAIN a = 1..Len(out) /\ a = [i \in 1..Len(out) |-> a[i]]
    OBVIOUS
  <2> HIDE DEF a
  <2> QED
    BY <2>1, <2>2, <1>1
<1>6. b \in Seq(Step) /\ Len(b) = Len(in)
  <2>1. \A i \in 1..Len(in) : b[i] \in Step
    BY <1>3
  <2>2. DOMAIN b = 1..Len(in) /\ b = [i \in 1..Len(in) |-> b[i]]
    OBVIOUS
  <2> HIDE DEF b
  <2> QED
    BY <2>1, <2>2, <1>1
<1> HIDE DEF a, b
<1>7. /\ moves \in Seq(Step) /\ Len(moves) = Len(out) + Len(in)
      /\ \A i \in 1..Len(out) : moves[i] = a[i]
      /\ \A i \in 1..Len(in) : moves[Len(out) + i] = b[i]
  <2>1. /\ a \o b \in Seq(Step) /\ Len(a \o b) = Len(a) + Len(b)
        /\ \A i \in 1..Len(a) : (a \o b)[i] = a[i]
    <3>1. a \in Seq(Step) /\ b \in Seq(Step)
      BY <1>5, <1>6
    <3>2. a \o b \in Seq(Step) /\ Len(a \o b) = Len(a) + Len(b)
      BY <3>1, ConcatProperties
    <3>3. Len(a) \in Nat /\ Len(b) \in Nat
      BY <1>1, <1>5, <1>6
    <3>4. \A i \in 1..(Len(a) + Len(b)) : i <= Len(a) => (a \o b)[i] = a[i]
      BY <3>1, ConcatProperties
    <3> QED
      BY <3>2, <3>3, <3>4
  <2>2. ASSUME NEW i \in 1..Len(in) PROVE (a \o b)[Len(out) + i] = b[i]
    <3>1. Len(a) + i \in (Len(a) + 1)..(Len(a) + Len(b)) /\ (Len(a) + i) - Len(a) = i
      BY <1>1, <1>5, <1>6
    <3>2. \A k \in (Len(a) + 1)..(Len(a) + Len(b)) : (a \o b)[k] = b[k - Len(a)]
      BY <1>5, <1>6, ConcatProperties
    <3> QED
      BY <3>1, <3>2, <1>5
  <2> QED
    BY <2>1, <2>2, <1>4, <1>5, <1>6
<1>8. Renames(moves, 0, out, to, Len(out))
  <2>1. \A i \in 1..Len(out) : moves[0 + i] = Renaming(out[i], to[i])
    BY <1>7, <1>2
  <2> QED
    BY <2>1, <1>1, <1>7 DEF Renames
<1>9. Renames(moves, Len(out), from, in, Len(in))
  <2>1. \A i \in 1..Len(in) : moves[Len(out) + i] = Renaming(from[i], in[i])
    BY <1>7, <1>3
  <2> QED
    BY <2>1, <1>1, <1>7 DEF Renames
<1> QED
  BY <1>7, <1>8, <1>9

(* Afterwards the unpacked entries are where they belong.                  *)
Installed(A, B, F) ==
  \A e \in Entering(A), r \in Place : /\ New \o (e \o r) \in DOMAIN B <=> e \o r \in DOMAIN F
                                      /\ New \o (e \o r) \in DOMAIN B => F[e \o r] = B[New \o (e \o r)]

LEMMA Cleared == \* after the first renames the places of the unpacked entries are free
  ASSUME NEW t, NEW u, NEW S, NEW out, Listed(out, S),
         NEW to, to = [n \in 1..Len(out) |-> TransactionDir \o out[n]],
         \A p : Top(p) /\ p \in DOMAIN t => p \in S, Shifted(t, u, out, to, Len(out)), NEW e, Top(e)
  PROVE  e \notin DOMAIN u
<1>1. e \in Place /\ IsPrefix(e, e)
  BY Tops, PrefixOrder
<1>2. CASE \E i \in 1..Len(out) : out[i] = e
  <2>1. PICK i \in 1..Len(out) : out[i] = e
    BY <1>2
  <2>2. \A q \in Place : IsPrefix(out[i], q) => q \notin DOMAIN u
    BY DEF Shifted
  <2> QED
    BY <2>1, <2>2, <1>1
<1>3. CASE \A i \in 1..Len(out) : out[i] # e
  <2>1. e \notin DOMAIN t
    BY <1>3 DEF Listed
  <2>2. ASSUME NEW i \in 1..Len(out) PROVE ~IsPrefix(out[i], e) /\ ~IsPrefix(to[i], e)
    <3>1. Top(out[i]) /\ out[i] # e /\ to[i] = TransactionDir \o out[i]
      BY <1>3 DEF Listed
    <3>2. Apart(out[i], e) /\ Apart(e, TransactionDir \o out[i])
      BY <3>1, TwoTops
    <3> QED
      BY ONLY <3>1, <3>2 DEF Apart
  <2>3. Untouched(e, out, to, Len(out))
    BY <2>2 DEF Untouched
  <2>4. e \in DOMAIN u <=> e \in DOMAIN t
    BY <2>3, <1>1 DEF Shifted
  <2> QED
    BY <2>1, <2>4
<1> QED
  BY <1>2, <1>3

LEMMA Staged == \* and what is staged is where it was
  ASSUME NEW t, NEW u, NEW S, NEW out, Listed(out, S),
         NEW to, to = [n \in 1..Len(out) |-> TransactionDir \o out[n]],
         Shifted(t, u, out, to, Len(out)), NEW e, Top(e), NEW r \in Place
  PROVE  /\ (New \o e) \o r \in DOMAIN u <=> (New \o e) \o r \in DOMAIN t
         /\ (New \o e) \o r \in DOMAIN t => u[(New \o e) \o r] = t[(New \o e) \o r]
<1> DEFINE q == New \o e
           x == q \o r
<1>1. q \in Place
  BY Tops
<1>2. ASSUME NEW i \in 1..Len(out)
      PROVE  /\ Apart(out[i], q) /\ Apart(to[i], q) /\ out[i] \in Place /\ to[i] \in Place
  <2>1. Top(out[i]) /\ to[i] = TransactionDir \o out[i]
    BY DEF Listed
  <2>2. Apart(out[i], New \o e) /\ Apart(TransactionDir \o out[i], New \o e)
    BY <2>1, TwoTops
  <2>3. out[i] \in Place /\ TransactionDir \o out[i] \in Place
    BY <2>1, Tops
  <2> QED
    BY <2>1, <2>2, <2>3
<1> HIDE DEF q
<1>3. x \in Place /\ IsPrefix(q, x)
  BY <1>1, Beneath
<1> HIDE DEF x
<1>4. ASSUME NEW i \in 1..Len(out) PROVE ~IsPrefix(out[i], x) /\ ~IsPrefix(to[i], x)
  BY <1>1, <1>2, <1>3, ApartBelow
<1>5. Untouched(x, out, to, Len(out))
  BY <1>4 DEF Untouched
<1>6. (x \in DOMAIN u <=> x \in DOMAIN t) /\ (x \in DOMAIN t => u[x] = t[x])
  BY <1>3, <1>5 DEF Shifted
<1> QED
  BY <1>6 DEF x, q

LEMMA LoadWalk ==
  ASSUME IInv, pc = "ready", NEW A \in Archives, NEW B, B = Put(Opened, New, Unpacked(A)),
         NEW out \in SetToSeqs(TopLevel(tree)), NEW in \in SetToSeqs(Entering(A)), NEW moves,
         moves = Movements(out, in)
  PROVE  moves \in Seq(Step) /\ \E f : Walk(f, moves, Len(moves)) /\ f[0] = B /\ Installed(A, B, f[Len(moves)])
<1> DEFINE S == TopLevel(tree)
           R == Entering(A)
           a == Len(out)
           n == Len(in)
           to == [i \in 1..a |-> TransactionDir \o out[i]]
           from == [i \in 1..n |-> New \o in[i]]
           Z == {from[i] : i \in 1..n}
<1>1. Listed(out, S) /\ Listed(in, R)
  BY LoadLists
<1>2. a \in Nat /\ n \in Nat
  BY <1>1 DEF Listed
<1>3. /\ Tree(B) /\ TransactionDir \in DOMAIN B
      /\ \A p \in S : p \in DOMAIN B
      /\ \A p : Top(p) => TransactionDir \o p \notin DOMAIN B
      /\ \A p : Top(p) /\ p \in DOMAIN B => p \in S
      /\ \A r \in Place : New \o r \in DOMAIN B <=> r \in DOMAIN Unpacked(A)
  BY LoadStart
<1>4. /\ moves \in Seq(Step) /\ Len(moves) = a + n
      /\ Renames(moves, 0, out, to, a) /\ Renames(moves, a, from, in, n)
  BY <1>1, LoadMoves
<1>5. \A i \in 1..n : Top(in[i]) /\ in[i] \in R /\ from[i] = New \o in[i]
  BY <1>1 DEF Listed
<1>6. Scheduled(B, out, to, a) /\ \A e : Top(e) => New \o e \in Place /\ Untouched(New \o e, out, to, a)
  <2>1. \A i \in 1..a : out[i] \in DOMAIN B
    BY <1>1, <1>3 DEF Listed
  <2> QED
    BY <1>1, <1>3, <2>1, FirstSchedule
<1>7. \A z \in Z : z \in DOMAIN B /\ z \in Place /\ Untouched(z, out, to, a)
  <2> SUFFICES ASSUME NEW i \in 1..n
               PROVE  New \o in[i] \in DOMAIN B /\ New \o in[i] \in Place /\ Untouched(New \o in[i], out, to, a)
    BY <1>5
  <2>1. Top(in[i]) /\ in[i] \in DOMAIN Unpacked(A) /\ in[i] \in Place
    BY <1>5, Tops DEF Entering
  <2> QED
    BY <2>1, <1>3, <1>6
<1> HIDE DEF Z, to, from
<1>8. PICK f : Walk(f, moves, 0) /\ f[0] = B
  BY <1>3, <1>4, NoWalk
<1>9. Waiting(Z, f, 0) /\ Waiting({out[i] : i \in 1..a}, f, 0)
  <2>1. \A i \in 1..a : out[i] \in DOMAIN B
    BY <1>1, <1>3 DEF Listed
  <2>2. \A l \in 0..0 : l = 0
    OBVIOUS
  <2> QED
    BY <1>7, <1>8, <2>1, <2>2 DEF Waiting
<1>10. PICK g : Walk(g, moves, a) /\ g[0] = B /\ Shifted(B, g[a], out, to, a) /\ Waiting(Z, g, a)
  <2>1. Spared(Z, out, to, a)
    BY <1>7 DEF Spared
  <2>2. Scheduled(f[0], out, to, a)
    BY <1>6, <1>8
  <2>3. BeforePhase(f, moves, 0, out, to, a, Z)
    BY <1>2, <1>4, <1>8, <1>9, <2>1, <2>2 DEF BeforePhase
  <2>4. PICK h : AfterPhase(f, h, moves, 0, out, to, a, Z)
    BY <2>3, OnePhase
  <2>5. 0 + a = a
    BY <1>2
  <2> QED
    BY <2>4, <2>5, <1>8 DEF AfterPhase
<1> DEFINE C == g[a]
<1>11. Scheduled(C, from, in, n)
  <2>1. \A i \in 1..n : from[i] \in DOMAIN C
    <3>1. a \in 0..a
      BY <1>2
    <3>2. \A z \in Z : z \in DOMAIN g[a]
      BY <3>1, <1>10 DEF Waiting
    <3> QED
      BY <3>2 DEF Z
  <2>2. \A i \in 1..n : in[i] \notin DOMAIN C
    BY <1>1, <1>3, <1>5, <1>10, Cleared DEF to
  <2> QED
    BY <1>1, <2>1, <2>2, SecondSchedule DEF from
<1>12. PICK h : Walk(h, moves, a + n) /\ h[0] = B /\ Shifted(C, h[a + n], from, in, n)
  <2>1. Waiting({from[i] : i \in 1..n}, g, a)
    BY <1>10 DEF Z
  <2>2. Waiting({}, g, a) /\ Spared({}, from, in, n)
    BY DEF Waiting, Spared
  <2>3. BeforePhase(g, moves, a, from, in, n, {})
    BY <1>2, <1>4, <1>10, <1>11, <2>1, <2>2 DEF BeforePhase
  <2>4. PICK h : AfterPhase(g, h, moves, a, from, in, n, {})
    BY <2>3, OnePhase
  <2> QED
    BY <2>4, <1>10 DEF AfterPhase
<1> DEFINE D == h[a + n]
<1>13. Installed(A, B, D)
  <2> SUFFICES ASSUME NEW e \in R, NEW r \in Place
               PROVE  /\ New \o (e \o r) \in DOMAIN B <=> e \o r \in DOMAIN D
                      /\ New \o (e \o r) \in DOMAIN B => D[e \o r] = B[New \o (e \o r)]
    BY DEF Installed
  <2>1. PICK i \in 1..n : in[i] = e
    BY <1>1 DEF Listed
  <2>2. Top(e) /\ from[i] = New \o e /\ e \in Place
    BY <2>1, <1>5, Tops
  <2>3. /\ e \o r \in DOMAIN D <=> (New \o e) \o r \in DOMAIN C
        /\ (New \o e) \o r \in DOMAIN C => D[e \o r] = C[(New \o e) \o r]
    <3>1. \A x \in Place : /\ in[i] \o x \in DOMAIN D <=> from[i] \o x \in DOMAIN C
                           /\ from[i] \o x \in DOMAIN C => D[in[i] \o x] = C[from[i] \o x]
      BY <1>12 DEF Shifted
    <3> QED
      BY ONLY <3>1, <2>1, <2>2, r \in Place
  <2>4. /\ (New \o e) \o r \in DOMAIN C <=> (New \o e) \o r \in DOMAIN B
        /\ (New \o e) \o r \in DOMAIN B => C[(New \o e) \o r] = B[(New \o e) \o r]
    <3>1. Listed(out, S) /\ Top(e) /\ Shifted(B, C, out, to, Len(out)) /\ r \in Place
      BY <2>2, <1>1, <1>10
    <3>2. to = [k \in 1..Len(out) |-> TransactionDir \o out[k]]
      BY DEF to
    <3> HIDE DEF C, S
    <3> QED
      BY ONLY <3>1, <3>2, Staged
  <2>5. (New \o e) \o r = New \o (e \o r)
    BY <2>2, Places, Associative
  <2> QED
    BY ONLY <2>3, <2>4, <2>5
<1> QED
  BY <1>4, <1>12, <1>13

Indexed(M) == [x \in {m.id : m \in M} |-> CHOOSE m \in M : m.id = x]
Keyed(M) == [k \in {m.key : m \in M} |-> CHOOSE m \in M : m.key = k]

LEMMA LoadPlanned ==
  ASSUME IInv, pc = "ready", NEW A \in Archives,
         NEW out \in SetToSeqs(TopLevel(tree)), NEW in \in SetToSeqs(Entering(A)), NEW moves,
         moves = Movements(out, in)
  PROVE  Planned(Unpacked(A), {}, moves, Indexed(MetasOf(A)), Keyed(MetasOf(A)))
<1> DEFINE M == MetasOf(A)
           B == Put(Opened, New, Unpacked(A))
<1>1. Index(M) /\ M \subseteq Meta
  BY ArchiveFacts DEF Index
<1>2. Maps(M, Indexed(M), Keyed(M)) /\ Range(Indexed(M)) = M
  BY <1>1, MapsOf DEF Maps, Indexed, Keyed
<1>3. PICK f : moves \in Seq(Step) /\ Walk(f, moves, Len(moves)) /\ f[0] = B /\ Installed(A, B, f[Len(moves)])
  <2>1. B = Put(Opened, New, Unpacked(A))
    OBVIOUS
  <2> HIDE DEF B
  <2>2. moves \in Seq(Step) /\ \E f : Walk(f, moves, Len(moves)) /\ f[0] = B /\ Installed(A, B, f[Len(moves)])
    BY <2>1, LoadWalk
  <2> QED
    BY <2>2
<1>4. moves \in Seq(Step)
  BY <1>3
<1> DEFINE D == f[Len(moves)]
<1>5. FilesMatch(indexFile, B)
  BY LoadStart
<1>6. ASSUME NEW i \in A PROVE i.key.path \in DOMAIN D /\ D[i.key.path] = i.content
  <2> DEFINE q == i.key.path
  <2>1. q \in DOMAIN Unpacked(A) /\ Unpacked(A)[q] = i.content
    BY UnpackedFacts
  <2>2. PICK r \in Place, e \in DOMAIN Unpacked(A) : Len(e) = 1 /\ q = e \o r
    BY UnpackedFacts
  <2>3. e \in Entering(A)
    BY <2>2 DEF Entering
  <2>4. /\ New \o (e \o r) \in DOMAIN B <=> e \o r \in DOMAIN D
        /\ New \o (e \o r) \in DOMAIN B => D[e \o r] = B[New \o (e \o r)]
    BY <2>3, <1>3 DEF Installed
  <2>5. q \in Place
    BY ArchiveFacts, Places
  <2>6. New \o q \in DOMAIN B /\ B[New \o q] = Unpacked(A)[q]
    BY <2>1, <2>5, LoadStart
  <2> QED
    BY <2>1, <2>2, <2>4, <2>6
<1> HIDE DEF D, B
<1>7. \A i \in A : Recorded(i) \in M /\ Recorded(i).id = i.id /\ Recorded(i).key = i.key
  BY DEF MetasOf, Recorded
<1>8. M = {Recorded(i) : i \in A}
  BY DEF MetasOf, Recorded
<1>9. FilesMatch(M, D)
  <2> SUFFICES ASSUME NEW i \in A
               PROVE  /\ Recorded(i).key.path \in DOMAIN D
                      /\ (D[Recorded(i).key.path] = Dir) = Recorded(i).key.dir
                      /\ ~Recorded(i).key.dir =>
                           D[Recorded(i).key.path] \in Content /\ Size[D[Recorded(i).key.path]] = Recorded(i).size
    BY <1>8 DEF FilesMatch
  <2>1. i.key.dir \in BOOLEAN /\ i.content \in Content \cup {Dir} /\ (i.content = Dir <=> i.key.dir)
    BY ArchiveFacts
  <2>2. Recorded(i).key = i.key /\ Recorded(i).size = IF i.key.dir THEN 0 ELSE Size[i.content]
    BY DEF Recorded
  <2>3. i.key.path \in DOMAIN D /\ D[i.key.path] = i.content
    BY <1>6
  <2> QED
    BY <2>1, <2>2, <2>3
<1>10. \A i \in A : ItemOf(Recorded(i), D) = i
  <2> SUFFICES ASSUME NEW i \in A PROVE ItemOf(Recorded(i), D) = i
    OBVIOUS
  <2>1. i = [id |-> i.id, key |-> i.key, content |-> i.content]
    BY ArchiveFacts
  <2>2. Recorded(i).id = i.id /\ Recorded(i).key = i.key
    BY <1>7
  <2>3. ItemOf(Recorded(i), D) = [id |-> i.id, key |-> i.key, content |-> i.content]
    BY <2>2, <1>6 DEF ItemOf
  <2> QED
    BY <2>1, <2>3
<1>11. ItemsOf(M, D) = A
  <2>1. ItemsOf(M, D) = {ItemOf(m, D) : m \in M}
    BY <1>1, ItemsAre
  <2>2. {ItemOf(m, D) : m \in M} = {ItemOf(Recorded(i), D) : i \in A}
    BY <1>8
  <2>3. {ItemOf(Recorded(i), D) : i \in A} = A
    BY <1>10
  <2> QED
    BY <2>1, <2>2, <2>3
<1>12. Promised(ItemsOf(indexFile, B), ItemsOf(M, D))
  BY <1>11 DEF Promised, Drive!Change
<1> HIDE DEF M
<1>13. Planned(Unpacked(A), {}, moves, Indexed(M), Keyed(M))
  BY <1>1, <1>2, <1>3, <1>4, <1>5, <1>9, <1>12 DEF Planned, Promises, B, D
<1> QED
  BY <1>13 DEF M
-----------------------------------------------------------------------------
(***************************************************************************)
(* The calls.                                                              *)
(***************************************************************************)
LEMMA PlannedKeeps ==
  ASSUME IInv, pc = "ready", NEW staged, NEW absent, NEW moves, NEW ids, NEW paths,
         Planned(staged, absent, moves, ids, paths), Start(staged, absent, moves, ids, paths)
  PROVE  IInv'
<1>1. /\ moves \in Seq(Step)
      /\ absent \cap DOMAIN Opened = {} => Index(Range(ids)) /\ Maps(Range(ids), ids, paths)
      /\ absent \cap DOMAIN Opened = {} =>
           \E f : /\ Walk(f, moves, Len(moves)) /\ f[0] = Put(Opened, New, staged)
                  /\ FilesMatch(indexFile, f[0]) /\ FilesMatch(Range(ids), f[Len(moves)])
                  /\ Promises(f, moves, ids)
  BY DEF Planned
<1> QED
  BY <1>1, StartKeeps

(* The identifier that is drawn is new, and so are those of a copy.        *)
LEMMA Drawn ==
  ASSUME NEW S, CanDraw(S)
  PROVE  /\ \A x \in S : NewV4(S)[x] \in Id \ DOMAIN idMap
         /\ \A x, y \in S : NewV4(S)[x] = NewV4(S)[y] => x = y
<1>1. NewV4(S) \in Injection(S, Id \ DOMAIN idMap)
  BY DEF NewV4, CanDraw
<1> QED
  BY <1>1 DEF Injection, IsInjective

LEMMA NewItemKeeps ==
  ASSUME IInv, pc = "ready", NEW k \in Key, NEW node \in Content \cup {Dir}, k.dir = (node = Dir),
         NewItem(k, node)
  PROVE  IInv'
<1> DEFINE m == [id |-> NewV4({k})[k], key |-> k, size |-> IF k.dir THEN 0 ELSE Size[node]]
<1>1. /\ StatPath(LookedUp(k)) = NoKey /\ CheckParent(k.path) /\ CanDraw({k})
      /\ Start(Only(<<>>, node), {k.path}, <<Renaming(New, k.path)>>,
               With(idMap, Only(m.id, m)), With(pathMap, Only(k, m)))
  BY DEF NewItem
<1>2. NewV4({k})[k] \in Id \ DOMAIN idMap
  BY <1>1, Drawn
<1>3. node # Dir => Size[node] \in Range(Size)
  BY StorageAssumption DEF Range
<1>4. k.dir \in BOOLEAN /\ (k.dir <=> node = Dir)
  BY DEF Key
<1>5. m \in Meta /\ m.key = k /\ m.id \notin DOMAIN idMap /\ (node # Dir => m.size = Size[node])
  <2>1. m.size \in {0} \cup Range(Size) /\ (node # Dir => m.size = Size[node])
    BY <1>3, <1>4
  <2> QED
    BY <2>1, <1>2 DEF Meta
<1> HIDE DEF m
<1>6. Planned(Only(<<>>, node), {k.path}, <<Renaming(New, k.path)>>,
              With(idMap, Only(m.id, m)), With(pathMap, Only(k, m)))
  BY <1>1, <1>5, NewItemPlanned
<1> QED
  BY <1>1, <1>6, PlannedKeeps

LEMMA CreateKeeps == ASSUME IInv, NEW p \in Path, NEW c \in Content, Create(p, c) PROVE IInv'
<1>1. pc = "ready" /\ NewItem(FileKey(p), c)
  BY DEF Create
<1>2. FileKey(p) \in Key /\ FileKey(p).dir = FALSE
  BY DEF FileKey, Key
<1>3. c # Dir
  BY StorageAssumption
<1> QED
  BY <1>1, <1>2, <1>3, NewItemKeeps

LEMMA MkdirKeeps == ASSUME IInv, NEW p \in Path, Mkdir(p) PROVE IInv'
<1>1. pc = "ready" /\ NewItem(DirKey(p), Dir)
  BY DEF Mkdir
<1>2. DirKey(p) \in Key /\ DirKey(p).dir = TRUE
  BY DEF DirKey, Key
<1> QED
  BY <1>1, <1>2, NewItemKeeps

LEMMA WriteKeeps == ASSUME IInv, NEW id \in Id, NEW c \in Content, Write(id, c) PROVE IInv'
<1> DEFINE m == [idMap[id] EXCEPT !.size = Size[c]]
<1>1. /\ pc = "ready" /\ id \in DOMAIN idMap /\ ~idMap[id].key.dir
      /\ Start(Only(<<>>, c), {}, <<Renaming(m.key.path, Old), Renaming(New, m.key.path)>>,
               With(idMap, Only(id, m)), With(pathMap, Only(m.key, m)))
  BY DEF Write
<1>2. m = [idMap[id] EXCEPT !.size = Size[c]]
  OBVIOUS
<1> HIDE DEF m
<1>3. Planned(Only(<<>>, c), {}, <<Renaming(m.key.path, Old), Renaming(New, m.key.path)>>,
              With(idMap, Only(id, m)), With(pathMap, Only(m.key, m)))
  BY <1>1, <1>2, WritePlanned
<1> QED
  BY <1>1, <1>3, PlannedKeeps

LEMMA WriteCommentsKeeps == ASSUME IInv, NEW id \in Id, WriteComments(id) PROVE IInv'
<1>1. pc = "ready" /\ Start(NoMetas, {}, <<>>, idMap, pathMap)
  BY DEF WriteComments
<1> QED
  BY <1>1, WriteCommentsPlanned, PlannedKeeps

LEMMA DeleteKeeps == ASSUME IInv, NEW id \in Id, Delete(id) PROVE IInv'
<1> DEFINE gone == Covered(idMap[id])
<1>1. /\ pc = "ready" /\ id \in DOMAIN idMap
      /\ Start(NoMetas, {}, <<Renaming(idMap[id].key.path, Old)>>, Without(idMap, gone), Without(pathMap, KeysOf(gone)))
  BY DEF Delete
<1>2. Planned(NoMetas, {}, <<Renaming(idMap[id].key.path, Old)>>, Without(idMap, gone), Without(pathMap, KeysOf(gone)))
  BY <1>1, DeletePlanned
<1> HIDE DEF gone
<1> QED
  BY <1>1, <1>2, PlannedKeeps

(* The identifiers of a transfer.                                          *)
LEMMA MoveNumbered ==
  ASSUME IInv, pc = "ready", NEW p
  PROVE  Numbered(indexFile, [i \in DOMAIN idMap |-> i], p, FALSE)
<1> DEFINE f == [i \in DOMAIN idMap |-> i]
<1>1. \A n \in indexFile : n.id \in DOMAIN idMap /\ n.id \in Id
  BY Lookup, ShapeFacts, MetaFacts
<1>2. \A u \in Under(indexFile, p) : u \in indexFile /\ f[u.id] = u.id
  BY <1>1 DEF Under
<1>3. \A u, v \in Under(indexFile, p) : u.id = v.id => u = v
  BY ShapeFacts, Unique DEF Under
<1> HIDE DEF f
<1>4. Numbered(indexFile, f, p, FALSE)
  BY <1>1, <1>2, <1>3 DEF Numbered
<1> QED
  BY <1>4 DEF f

LEMMA CopyNumbered ==
  ASSUME IInv, pc = "ready", NEW src \in indexFile, CanDraw(Covered(src))
  PROVE  Numbered(indexFile, NewV4(Covered(src)), src.key.path, TRUE)
<1> DEFINE f == NewV4(Covered(src))
           U == Under(indexFile, src.key.path)
<1>1. \A u \in U : u.id \in Covered(src) /\ u \in indexFile
  BY CoveredIs DEF Under
<1>2. \A x \in Covered(src) : f[x] \in Id \ DOMAIN idMap
  BY Drawn
<1>3. \A x, y \in Covered(src) : f[x] = f[y] => x = y
  BY Drawn
<1>4. \A n \in indexFile : n.id \in DOMAIN idMap
  BY Lookup
<1>5. \A u, v \in U : u.id = v.id => u = v
  BY ShapeFacts, Unique DEF Under
<1> HIDE DEF f
<1>6. \A u \in U : f[u.id] \in Id
  BY <1>1, <1>2
<1>7. \A u, v \in U : f[u.id] = f[v.id] => u = v
  BY <1>1, <1>3, <1>5
<1>8. \A u \in U, n \in indexFile : f[u.id] # n.id
  BY <1>1, <1>2, <1>4
<1>9. Numbered(indexFile, f, src.key.path, TRUE)
  BY <1>6, <1>7, <1>8 DEF Numbered
<1> QED
  BY <1>9 DEF f

LEMMA TransferKeeps ==
  ASSUME IInv, pc = "ready", NEW id \in Id, NEW dst \in Path, NEW rep \in Id \cup {NoUuid, AnyTarget},
         TransferOK(id, dst, rep), NEW c \in BOOLEAN, c => rep # AnyTarget,
         NEW newId, Numbered(indexFile, newId, idMap[id].key.path, c), Transfer(id, dst, rep, c, newId)
  PROVE  IInv'
<1> DEFINE src == idMap[id]
           exists == StatPath(dst) # NoKey
           gone == IF exists THEN Covered(pathMap[StatPath(dst)]) ELSE {}
           staged == IF c THEN SubtreeAt(tree, src.key.path) ELSE NoMetas
           absent == IF exists THEN {} ELSE {dst}
           moves == (IF exists THEN <<Renaming(dst, Old)>> ELSE <<>>)
                      \o <<Renaming(IF c THEN New ELSE src.key.path, dst)>>
           ids == TransferIds(Covered(src), gone, newId, src, dst)
           paths == TransferPaths(Covered(src), gone, newId, src, dst)
<1>1. id \in DOMAIN idMap
  BY DEF TransferOK
<1>2. Planned(staged, absent, moves, ids, paths)
  <2> HIDE DEF src, exists, gone
  <2>1. src = idMap[id] /\ exists = (StatPath(dst) # NoKey) /\ gone = IF exists THEN Covered(pathMap[StatPath(dst)]) ELSE {}
    BY DEF src, exists, gone
  <2>2. Numbered(indexFile, newId, src.key.path, c)
    BY DEF src
  <2> QED
    BY <1>1, <2>1, <2>2, TransferPlanned
<1>3. Start(staged, absent, moves, ids, paths)
  BY DEF Transfer
<1> HIDE DEF staged, absent, moves, ids, paths
<1> QED
  BY <1>2, <1>3, PlannedKeeps

LEMMA MoveKeeps ==
  ASSUME IInv, NEW id \in Id, NEW dst \in Path, NEW rep \in Id \cup {NoUuid, AnyTarget}, Move(id, dst, rep)
  PROVE  IInv'
<1>1. pc = "ready" /\ TransferOK(id, dst, rep) /\ Transfer(id, dst, rep, FALSE, [i \in DOMAIN idMap |-> i])
  BY DEF Move
<1>2. Numbered(indexFile, [i \in DOMAIN idMap |-> i], idMap[id].key.path, FALSE)
  BY <1>1, MoveNumbered
<1> QED
  BY <1>1, <1>2, TransferKeeps

LEMMA CopyKeeps ==
  ASSUME IInv, NEW id \in Id, NEW dst \in Path, NEW rep \in Id \cup {NoUuid, AnyTarget}, Copy(id, dst, rep)
  PROVE  IInv'
<1>1. /\ pc = "ready" /\ rep # AnyTarget /\ TransferOK(id, dst, rep) /\ CanDraw(Covered(idMap[id]))
      /\ Transfer(id, dst, rep, TRUE, NewV4(Covered(idMap[id])))
  BY DEF Copy
<1>2. idMap[id] \in indexFile
  BY <1>1, Lookup DEF TransferOK
<1>3. Numbered(indexFile, NewV4(Covered(idMap[id])), idMap[id].key.path, TRUE)
  BY <1>1, <1>2, CopyNumbered
<1> QED
  BY <1>1, <1>3, TransferKeeps

LEMMA LoadKeeps == ASSUME IInv, NEW A \in Archives, Load(A) PROVE IInv'
<1>1. PICK out \in SetToSeqs(TopLevel(tree)), in \in SetToSeqs(Entering(A)) :
        Start(Unpacked(A), {}, Movements(out, in), Indexed(MetasOf(A)), Keyed(MetasOf(A)))
  BY DEF Load, Unpacked, Entering, MetasOf, Movements, Indexed, Keyed
<1>2. pc = "ready"
  BY DEF Load
<1>3. Planned(Unpacked(A), {}, Movements(out, in), Indexed(MetasOf(A)), Keyed(MetasOf(A)))
  BY <1>1, <1>2, LoadPlanned
<1> QED
  BY <1>1, <1>2, <1>3, PlannedKeeps

LEMMA CallKeeps == IInv /\ Call => IInv'
<1> SUFFICES ASSUME IInv, Call PROVE IInv'
  OBVIOUS
<1>1. CASE \E p \in Path : Mkdir(p) \/ \E c \in Content : Create(p, c)
  BY <1>1, MkdirKeeps, CreateKeeps
<1>2. CASE \E id \in Id : (\E c \in Content : Write(id, c)) \/ WriteComments(id) \/ Delete(id)
  BY <1>2, WriteKeeps, WriteCommentsKeeps, DeleteKeeps
<1>3. CASE \E id \in Id, dst \in Path, rep \in Id \cup {NoUuid, AnyTarget} : Move(id, dst, rep) \/ Copy(id, dst, rep)
  BY <1>3, MoveKeeps, CopyKeeps
<1>4. CASE \E A \in Archives : Load(A)
  BY <1>4, LoadKeeps
<1> QED
  BY <1>1, <1>2, <1>3, <1>4 DEF Call
-----------------------------------------------------------------------------
(***************************************************************************)
(* The theorems, for rollbacks whose last removal runs to its end.         *)
(***************************************************************************)
LEMMA NextKeeps == ~InterruptPurge /\ IInv /\ [Next]_vars => IInv'
<1> SUFFICES ASSUME ~InterruptPurge, IInv, [Next]_vars PROVE IInv'
  OBVIOUS
<1>1. CASE Call
  BY <1>1, CallKeeps
<1>2. CASE Stage \/ StageFails \/ WriteIndex \/ WriteJournal \/ DiskMove \/ CommitIndex \/ IOError
  BY <1>2, StageKeeps, StageFailsKeeps, WriteIndexKeeps, WriteJournalKeeps, DiskMoveKeeps,
     CommitIndexKeeps, IOErrorKeeps
<1>3. CASE Recover \/ RecoveryFails \/ Undo \/ Undone \/ RemoveEntry \/ Removed
  BY <1>3, RecoverKeeps, RecoveryFailsKeeps, UndoKeeps, UndoneKeeps, RemoveEntryKeeps, RemovedKeeps
<1>4. CASE Reopen \/ LoadIndex \/ Close \/ Crash
  BY <1>4, ReopenKeeps, LoadIndexKeeps, CloseKeeps, CrashKeeps
<1>5. CASE UNCHANGED vars
  BY <1>5, StutterKeeps
<1> QED
  BY <1>1, <1>2, <1>3, <1>4, <1>5 DEF Next

LEMMA Invariant == ~InterruptPurge /\ Spec => []IInv
<1> SUFFICES ASSUME ~InterruptPurge PROVE Spec => []IInv
  OBVIOUS
<1>1. Init => IInv
  BY InitOK
<1>2. IInv /\ [Next]_vars => IInv'
  BY NextKeeps
<1> QED
  BY <1>1, <1>2, PTL DEF Spec

(* The maps hold one item per identifier and one per key.                  *)
LEMMA MapKeys ==
  ASSUME NEW metas, NEW ids, NEW paths, Maps(metas, ids, paths)
  PROVE  DOMAIN paths = {ids[i].key : i \in DOMAIN ids}
<1>1. \A k \in DOMAIN paths : paths[k] \in metas /\ paths[k].key = k
  BY DEF Maps, Range
<1>2. \A m \in metas : \E k \in DOMAIN paths : paths[k] = m
  BY DEF Maps, Range
<1>3. \A i \in DOMAIN ids : ids[i] \in metas
  BY DEF Maps, Range
<1>4. \A m \in metas : \E i \in DOMAIN ids : ids[i] = m
  BY DEF Maps, Range
<1> DEFINE K == {ids[i].key : i \in DOMAIN ids}
<1>5. \A k \in DOMAIN paths : k \in K
  <2> SUFFICES ASSUME NEW k \in DOMAIN paths PROVE \E i \in DOMAIN ids : ids[i].key = k
    OBVIOUS
  <2>1. PICK i \in DOMAIN ids : ids[i] = paths[k]
    BY <1>1, <1>4
  <2> QED
    BY <2>1, <1>1
<1>6. \A i \in DOMAIN ids : ids[i].key \in DOMAIN paths
  <2> SUFFICES ASSUME NEW i \in DOMAIN ids PROVE ids[i].key \in DOMAIN paths
    OBVIOUS
  <2>1. PICK k \in DOMAIN paths : paths[k] = ids[i]
    BY <1>2, <1>3
  <2> QED
    BY <2>1, <1>1
<1> QED
  BY <1>5, <1>6

(* After every call, also one that failed half way and was rolled back,    *)
(* the two maps in memory agree with each other and with the index on disk.*)
THEOREM MapsAgree == ~InterruptPurge /\ Spec => []MemoryMatchesDisk
<1> SUFFICES ASSUME ~InterruptPurge PROVE Spec => []MemoryMatchesDisk
  OBVIOUS
<1>1. IInv => MemoryMatchesDisk
  <2> SUFFICES ASSUME IInv PROVE MemoryMatchesDisk
    OBVIOUS
  <2>1. TypeOK
    BY DEF IInv, Shape
  <2>2. ASSUME pc = "ready"
        PROVE  Range(idMap) = indexFile /\ Range(pathMap) = indexFile /\ DOMAIN pathMap = KeysOf(DOMAIN idMap)
    <3>1. Maps(indexFile, idMap, pathMap)
      BY <2>2 DEF IInv, Memory
    <3>2. DOMAIN pathMap = {idMap[i].key : i \in DOMAIN idMap}
      BY <3>1, MapKeys
    <3>3. Range(idMap) = indexFile /\ Range(pathMap) = indexFile
      BY <3>1 DEF Maps
    <3> QED
      BY <3>2, <3>3 DEF KeysOf
  <2> QED
    BY <2>1, <2>2 DEF MemoryMatchesDisk
<1>2. ~InterruptPurge
  OBVIOUS
<1> QED
  BY <1>1, <1>2, Invariant, PTL

(* Wherever an error or the end of the process stopped the driver, New     *)
(* finds, after its recovery, a well-formed index and the files it lists,  *)
(* and refuses it for nothing but a file whose path does not stay itself   *)
(* under storagePath, which the driver accepted before.                    *)
THEOREM AlwaysReopens == ~InterruptPurge /\ Spec => []ReopenSucceeds
<1> SUFFICES ASSUME ~InterruptPurge PROVE Spec => []ReopenSucceeds
  OBVIOUS
<1>1. IInv => ReopenSucceeds
  <2> SUFFICES ASSUME IInv, pc = "load" PROVE ReopenSucceeds
    BY DEF ReopenSucceeds
  <2>1. WellFormed(indexFile) /\ indexFile \subseteq Meta
    BY DEF IInv, Shape, Index
  <2>2. FilesMatch(indexFile, tree)
    BY DEF IInv, Work, Marks, Disk
  <2>3. ASSUME \A m \in indexFile : m.key.dir \/ Trimmed[m.key.path] = m.key.path
        PROVE  IndexReadable(indexFile)
    BY <2>1, <2>3 DEF IndexReadable, LookedUp
  <2> QED
    BY <2>1, <2>2, <2>3 DEF ReopenSucceeds
<1>2. ~InterruptPurge
  OBVIOUS
<1> QED
  BY <1>1, <1>2, Invariant, PTL

(* No rename of a transaction has a target that is there: none replaces    *)
(* the file of an item or one that is not the driver's.                    *)
THEOREM RenamesAreFree == ~InterruptPurge /\ Spec => []NothingOverwritten
<1> SUFFICES ASSUME ~InterruptPurge PROVE Spec => []NothingOverwritten
  OBVIOUS
<1>1. IInv => NothingOverwritten
  <2> SUFFICES ASSUME IInv, pc = "move", at <= Len(plan.moves) PROVE plan.moves[at].to \notin DOMAIN tree
    BY DEF NothingOverwritten
  <2>1. PICK f : at \in 1..(Len(plan.moves) + 1) /\ Walk(f, plan.moves, Len(plan.moves)) /\ f[at - 1] = tree
    BY DEF IInv, Work, Moving
  <2>2. at \in 1..Len(plan.moves)
    BY <2>1, ShapeFacts
  <2> QED
    BY <2>1, <2>2 DEF Walk, CanMove
<1>2. ~InterruptPurge
  OBVIOUS
<1> QED
  BY <1>1, <1>2, Invariant, PTL

(* Every call finds the transaction directory gone, so none is refused for *)
(* a transaction that was left unfinished.                                 *)
THEOREM DirectoryIsFree == ~InterruptPurge /\ Spec => []NoLeftovers
<1> SUFFICES ASSUME ~InterruptPurge PROVE Spec => []NoLeftovers
  OBVIOUS
<1>1. IInv => NoLeftovers
  BY DEF IInv, Marks, NoLeftovers
<1>2. ~InterruptPurge
  OBVIOUS
<1> QED
  BY <1>1, <1>2, Invariant, PTL
-----------------------------------------------------------------------------
(***************************************************************************)
(* LocalStorage implements AtomicDrive.  The items are those of the index, *)
(* with the files as the next recovery will leave them.                    *)
(***************************************************************************)
Unwinding(u, moves) ==
  u = [n \in 0..Len(moves) |->
         IF n = 0 THEN {tree} ELSE {UndoIfDone(moves[Len(moves) + 1 - n], t) : t \in u[n - 1]}]
Journaled == IF journal.here /\ txnIndex.here /\ pc # "purge" THEN journal.moves ELSE <<>>

LEMMA RecoveredByUnwinding == Recovered = (CHOOSE u : Unwinding(u, Journaled))[Len(Journaled)]
BY DEF Recovered, Unwinding, Journaled

UndoesOnly(f, moves) ==
  \A j \in 1..Len(moves) : \A i \in 0..j : UndoIfDone(moves[j], f[i]) = f[IF i = j THEN j - 1 ELSE i]

LEMMA UndoneOnce ==
  ASSUME NEW f, NEW moves, Walk(f, moves, Len(moves))
  PROVE  UndoesOnly(f, moves)
<1>1. ASSUME NEW j \in 1..Len(moves), NEW i \in 0..j
      PROVE  UndoIfDone(moves[j], f[i]) = f[IF i = j THEN j - 1 ELSE i]
  BY Rollback
<1> QED
  BY <1>1 DEF UndoesOnly

(* A walk is unwound to where it began.                                    *)
LEMMA Unwound ==
  ASSUME NEW f, NEW moves, Walk(f, moves, Len(moves)), NEW k \in 0..Len(moves), f[k] = tree,
         NEW u, Unwinding(u, moves)
  PROVE  u[Len(moves)] = {f[0]}
<1> DEFINE L == Len(moves)
           Left(n) == IF k <= L - n THEN k ELSE L - n
<1>1. L \in Nat
  BY DEF Walk
<1>2. /\ u[0] = {tree}
      /\ \A n \in 1..L : u[n] = {UndoIfDone(moves[L + 1 - n], t) : t \in u[n - 1]}
  <2>1. \A n \in 0..L : u[n] = IF n = 0 THEN {tree} ELSE {UndoIfDone(moves[L + 1 - n], t) : t \in u[n - 1]}
    BY DEF Unwinding
  <2>2. 0 \in 0..L /\ \A n \in 1..L : n \in 0..L /\ n # 0
    BY <1>1
  <2> QED
    BY <2>1, <2>2
<1> DEFINE S == {n \in Nat : n <= L => u[n] = {f[Left(n)]}}
<1>3. 0 \in S
  <2>1. Left(0) = k
    BY <1>1
  <2> QED
    BY <1>2, <2>1
<1>4. ASSUME NEW n \in S PROVE n + 1 \in S
  <2> SUFFICES ASSUME n + 1 <= L PROVE u[n + 1] = {f[Left(n + 1)]}
    OBVIOUS
  <2> DEFINE j == L - n
  <2>1. j \in 1..L /\ Left(n) \in 0..j /\ u[n] = {f[Left(n)]} /\ L + 1 - (n + 1) = j /\ (n + 1) - 1 = n
    BY <1>1
  <2>2. u[n + 1] = {UndoIfDone(moves[j], t) : t \in u[n]}
    <3>1. n + 1 \in 1..L
      BY <1>1, <2>1
    <3> HIDE DEF L, j, S, Left
    <3>2. u[n + 1] = {UndoIfDone(moves[L + 1 - (n + 1)], t) : t \in u[(n + 1) - 1]}
      BY ONLY <3>1, <1>2
    <3> QED
      BY <3>2, <2>1
  <2>3. u[n + 1] = {UndoIfDone(moves[j], f[Left(n)])}
    BY <2>1, <2>2
  <2>4. UndoIfDone(moves[j], f[Left(n)]) = f[IF Left(n) = j THEN j - 1 ELSE Left(n)]
    <3> HIDE DEF j
    <3>1. \A i \in 0..j : UndoIfDone(moves[j], f[i]) = f[IF i = j THEN j - 1 ELSE i]
      <4>1. UndoesOnly(f, moves) /\ j \in 1..Len(moves)
        BY <2>1, UndoneOnce
      <4> QED
        BY ONLY <4>1 DEF UndoesOnly
    <3> QED
      BY <2>1, <3>1
  <2>5. Left(n + 1) = IF Left(n) = j THEN j - 1 ELSE Left(n)
    BY <1>1
  <2> QED
    BY <2>3, <2>4, <2>5
<1>5. S = Nat
  <2> HIDE DEF S
  <2>1. S \in SUBSET Nat
    BY DEF S
  <2> QED
    BY <1>3, <1>4, <2>1, Induction
<1>6. u[L] = {f[Left(L)]} /\ Left(L) = 0
  BY <1>1, <1>5
<1> QED
  BY <1>6

LEMMA Unwinds == \* and there is such a function
  ASSUME NEW f, NEW moves, Walk(f, moves, Len(moves)), NEW k \in 0..Len(moves), f[k] = tree
  PROVE  \E u : Unwinding(u, moves)
<1> DEFINE L == Len(moves)
           Left(n) == IF k <= L - n THEN k ELSE L - n
           w == [n \in 0..L |-> {f[Left(n)]}]
           v == [n \in 0..L |-> IF n = 0 THEN {tree} ELSE {UndoIfDone(moves[L + 1 - n], t) : t \in w[n - 1]}]
<1>1. L \in Nat
  BY DEF Walk
<1>2. ASSUME NEW n \in 0..L PROVE v[n] = {f[Left(n)]}
  <2>1. CASE n = 0
    <3>1. Left(n) = k
      BY <1>1, <2>1
    <3> QED
      BY <2>1, <3>1
  <2>2. CASE n # 0
    <3> DEFINE j == L + 1 - n
    <3>1. j \in 1..L /\ n - 1 \in 0..L /\ Left(n - 1) \in 0..j
      BY <1>1, <2>2
    <3>2. v[n] = {UndoIfDone(moves[j], t) : t \in w[n - 1]} /\ w[n - 1] = {f[Left(n - 1)]}
      BY <2>2, <3>1
    <3>3. v[n] = {UndoIfDone(moves[j], f[Left(n - 1)])}
      BY <3>2
    <3>4. UndoIfDone(moves[j], f[Left(n - 1)]) = f[IF Left(n - 1) = j THEN j - 1 ELSE Left(n - 1)]
      <4>1. \A i \in 0..j : UndoIfDone(moves[j], f[i]) = f[IF i = j THEN j - 1 ELSE i]
        <5> HIDE DEF j
        <5>1. UndoesOnly(f, moves) /\ j \in 1..Len(moves)
          BY <3>1, UndoneOnce
        <5> QED
          BY ONLY <5>1 DEF UndoesOnly
      <4> HIDE DEF j
      <4> QED
        BY <3>1, <4>1
    <3>5. Left(n) = IF Left(n - 1) = j THEN j - 1 ELSE Left(n - 1)
      BY <1>1, <2>2
    <3> QED
      BY <3>3, <3>4, <3>5
  <2> QED
    BY <2>1, <2>2
<1>3. \A n \in 0..L : v[n] = w[n]
  BY <1>2
<1>4. v = w
  <2>1. v = [n \in 0..L |-> v[n]] /\ w = [n \in 0..L |-> w[n]]
    OBVIOUS
  <2> HIDE DEF v, w
  <2> QED
    BY <2>1, <1>3
<1>5. Unwinding(w, moves)
  BY <1>4 DEF Unwinding
<1> QED
  BY <1>5

(* The recovery leaves the tree t.                                         *)
RestoresTo(t) ==
  IF journal.here /\ txnIndex.here /\ pc # "purge"
    THEN \E f, k : /\ Walk(f, journal.moves, Len(journal.moves)) /\ k \in 0..Len(journal.moves)
                   /\ f[k] = tree /\ f[0] = t
    ELSE t = tree

LEMMA RecoveredIs == \A t : RestoresTo(t) => Recovered = {t}
<1> SUFFICES ASSUME NEW t, RestoresTo(t) PROVE Recovered = {t}
  OBVIOUS
<1>1. CASE journal.here /\ txnIndex.here /\ pc # "purge"
  <2>1. Journaled = journal.moves
    BY <1>1 DEF Journaled
  <2>2. PICK f, k : /\ Walk(f, journal.moves, Len(journal.moves)) /\ k \in 0..Len(journal.moves)
                    /\ f[k] = tree /\ f[0] = t
    BY <1>1 DEF RestoresTo
  <2>3. \E u : Unwinding(u, journal.moves)
    BY <2>2, Unwinds
  <2>4. Unwinding(CHOOSE u : Unwinding(u, journal.moves), journal.moves)
    BY <2>3
  <2>5. (CHOOSE u : Unwinding(u, journal.moves))[Len(journal.moves)] = {f[0]}
    BY <2>2, <2>4, Unwound
  <2> QED
    BY <2>1, <2>2, <2>5, RecoveredByUnwinding
<1>2. CASE ~(journal.here /\ txnIndex.here /\ pc # "purge")
  <2>1. Journaled = <<>> /\ Len(<<>>) = 0 /\ t = tree
    BY <1>2 DEF Journaled, RestoresTo
  <2>2. \A u : Unwinding(u, <<>>) => u[0] = {tree}
    BY <2>1 DEF Unwinding
  <2>3. \E u : Unwinding(u, <<>>)
    <3> DEFINE w == [n \in 0..0 |-> {tree}]
    <3>1. Unwinding(w, <<>>)
      BY <2>1 DEF Unwinding
    <3> QED
      BY <3>1
  <2>4. (CHOOSE u : Unwinding(u, <<>>))[0] = {tree}
    BY <2>2, <2>3
  <2> QED
    BY <2>1, <2>4, RecoveredByUnwinding
<1> QED
  BY <1>1, <1>2

Items == UNION {ItemsOf(indexFile, t) : t \in Recovered}

LEMMA ItemsRestored == \A t : RestoresTo(t) => Items = ItemsOf(indexFile, t)
BY RecoveredIs DEF Items

LEMMA OneTree ==
  ASSUME NEW t, RestoresTo(t), NEW u, RestoresTo(u)
  PROVE  t = u
BY RecoveredIs

LEMMA ItemsRestoredNext == \A t : RestoresTo(t)' => Items' = ItemsOf(indexFile', t)
<1>1. (\A t : RestoresTo(t) => Items = ItemsOf(indexFile, t))'
  BY ItemsRestored, PTL
<1> QED
  BY <1>1

(* A step that changes no item: what the recovery leaves is the same.      *)
SameFiles(t, u) == \A p \in Path : p \in DOMAIN t => p \in DOMAIN u /\ u[p] = t[p]
Steady == indexFile' = indexFile /\ \A t : RestoresTo(t) => \E u : RestoresTo(u)' /\ SameFiles(t, u)

LEMMA Restored == IInv => \E t : RestoresTo(t) /\ FilesMatch(indexFile, t)
<1> SUFFICES ASSUME IInv PROVE \E t : RestoresTo(t) /\ FilesMatch(indexFile, t)
  OBVIOUS
<1>1. CASE pc = "move"
  <2>1. Moving
    BY <1>1 DEF IInv, Work
  <2>2. PICK f : /\ Walk(f, plan.moves, Len(plan.moves)) /\ f[at - 1] = tree /\ FilesMatch(indexFile, f[0])
    BY <2>1 DEF Moving
  <2>3. journal.here /\ txnIndex.here /\ journal.moves = plan.moves /\ at - 1 \in 0..Len(journal.moves)
    BY <2>1, ShapeFacts DEF Moving
  <2>4. RestoresTo(f[0])
    BY <1>1, <2>2, <2>3 DEF RestoresTo
  <2> QED
    BY <2>2, <2>4
<1>2. CASE pc # "move"
  <2>1. Disk
    BY <1>2 DEF IInv, Work
  <2> QED
    BY <2>1 DEF Disk, RestoresTo
<1> QED
  BY <1>1, <1>2

LEMMA ItemsKept == ASSUME IInv, Steady PROVE Items' = Items
<1>1. PICK t : RestoresTo(t) /\ FilesMatch(indexFile, t)
  BY Restored
<1>2. PICK u : RestoresTo(u)' /\ SameFiles(t, u)
  BY <1>1 DEF Steady
<1>3. Items = ItemsOf(indexFile, t)
  BY <1>1, ItemsRestored
<1>4. Items' = ItemsOf(indexFile, u)
  BY <1>2, ItemsRestoredNext DEF Steady
<1>5. indexFile \in SUBSET Meta
  BY ShapeFacts
<1>6. \A n \in indexFile : n.key.path \in DOMAIN t /\ n.key.path \in DOMAIN u /\ u[n.key.path] = t[n.key.path]
  <2> SUFFICES ASSUME NEW n \in indexFile
               PROVE  n.key.path \in DOMAIN t /\ n.key.path \in DOMAIN u /\ u[n.key.path] = t[n.key.path]
    OBVIOUS
  <2>1. n.key.path \in Path /\ n.key.path \in DOMAIN t
    BY <1>1, <1>5, MetaFacts DEF FilesMatch
  <2> QED
    BY <2>1, <1>2 DEF SameFiles
<1>7. ItemsOf(indexFile, u) = ItemsOf(indexFile, t)
  BY <1>5, <1>6, SameItems
<1> QED
  BY <1>3, <1>4, <1>7

LEMMA SameDisk ==
  ASSUME UNCHANGED disk, pc # "purge", pc' # "purge"
  PROVE  Steady
<1>1. \A t : RestoresTo(t) => RestoresTo(t)'
  BY DEF RestoresTo, disk
<1> QED
  BY <1>1 DEF Steady, SameFiles, disk

LEMMA NoRollback ==
  ASSUME indexFile' = indexFile, ~(journal.here /\ txnIndex.here /\ pc # "purge"),
         ~(journal'.here /\ txnIndex'.here /\ pc' # "purge"), SameFiles(tree, tree')
  PROVE  Steady
<1>1. \A t : RestoresTo(t) => t = tree
  BY DEF RestoresTo
<1>2. \A u : u = tree' => RestoresTo(u)'
  BY DEF RestoresTo
<1>3. \A t : RestoresTo(t) => \E u : RestoresTo(u)' /\ SameFiles(t, u)
  BY <1>1, <1>2
<1> QED
  BY <1>3 DEF Steady

(* The new tree of a walk that starts where the old one did.               *)
LEMMA SameWalk ==
  ASSUME indexFile' = indexFile, NEW t, RestoresTo(t), RestoresTo(t)'
  PROVE  Steady
<1>1. \A u : RestoresTo(u) => u = t
  BY OneTree
<1>2. SameFiles(t, t)
  BY DEF SameFiles
<1> QED
  BY <1>1, <1>2 DEF Steady

(* What is made, put or removed in the transaction directory is no item.   *)
LEMMA FilesAside ==
  ASSUME NEW t, Tree(t)
  PROVE  /\ \A v : SameFiles(t, With(t, Only(TransactionDir, v))) /\ SameFiles(t, With(t, Only(New, v)))
         /\ \A s : SameFiles(t, Put(t, New, s))
         /\ \A p \in Place : IsPrefix(TransactionDir, p) => SameFiles(t, RemoveAll(t, p))
<1>1. \A p \in Path : p # TransactionDir /\ p # New /\ ~IsPrefix(New, p)
  BY Places, OldPlace, PrefixOrder
<1>2. ASSUME NEW x \in {TransactionDir, New}, NEW v PROVE SameFiles(t, With(t, Only(x, v)))
  <2>1. \A p \in DOMAIN t : p # x => p \in DOMAIN With(t, Only(x, v)) /\ With(t, Only(x, v))[p] = t[p]
    BY DEF With, Only
  <2> QED
    BY <1>1, <2>1 DEF SameFiles
<1>3. ASSUME NEW s PROVE SameFiles(t, Put(t, New, s))
  <2>1. \A p \in DOMAIN t : ~IsPrefix(New, p) => p \in DOMAIN Put(t, New, s) /\ Put(t, New, s)[p] = t[p]
    BY DEF Put
  <2> QED
    BY <1>1, <2>1 DEF SameFiles
<1>4. ASSUME NEW p \in Place, IsPrefix(TransactionDir, p) PROVE SameFiles(t, RemoveAll(t, p))
  BY <1>4, RemovedBelow DEF SameFiles
<1> QED
  BY <1>2, <1>3, <1>4

Started ==
  /\ pc = "ready" /\ pc' = "stage" /\ tree' = With(tree, Only(TransactionDir, Dir))
  /\ UNCHANGED <<indexFile, txnIndex, journal>>

LEMMA CallStarts == Call => Started
<1>1. \A s, a, m, i, p : pc = "ready" /\ Start(s, a, m, i, p) => Started
  BY DEF Start, Started
<1>2. ASSUME pc = "ready", NEW k, NEW v, NewItem(k, v) PROVE Started
  BY <1>1, <1>2 DEF NewItem
<1>3. ASSUME NEW p, NEW c, Mkdir(p) \/ Create(p, c) PROVE Started
  BY <1>2, <1>3 DEF Mkdir, Create
<1>4. ASSUME NEW id, NEW c, Write(id, c) \/ WriteComments(id) \/ Delete(id) PROVE Started
  BY <1>1, <1>4 DEF Write, WriteComments, Delete
<1>5. ASSUME NEW id, NEW dst, NEW rep, Move(id, dst, rep) \/ Copy(id, dst, rep) PROVE Started
  BY <1>1, <1>5 DEF Move, Copy, Transfer
<1>6. ASSUME NEW A, Load(A) PROVE Started
  BY <1>1, <1>6 DEF Load
<1> QED
  BY <1>3, <1>4, <1>5, <1>6 DEF Call

LEMMA CallSteady == IInv /\ Call => Steady
<1> SUFFICES ASSUME IInv, Call PROVE Steady
  OBVIOUS
<1>1. Started
  BY CallStarts
<1>2. ~journal.here /\ UNCHANGED <<indexFile, txnIndex, journal>>
  BY <1>1 DEF Started, IInv, Marks
<1>3. SameFiles(tree, tree')
  BY <1>1, ShapeFacts, FilesAside DEF Started
<1> QED
  BY <1>2, <1>3, NoRollback

LEMMA StageSteady == IInv /\ (Stage \/ StageFails) => Steady
<1> SUFFICES ASSUME IInv, Stage \/ StageFails PROVE Steady
  OBVIOUS
<1>1. pc = "stage" /\ UNCHANGED <<indexFile, txnIndex, journal>>
  BY DEF Stage, StageFails
<1>2. ~journal.here
  BY <1>1 DEF IInv, Marks
<1>3. tree' = Put(tree, New, plan.staged) \/ tree' = With(tree, Only(New, Torn)) \/ tree' = tree
  BY DEF Stage, StageFails
<1>4. SameFiles(tree, tree)
  BY DEF SameFiles
<1>5. SameFiles(tree, tree')
  BY <1>3, <1>4, ShapeFacts, FilesAside
<1> QED
  BY <1>1, <1>2, <1>5, NoRollback

LEMMA WriteIndexSteady == IInv /\ WriteIndex => Steady
<1> SUFFICES ASSUME IInv, WriteIndex PROVE Steady
  OBVIOUS
<1>1. pc = "index" /\ UNCHANGED <<tree, indexFile, journal>>
  BY DEF WriteIndex
<1>2. ~journal.here
  BY <1>1 DEF IInv, Marks
<1>3. SameFiles(tree, tree')
  BY <1>1 DEF SameFiles
<1> QED
  BY <1>1, <1>2, <1>3, NoRollback

LEMMA WriteJournalSteady == IInv /\ WriteJournal => Steady
<1> SUFFICES ASSUME IInv, WriteJournal PROVE Steady
  OBVIOUS
<1>1. /\ pc = "journal" /\ journal' = [here |-> TRUE, moves |-> plan.moves] /\ pc' = "move"
      /\ UNCHANGED <<tree, indexFile, txnIndex>>
  BY DEF WriteJournal
<1>2. ~journal.here /\ txnIndex.here
  BY <1>1 DEF IInv, Marks
<1>3. RestoresTo(tree)
  BY <1>2 DEF RestoresTo
<1>4. PICK f : Walk(f, plan.moves, Len(plan.moves)) /\ f[0] = tree
  BY <1>1 DEF IInv, Work, Ready
<1>5. 0 \in 0..Len(plan.moves)
  BY ShapeFacts
<1>6. \A u : u = tree => RestoresTo(u)'
  BY <1>1, <1>2, <1>4, <1>5 DEF RestoresTo
<1>7. \A u : RestoresTo(u) => \E v : RestoresTo(v)' /\ SameFiles(u, v)
  BY <1>3, <1>6, OneTree DEF SameFiles
<1> QED
  BY <1>1, <1>7 DEF Steady

LEMMA DiskMoveSteady == IInv /\ DiskMove => Steady
<1> SUFFICES ASSUME IInv, DiskMove PROVE Steady
  OBVIOUS
<1> DEFINE m == plan.moves[at]
<1>1. pc = "move" /\ at <= Len(plan.moves) /\ UNCHANGED <<indexFile, txnIndex, journal, plan>>
  BY DEF DiskMove
<1>2. Moving
  BY <1>1 DEF IInv, Work
<1>3. PICK f : Walk(f, plan.moves, Len(plan.moves)) /\ f[at - 1] = tree
  BY <1>2 DEF Moving
<1>4. /\ at \in 1..Len(plan.moves) /\ at \in 0..Len(plan.moves) /\ at - 1 \in 0..Len(plan.moves)
      /\ journal.here /\ txnIndex.here /\ journal.moves = plan.moves
  BY <1>1, <1>2, ShapeFacts DEF Moving
<1>5. CanMove(tree, m) /\ f[at] = Rename(tree, m.from, m.to)
  BY <1>3, <1>4 DEF Walk
<1>6. CanRename(tree, m.from, m.to)
  BY <1>5, ShapeFacts, Renamed
<1>7. tree' = f[at] /\ pc' = pc
  BY <1>5, <1>6 DEF DiskMove
<1>8. RestoresTo(f[0])
  BY <1>1, <1>3, <1>4 DEF RestoresTo
<1>9. \A t : t = f[0] => RestoresTo(t)'
  BY <1>1, <1>3, <1>4, <1>7 DEF RestoresTo
<1> QED
  BY <1>1, <1>8, <1>9, SameWalk

LEMMA UndoSteady == IInv /\ Undo => Steady
<1> SUFFICES ASSUME IInv, Undo PROVE Steady
  OBVIOUS
<1>1. /\ pc = "undo" /\ at > 0 /\ tree' = UndoIfDone(journal.moves[at], tree)
      /\ UNCHANGED <<indexFile, txnIndex, journal, pc>>
  BY DEF Undo
<1>2. journal.here /\ txnIndex.here /\ at <= Len(journal.moves) /\ Disk
  BY <1>1 DEF IInv, Marks, Work
<1>3. PICK f, k : /\ Walk(f, journal.moves, Len(journal.moves)) /\ k \in 0..Len(journal.moves)
                  /\ f[k] = tree /\ k <= at
  BY <1>1, <1>2 DEF Disk
<1> DEFINE L == Len(journal.moves)
           i == IF k = at THEN at - 1 ELSE k
<1>4. at \in 1..L /\ k \in 0..at /\ i \in 0..L
  BY <1>1, <1>2, <1>3, ShapeFacts
<1>5. tree' = f[i]
  BY <1>1, <1>3, <1>4, Rollback
<1> HIDE DEF i
<1>6. RestoresTo(f[0])
  BY <1>1, <1>2, <1>3 DEF RestoresTo
<1>7. \A t : t = f[0] => RestoresTo(t)'
  <2>1. /\ Walk(f, journal'.moves, Len(journal'.moves)) /\ i \in 0..Len(journal'.moves) /\ f[i] = tree'
        /\ journal'.here /\ txnIndex'.here /\ pc' # "purge"
    BY <1>1, <1>2, <1>3, <1>4, <1>5
  <2> QED
    BY ONLY <2>1 DEF RestoresTo
<1> QED
  BY <1>1, <1>6, <1>7, SameWalk

LEMMA UndoneSteady == IInv /\ Undone => Steady
<1> SUFFICES ASSUME IInv, Undone PROVE Steady
  OBVIOUS
<1>1. pc = "undo" /\ at = 0 /\ pc' = "purge" /\ UNCHANGED disk
  BY DEF Undone
<1>2. journal.here /\ txnIndex.here /\ Disk
  BY <1>1 DEF IInv, Marks, Work
<1>3. PICK f, k : /\ Walk(f, journal.moves, Len(journal.moves)) /\ k \in 0..Len(journal.moves)
                  /\ f[k] = tree /\ k <= at
  BY <1>1, <1>2 DEF Disk
<1>4. k = 0
  BY <1>1, <1>3
<1>5. RestoresTo(tree)
  BY <1>1, <1>2, <1>3, <1>4 DEF RestoresTo
<1>6. \A t : t = tree => RestoresTo(t)'
  BY <1>1 DEF RestoresTo, disk
<1> QED
  BY <1>1, <1>5, <1>6, SameWalk DEF disk

LEMMA RemoveSteady == IInv /\ (RemoveEntry \/ Removed) => Steady
<1> SUFFICES ASSUME IInv, RemoveEntry \/ Removed PROVE Steady
  OBVIOUS
<1>1. pc \in {"clean", "purge"} /\ UNCHANGED indexFile
  BY DEF RemoveEntry, Removed
<1>2. pc = "clean" => ~(journal.here /\ txnIndex.here)
  BY DEF IInv, Marks
<1>3. /\ txnIndex'.here => txnIndex.here
      /\ journal'.here => journal.here
  BY NoPlanFacts DEF RemoveEntry, Removed
<1>4. pc' = pc \/ (~txnIndex.here /\ ~journal.here)
  BY DEF RemoveEntry, Removed
<1>5. tree' = tree \/ \E p \in Inside(tree, TransactionDir) \cup {TransactionDir} : tree' = RemoveAll(tree, p)
  BY DEF RemoveEntry, Removed
<1>6. \A p \in Inside(tree, TransactionDir) \cup {TransactionDir} : p \in Place /\ IsPrefix(TransactionDir, p)
  <2>1. DOMAIN tree \subseteq Place
    BY ShapeFacts DEF Tree, Spot
  <2> QED
    BY <2>1, Places, PrefixOrder DEF Inside
<1>7. SameFiles(tree, tree)
  BY DEF SameFiles
<1>8. SameFiles(tree, tree')
  BY <1>5, <1>6, <1>7, ShapeFacts, FilesAside
<1>9. ~(journal'.here /\ txnIndex'.here /\ pc' # "purge")
  BY <1>1, <1>2, <1>3, <1>4
<1> QED
  BY <1>1, <1>2, <1>8, <1>9, NoRollback

LEMMA CloseSteady == IInv /\ Close => Steady
<1> SUFFICES ASSUME IInv, Close PROVE Steady
  OBVIOUS
<1>1. pc = "ready" /\ indexFile' = Range(idMap) /\ pc' = "closed" /\ UNCHANGED <<tree, txnIndex, journal>>
  BY DEF Close, SaveIndex
<1>2. Range(idMap) = indexFile
  BY <1>1 DEF IInv, Memory, Maps
<1>3. \A t : RestoresTo(t) => RestoresTo(t)' /\ SameFiles(t, t)
  BY <1>1 DEF RestoresTo, SameFiles
<1> QED
  BY <1>1, <1>2, <1>3 DEF Steady

LEMMA OthersSteady ==
  ~InterruptPurge /\ IInv /\ (IOError \/ Recover \/ RecoveryFails \/ Reopen \/ LoadIndex \/ Crash \/ UNCHANGED vars)
    => Steady
<1>1. IOError \/ Recover \/ Reopen \/ LoadIndex => UNCHANGED disk /\ pc # "purge" /\ pc' # "purge"
  BY DEF IOError, Abort, Recover, Reopen, LoadIndex
<1>2. ~InterruptPurge /\ (RecoveryFails \/ Crash) => UNCHANGED disk /\ pc # "purge" /\ pc' # "purge"
  BY DEF RecoveryFails, Crash
<1>3. ASSUME UNCHANGED vars PROVE Steady
  <2>1. \A t : RestoresTo(t) => RestoresTo(t)' /\ SameFiles(t, t)
    BY <1>3 DEF RestoresTo, SameFiles, vars, disk
  <2> QED
    BY <1>3, <2>1 DEF Steady, vars, disk
<1> QED
  BY <1>1, <1>2, <1>3, SameDisk

(* The one step that changes the items.                                    *)
LEMMA CommitPromised == IInv /\ CommitIndex => Promised(Items, Items')
<1> SUFFICES ASSUME IInv, CommitIndex PROVE Promised(Items, Items')
  OBVIOUS
<1>1. /\ pc = "move" /\ at > Len(plan.moves) /\ indexFile' = txnIndex.metas /\ txnIndex' = NoIndex
      /\ UNCHANGED <<tree, journal>>
  BY DEF CommitIndex
<1>2. Moving
  BY <1>1 DEF IInv, Work
<1>3. PICK f : Walk(f, plan.moves, Len(plan.moves)) /\ f[at - 1] = tree /\ Promises(f, plan.moves, plan.ids)
  BY <1>2 DEF Moving
<1>4. /\ at - 1 = Len(plan.moves) /\ at - 1 \in 0..Len(plan.moves)
      /\ journal.here /\ txnIndex.here /\ journal.moves = plan.moves /\ txnIndex.metas = Range(plan.ids)
  BY <1>1, <1>2, ShapeFacts DEF Moving
<1>5. RestoresTo(f[0])
  BY <1>1, <1>3, <1>4 DEF RestoresTo
<1>6. \A t : t = tree => RestoresTo(t)'
  BY <1>1, NoPlanFacts DEF RestoresTo
<1>7. Items = ItemsOf(indexFile, f[0])
  BY <1>5, ItemsRestored
<1>8. Items' = ItemsOf(Range(plan.ids), f[Len(plan.moves)])
  BY <1>1, <1>3, <1>4, <1>6, ItemsRestoredNext
<1> QED
  BY <1>3, <1>7, <1>8 DEF Promises

LEMMA StepPromised == ~InterruptPurge /\ IInv /\ [Next]_vars => Promised(Items, Items')
<1> SUFFICES ASSUME ~InterruptPurge, IInv, [Next]_vars PROVE Promised(Items, Items')
  OBVIOUS
<1>1. CASE CommitIndex
  BY <1>1, CommitPromised
<1>2. CASE Call \/ Stage \/ StageFails \/ WriteIndex \/ WriteJournal \/ DiskMove
  BY <1>2, CallSteady, StageSteady, WriteIndexSteady, WriteJournalSteady, DiskMoveSteady,
     ItemsKept DEF Promised
<1>3. CASE Undo \/ Undone \/ RemoveEntry \/ Removed \/ Close
  BY <1>3, UndoSteady, UndoneSteady, RemoveSteady, CloseSteady, ItemsKept DEF Promised
<1>4. CASE IOError \/ Recover \/ RecoveryFails \/ Reopen \/ LoadIndex \/ Crash \/ UNCHANGED vars
  BY <1>4, OthersSteady, ItemsKept DEF Promised
<1> QED
  BY <1>1, <1>2, <1>3, <1>4 DEF Next

(* LocalStorage implements AtomicDrive: every call changes the items, their *)
(* metadata and their contents together at the rename of the index, as the  *)
(* contract of the call has it, and no error, crash or reopening anything.  *)
THEOREM Implements == ~InterruptPurge /\ Spec => Contract
<1> SUFFICES ASSUME ~InterruptPurge PROVE Spec => Contract
  OBVIOUS
<1>1. Init => Drive!Init
  BY DEF Init, ItemsOf, Drive!Init
<1>2. IInv /\ [Next]_vars => [Drive!Next]_Items
  <2> SUFFICES ASSUME IInv, [Next]_vars PROVE [Drive!Next]_Items
    OBVIOUS
  <2>1. Promised(Items, Items')
    BY StepPromised
  <2> QED
    BY <2>1 DEF Promised, Drive!Next, Items
<1>3. ~InterruptPurge
  OBVIOUS
<1> QED
  BY <1>1, <1>2, <1>3, Invariant, PTL DEF Spec, Contract, Drive!Spec, Items
=============================================================================
