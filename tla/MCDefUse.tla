------------------------------ MODULE MCDefUse ------------------------------
(* The instances of DefUse that TLC checks: all bodies of up to 3            *)
(* instructions, and those of 4 over one variable, with all ways to put      *)
(* neighbours together into declarations.                                   *)
EXTENDS DefUse

CONSTANT x

MCInstr ==
  {i \in [kind : Kind, def : Var \cup {None}, uses : SUBSET Var] :
     /\ i.kind # "plain" => i.def = None
     /\ i.kind = "jump" => i.uses = {}}
OneVariable == {i \in MCInstr : i.def \in {x, None} /\ i.uses \subseteq {x}}
MCList == UNION {[1..n -> MCInstr] : n \in 0..3} \cup [1..4 -> OneVariable]

(* The positions in joined belong to the declaration of the one before.      *)
Spanned(list, joined) ==
  [i \in DOMAIN list |->
     [kind |-> list[i].kind, def |-> list[i].def, uses |-> list[i].uses,
      start |-> CHOOSE j \in 1..i : j \notin joined /\ j+1..i \subseteq joined]]
Joinable(list) == {i \in DOMAIN list \ {1} : list[i].kind = "plain" /\ list[i-1].kind = "plain"}

MCBody == {Spanned(list, joined \cap Joinable(list)) : list \in MCList, joined \in SUBSET (2..4)}
=============================================================================
