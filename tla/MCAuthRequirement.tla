-------------------------- MODULE MCAuthRequirement --------------------------
(***************************************************************************)
(* Requirement trees up to three levels deep: leaves of every kind, either *)
(* flag; inner Any and All lists of one or two leaves, not disabled or     *)
(* disabled; and a top Any or All holding one such list, so that a JWT or *)
(* a disabled node can sit two levels below the root, as in the test's     *)
(* "nested jwt" and "nested empty" cases.                                  *)
(***************************************************************************)
EXTENDS AuthRequirement

MCLeaves ==
  {Node(d, k, << >>) : d \in BOOLEAN, k \in Kinds}

MCInner ==
  {Node(d, k, cs) : d \in BOOLEAN, k \in {"any", "all"},
                    cs \in [1..1 -> MCLeaves] \cup [1..2 -> MCLeaves]}

MCRequirements ==
  MCLeaves \cup MCInner
  \cup {Node(d, k, <<c>>) : d \in BOOLEAN, k \in {"any", "all"}, c \in MCInner}

=============================================================================
