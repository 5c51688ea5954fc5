--------------------------- MODULE AuthRequirement ---------------------------
(***************************************************************************)
(* Emptiness of an AuthenticationRequirement (src/unnamed/part_000, lines  *)
(* 198-220): the exported IsEmpty and the recursive helper isEmpty.        *)
(*                                                                         *)
(* A requirement is a record: its Disabled flag and its Requirements, one  *)
(* of a JWTAuthentication ("jwt"), an AnyAuthenticationRequirements        *)
(* ("any") or an AllAuthenticationRequirements ("all") list of child       *)
(* requirements, or a nil interface ("nil", the zero value).  The shapes   *)
(* of the type come from environment_spec.go, which is not under src/.     *)
(*                                                                         *)
(* The functions are pure; the state machine evaluates IsEmpty once on a   *)
(* requirement drawn from a bounded set, as the table test at lines        *)
(* 322-371 does.                                                           *)
(***************************************************************************)
EXTENDS Naturals, Sequences

CONSTANT Requirements   \* the AuthenticationRequirement values to evaluate

Kinds == {"jwt", "any", "all", "nil"}

\* A node of the tree: a child list only for "any" and "all".
Node(disabled, kind, children) ==
  [disabled |-> disabled, kind |-> kind, children |-> children]

\* Mutant of isEmpty: the AllAuthenticationRequirements case left out of
\* the type switch, so an "all" list falls through to "return true".
RECURSIVE isEmpty(_)
isEmptyNoAll(auth) ==
  CASE auth.kind = "jwt" -> FALSE
    [] auth.kind = "any" ->
         \A i \in 1..Len(auth.children) : isEmpty(auth.children[i])
    [] OTHER -> TRUE

\* isEmpty (lines 202-220): a JWT is never empty; an Any or All list is
\* empty when every child is (the loop returns false at the first child
\* that is not); anything else, the nil interface, is empty.  The Disabled
\* flag of a node is not read.
isEmpty(auth) ==
  CASE auth.kind = "jwt" -> FALSE
    [] auth.kind \in {"any", "all"} ->
         \A i \in 1..Len(auth.children) : isEmpty(auth.children[i])
    [] OTHER -> TRUE

\* AuthenticationRequirement.IsEmpty (lines 198-200).
IsEmpty(a) == ~a.disabled /\ isEmpty(a)

VARIABLES
  req,       \* the requirement under test
  empty,     \* what IsEmpty returned
  evaluated  \* IsEmpty has been called

vars == <<req, empty, evaluated>>

Init ==
  /\ req \in Requirements
  /\ empty = FALSE
  /\ evaluated = FALSE

\* Lines 363-369: the test calls req.IsEmpty().
Evaluate ==
  /\ ~evaluated
  /\ empty' = IsEmpty(req)
  /\ evaluated' = TRUE
  /\ UNCHANGED req

Next == Evaluate

Spec == Init /\ [][Next]_vars

-----------------------------------------------------------------------------

\* The reference: the nodes of a tree, itself included, and whether one of
\* them is a JWT leaf.
RECURSIVE Nodes(_)
Nodes(t) ==
  {t} \cup UNION {Nodes(t.children[i]) : i \in DOMAIN t.children}

HasJWT(t) == \E n \in Nodes(t) : n.kind = "jwt"

\* Spec 4.3 and the laws of spec 8: IsEmpty reports a requirement empty
\* exactly when it is not disabled and no JWT requirement occurs in it at
\* any depth, whatever the nesting of Any and All lists, empty lists and
\* nil children.
EmptyIffNoJWT == evaluated => (empty <=> ~req.disabled /\ ~HasJWT(req))

=============================================================================
