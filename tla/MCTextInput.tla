---------------------------- MODULE MCTextInput ----------------------------
(***************************************************************************)
(* Client a has two surfaces and a text input of version 3, clients b and  *)
(* c a surface each and a text input of version 2 and 1.                   *)
(***************************************************************************)
EXTENDS TextInput

CONSTANTS a1, a2, b1, c1,   \* surfaces
          av3, bv2, cv1     \* text inputs

MCSurfaces == {a1, a2, b1, c1}

MCInputs == {av3, bv2, cv1}

MCVersion == (av3 :> 3) @@ (bv2 :> 2) @@ (cv1 :> 1)

MCOwner ==
    [x \in {a1, a2, av3} |-> "a"] @@ [x \in {b1, bv2} |-> "b"] @@ [x \in {c1, cv1} |-> "c"]

\* The two surfaces of client a are alike.
MCSymmetry == Permutations({a1, a2})

=============================================================================
