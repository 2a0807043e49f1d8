------------------------------- MODULE MCAcl -------------------------------
EXTENDS Acl, TLC

Symmetry == Permutations(Rules)

\* Two names, one address in two spellings, and two more addresses.
MCTexts == {"a.org", "b.org", "::1", "0::1", "10.0.0.1", "10.0.0.2"}
MCAddr == [t \in MCTexts |->
             CASE t \in {"::1", "0::1"} -> "v6:1"
               [] t = "10.0.0.1" -> "v4:1"
               [] t = "10.0.0.2" -> "v4:2"
               [] OTHER -> "none"]
=============================================================================
