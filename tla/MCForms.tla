------------------------------ MODULE MCForms ------------------------------
(* Two catalog images, one bring-your-own file whose OS has no name and one *)
(* that is guessed, and three recipes: web and app need base, base and app  *)
(* have parameters, and app does not apply to debian.                       *)
EXTENDS Forms

Is(os, backend) == [os |-> os, backend |-> backend]
TwoEntries == <<Is("alpine", "apkovl"), Is("debian", "cloudinit")>>
Home       == <<Is("", "ssh"), Is("alpine", "apkovl"), Is("", "cloudinit")>>
All        == {"app", "base", "web"}
Applies    == [o \in {"alpine", "debian", ""} |->
                 CASE o = "alpine" -> All [] o = "debian" -> {"web"} [] OTHER -> {}]
Needs      == [r \in All |-> IF r = "base" THEN {} ELSE {"base"}]
Asking     == {"app", "base"}
==============================================================================
