-------------------------- MODULE MC_ProxyStoreCLI --------------------------
(* Argument lists for ProxyStoreCLI.                                       *)
EXTENDS ProxyStoreCLI

(* Three flags: a backend and two of its options, or two backends and one *)
(* option.                                                                 *)
MC_MaxArgs == 3

MC_Spelled == {"full", "attached"}

MC_Abbreviated == {"full", "abbrev"}

MC_Required == {FALSE, TRUE}

=============================================================================
