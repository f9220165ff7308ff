-------------------------------- MODULE Texts --------------------------------
(***************************************************************************)
(* What the standard library does with texts, for the modules that read     *)
(* them.  A text is a sequence of characters, or of what stands for several *)
(* of them.                                                                 *)
(***************************************************************************)
EXTENDS Naturals, Sequences, FiniteSetsExt

\* Where the first of some characters stands, 0 if nowhere.
IndexOf(text, chars) ==
    LET at == {i \in DOMAIN text : text[i] \in chars} IN IF at = {} THEN 0 ELSE Min(at)

\* The text without the blanks around it.
TrimSpace(text, blanks) ==
    LET solid == {i \in DOMAIN text : text[i] \notin blanks}
    IN  IF solid = {} THEN <<>> ELSE SubSeq(text, Min(solid), Max(solid))
=============================================================================
