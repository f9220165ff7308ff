------------------------------- MODULE MCPages -------------------------------
(***************************************************************************)
(* Two pages that share no state, the inbox and the stack of a project, each *)
(* by itself: their behaviours side by side, not interleaved.               *)
(***************************************************************************)
EXTENDS Inbox, Stack, TLC

CONSTANT Scoped

VARIABLE page

pagesVars == <<page, inboxVars, stackVars>>

\* One agent works for every project there is, the others for none.
Scope == [a \in Agents |-> IF a = Scoped THEN CHOOSE p \in Projects : TRUE ELSE NoProject]

\* Two runtimes and two frameworks, one of which goes with one runtime only;
\* every preset is whole.
Shelf ==
    [o \in Options |->
        [slot |-> IF o \in {"go", "node"} THEN "runtime" ELSE "framework",
         runtimes |-> IF o = "express" THEN {"node"} ELSE {}]]
Bundles ==
    [p \in Presets |->
        [s \in Slots |->
            CASE s = "runtime" -> IF p = "service" THEN "go" ELSE "node"
              [] s = "framework" -> IF p = "service" THEN "stdlib" ELSE "express"]]
\* One release has a framework that the other has not.
Editions == {Options, Options \ {"express"}}
\* A framework with words beside it, words alone, a version alone, and nothing.
SomeForms == {Pick("express", "words", ""), Pick(NoOption, "words", ""), Pick(NoOption, "", "pin"), Pick(NoOption, "", "")}

PagesInit == page \in {"inbox", "stack"} /\ InboxInit /\ StackInit

PagesNext ==
    \/ page = "inbox" /\ InboxNext /\ UNCHANGED <<page, stackVars>>
    \/ page = "stack" /\ StackNext /\ UNCHANGED <<page, inboxVars>>

PagesSpec == PagesInit /\ [][PagesNext]_pagesVars

Symmetric == Permutations(Requests)
=============================================================================
