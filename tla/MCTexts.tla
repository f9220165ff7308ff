------------------------------- MODULE MCTexts -------------------------------
(***************************************************************************)
(* LineDiff over pairs of short texts, and Answers over short questions: they *)
(* share no state, and each behaviour is of one of them.                     *)
(***************************************************************************)
EXTENDS LineDiff, Answers, SequencesExt, TLC

CONSTANTS
    LongestReply,   \* of a text without a fence
    LongestFenced,  \* of a text with fences
    LongestPath,    \* of a path of dots, slashes and letters
    LongestOddPath  \* of one that may hold blanks and odd characters too

-----------------------------------------------------------------------------
(* Texts to compare.                                                        *)

\* The blank line, one of blanks alone, two lines that differ in one word of
\* three, and one that shares a single word of three with one of them.
SomeWords ==
    [l \in Lines |->
        CASE l = "quick" -> <<"the", "quick", "fox">>
          [] l = "slow" -> <<"the", "slow", "fox">>
          [] l = "other" -> <<"a", "slow", "dog">>
          [] OTHER -> <<>>]

\* Every text of three lines, and the longer ones of two lines that repeat.
SomeTexts ==
    (BoundedSeq(Lines, 3) \ {<<>>}) \cup UNION {[1..n -> {"quick", "slow"}] : n \in 4..5}

-----------------------------------------------------------------------------
(* Questions to ask.                                                        *)

Plain == {Re!Open, Re!Close, Re!Quote, Re!Escape, "x"}
Marked == {Re!Json, Re!Fence, Re!Open, Re!Close, Re!Space, "x"}
SomeReplies == BoundedSeq(Plain, LongestReply) \cup BoundedSeq(Marked, LongestFenced)

\* Short ones, and some with blanks or steps around them on both sides of what is too
\* long.
SomePaths ==
    BoundedSeq({"/", ".", "a"}, LongestPath) \cup BoundedSeq({"/", ".", "a", "blank", "odd"}, LongestOddPath) \cup
    {before \o [n \in 1..long |-> "a"] \o after :
        before, after \in {<<>>, <<"blank">>, <<".", "/">>}, long \in 6..8}

\* Commands about project 7, of words that need quotes and of questions that are,
\* or almost are, numbers.
Phrases ==
    (BoundedSeq({"q", "blank", "double", "single", "escape"}, 2) \ {<<>>}) \cup
    {<<"4", "2">>, <<"-", "5">>, <<"-">>, <<"4", "q">>} \cup
    {sign \o <<"0", "9", "2", "2", "3", "3", "7", "2", "0", "3", "6", "8", "5", "4", "7", "7", "5", "8", "0", last>> :
        sign \in {<<>>, <<"+">>, <<"-">>}, last \in {"7", "8", "9"}}
SomeCommands ==
    {<< <<"projects">>, <<"show">>, <<"7">> >>} \cup
    {<< <<"projects">>, <<"decide">>, <<"7">>, q, a>> : q \in Phrases, a \in {<<"q", "tab", "single">>, <<"4", "2">>}}

\* Values tried for a variable, and the variables.
Tried(var) == IF var = "LLM_PROVIDER" THEN {"anthropic", "openrouter", "nobody"} ELSE Values(var)
Vars == {"LLM_PROVIDER", "LLM_API_KEY", "LLM_BASE_URL", "LLM_MODEL_FLASH", "DEEPSEEK_API_KEY",
         "DEEPSEEK_BASE_URL", "DEEPSEEK_MODEL_FLASH", "OPENAI_API_KEY", "ANTHROPIC_API_KEY"}
Envs(vars) == UNION {{e \in [V -> UNION {Tried(v) : v \in V} \cup {""}] : \A v \in V : e[v] \in Tried(v) \cup {""}}
                     : V \in SUBSET vars}
FileLines(vars) == UNION {{[var |-> v, value |-> x] : x \in Tried(v) \cup {""}} : v \in vars}
\* Every environment of four variables, and smaller ones under a file.
SomeSetups ==
    {[env |-> e, file |-> <<>>] : e \in UNION {Envs(V) : V \in kSubset(4, Vars)}} \cup
    {[env |-> e, file |-> f] :
        e \in Envs({"LLM_PROVIDER", "OPENAI_API_KEY", "DEEPSEEK_BASE_URL"}),
        f \in BoundedSeq(FileLines({"LLM_PROVIDER", "DEEPSEEK_API_KEY", "ANTHROPIC_API_KEY"}), 2)}

-----------------------------------------------------------------------------

\* Nothing is asked while texts are compared, and the empty diff is done while a
\* question is asked.
TextsInit ==
    \/ DiffInit /\ asked = Nothing /\ answer = Nothing
    \/ AskInit /\ old = Empty /\ new = Empty /\ stage = "shown" /\ ops = <<>>

TextsNext ==
    \/ DiffNext /\ UNCHANGED askVars
    \/ AskNext /\ UNCHANGED diffVars

TextsSpec == TextsInit /\ [][TextsNext]_<<diffVars, askVars>>
=============================================================================
