------------------------------- MODULE Config -------------------------------
(***************************************************************************)
(* The settings of a process: its environment, over it the file .env, and   *)
(* what config.Load and llm.New make of the two.  A value is named for the  *)
(* vendor it is meant for, so that a key, a model or a URL that goes to     *)
(* another vendor is seen.                                                  *)
(***************************************************************************)
EXTENDS Naturals, Sequences, FiniteSetsExt

\* The vendors a provider can name, in capitals or not, Anthropic also as Claude:
\* one value stands for them all; and those with variables of their own.
Vendors == {"openai", "deepseek", "anthropic", "openrouter", "ollama", "groq", "together"}
KeyOf == [deepseek |-> "DEEPSEEK_API_KEY", openai |-> "OPENAI_API_KEY", anthropic |-> "ANTHROPIC_API_KEY"]

\* An environment is a function from the variables that exist, Unset the value of
\* one that is empty, which os.Getenv does not tell from one that does not exist;
\* the file is a sequence of lines.
Unset == ""
Get(env, var) == IF var \in DOMAIN env THEN env[var] ELSE Unset

\* loadDotenv: the first word on a variable stands, be it that there is none.
WithLine(env, line) ==
    IF line.var \in DOMAIN env THEN env
    ELSE [v \in DOMAIN env \cup {line.var} |-> IF v = line.var THEN line.value ELSE env[v]]

AfterLines(env, file) ==
    LET after[n \in 0..Len(file)] == IF n = 0 THEN env ELSE WithLine(after[n - 1], file[n]) IN after

LoadDotenv(env, file) == AfterLines(env, file)[Len(file)]

\* The first of some variables that is set, 0 if none is.
FirstSet(env, vars) ==
    LET set == {i \in DOMAIN vars : Get(env, vars[i]) # Unset} IN IF set = {} THEN 0 ELSE Min(set)

FirstNonEmpty(env, vars) ==
    IF FirstSet(env, vars) = 0 THEN Unset ELSE Get(env, vars[FirstSet(env, vars)])

FirstWithKey(env, vendors) ==
    LET first == FirstSet(env, [i \in DOMAIN vendors |-> KeyOf[vendors[i]]])
    IN  IF first = 0 THEN "openai" ELSE vendors[first]

\* Mutant: DeepSeek comes last, though firstNonEmpty takes its key first.
InferProviderLast(env) == FirstWithKey(env, <<"openai", "anthropic", "deepseek">>)

InferProvider(env) == FirstWithKey(env, <<"deepseek", "anthropic", "openai">>)

Provider(env) == IF Get(env, "LLM_PROVIDER") = Unset THEN InferProvider(env) ELSE Get(env, "LLM_PROVIDER")

BaseURL(env) ==
    IF Get(env, "LLM_BASE_URL") = Unset /\ Provider(env) = "deepseek" THEN Get(env, "DEEPSEEK_BASE_URL")
    ELSE Get(env, "LLM_BASE_URL")

\* defaultModelFlash, defaultModelPro: some vendors have none.
DefaultModel(provider) == IF provider \in DOMAIN KeyOf \cup {"groq"} THEN provider ELSE Unset

\* For the tier flash; the tier pro has variables of its own and the same rule.
Model(env) ==
    LET said == FirstNonEmpty(env, <<"LLM_MODEL_FLASH", "DEEPSEEK_MODEL_FLASH">>)
    IN  IF said = Unset THEN DefaultModel(Provider(env)) ELSE said

Refused == [provider |-> "refused"]

Load(env, file) ==
    LET all == LoadDotenv(env, file)
        key == FirstNonEmpty(all, <<"LLM_API_KEY", "DEEPSEEK_API_KEY", "OPENAI_API_KEY", "ANTHROPIC_API_KEY">>)
    IN  IF key = Unset THEN Refused
        ELSE [provider |-> Provider(all), key |-> key, url |-> BaseURL(all), model |-> Model(all)]

\* llm.New: who is talked to.
New(cfg) ==
    IF cfg = Refused \/ cfg.provider \notin Vendors THEN Refused
    ELSE [cfg EXCEPT !.url = IF @ = Unset THEN cfg.provider ELSE @]

-----------------------------------------------------------------------------
(* What it should do, by a definition of its own.                           *)

\* What is said of a variable: by the environment, else by the first line on it.
Said(env, file, var) ==
    LET lines == {n \in DOMAIN file : file[n].var = var}
    IN  IF var \in DOMAIN env THEN env[var]
        ELSE IF lines = {} THEN Unset ELSE file[Min(lines)].value
=============================================================================
