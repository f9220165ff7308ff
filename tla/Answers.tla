------------------------------- MODULE Answers -------------------------------
(***************************************************************************)
(* The pure functions that read what people and models write, each with a    *)
(* definition of what it should give: one question and its answer.  The      *)
(* questions are the JSON in a reply, the path of a file, a line typed in    *)
(* the shell, and the settings of a process.                                 *)
(***************************************************************************)
EXTENDS Naturals, Sequences

CONSTANTS
    LongestName, \* the longest path a manifest may name: 200 bytes in the code
    ReplyTexts,  \* what a model replies
    FilePaths,   \* the paths a manifest names, by the byte
    Commands,    \* what a user wants from the shell, as words
    Setups       \* the environments of a process, each with its file .env

Re == INSTANCE Replies
Sh == INSTANCE Shell
Co == INSTANCE Config

ASSUME RepliesType == \A text \in ReplyTexts : text \in Seq(STRING)

ASSUME NameType == LongestName \in Nat

ASSUME PathsType == \A path \in FilePaths : path \in Seq(STRING)

\* Commands about a project, with its id: those that take nothing else, and the
\* one that takes a question and an answer.
ASSUME CommandsType ==
    \A w \in Commands :
        /\ w \in Seq(Seq(STRING)) /\ \A n \in DOMAIN w : w[n] # <<>>
        /\ Len(w) >= 3 /\ w[1] = <<"projects">> /\ Sh!IsNumber(w[3])
        /\ \/ w[2] \in Sh!Named /\ Len(w) = 3
           \/ w[2] = Sh!Decide /\ Len(w) >= 5

\* What a variable can be set to: one that is named for a vendor holds a value
\* for that vendor, the others one that is said to be for anybody.
Values(var) ==
    CASE var = "LLM_PROVIDER" -> STRING
      [] var \in {"LLM_API_KEY", "LLM_BASE_URL", "LLM_MODEL_FLASH"} -> {"anybody"}
      [] var \in {Co!KeyOf[v] : v \in DOMAIN Co!KeyOf} -> {v \in DOMAIN Co!KeyOf : Co!KeyOf[v] = var}
      [] OTHER -> {"deepseek"}

ASSUME SetupsType ==
    \A s \in Setups :
        /\ DOMAIN s.env \subseteq STRING /\ s.env \in [DOMAIN s.env -> STRING]
        /\ \A v \in DOMAIN s.env : s.env[v] = Co!Unset \/ s.env[v] \in Values(v)
        /\ s.file \in Seq([var : STRING, value : STRING])
        /\ \A n \in DOMAIN s.file : s.file[n].value = Co!Unset \/ s.file[n].value \in Values(s.file[n].var)

VARIABLES
    asked,      \* a question
    answer      \* what the code says to it

askVars == <<asked, answer>>

Nothing == [fn |-> "nothing"]

\* With the id, or without it; pinned or, with the id, not.
Typings(words) ==
    {[typed |-> words, pinned |-> p] : p \in {Sh!NoPin, words[3]}} \cup
    {[typed |-> SubSeq(words, 1, 2) \o SubSeq(words, 4, Len(words)), pinned |-> words[3]]}

AskInit ==
    /\ answer = Nothing
    /\ \/ \E text \in ReplyTexts : asked = [fn |-> "reply", text |-> text]
       \/ \E path \in FilePaths : asked = [fn |-> "path", path |-> path]
       \/ \E w \in Commands : \E t \in Typings(w) : \E l \in Sh!LinesOf(t.typed) :
              asked = [fn |-> "line", words |-> w, typed |-> t.typed, line |-> l, pinned |-> t.pinned]
       \/ \E s \in Setups : asked = [fn |-> "load", env |-> s.env, file |-> s.file]

-----------------------------------------------------------------------------

Say(fn, value) ==
    /\ asked.fn = fn /\ answer = Nothing
    /\ answer' = value /\ UNCHANGED asked

Reply == asked.fn = "reply" /\ Say("reply", [text |-> Re!Raw(asked.text)])
Path == asked.fn = "path" /\ Say("path", [name |-> Re!SafeName(asked.path), safe |-> Re!SafePath(asked.path)])
Line == asked.fn = "line" /\ Say("line", [words |-> Sh!Command(asked.line, asked.pinned)])
Setup == asked.fn = "load" /\ Say("load", [client |-> Co!New(Co!Load(asked.env, asked.file))])

AskNext == Reply \/ Path \/ Line \/ Setup

AskSpec == AskInit /\ [][AskNext]_askVars

-----------------------------------------------------------------------------

\* What is handed to the JSON parser is the text between the first fence marked
\* json and the next one, without the blanks around it, if there is any such text,
\* and else the object, in the sense of the grammar, that starts at the first
\* brace: a brace or an escaped quote in a string of the model's neither ends it
\* early nor keeps it open (handlers.go:1571, 1583).
ReplyIsFound ==
    asked.fn = "reply" /\ answer # Nothing =>
        LET text == asked.text
            found == answer.text
            first(i, ch) == text[i] = ch /\ \A k \in 1..(i - 1) : text[k] # ch
            fenced(i, j) == /\ i < j /\ first(i, Re!Json) /\ text[j] \in {Re!Json, Re!Fence}
                            /\ \A k \in (i + 1)..(j - 1) : text[k] \notin {Re!Json, Re!Fence}
            solid(i, j) == \E k \in i..j : text[k] # Re!Space
        IN  IF \E i, j \in DOMAIN text : fenced(i, j) /\ solid(i + 1, j - 1)
            THEN \E i, j \in DOMAIN text : \E a, b \in (i + 1)..(j - 1) :
                    /\ fenced(i, j) /\ found = SubSeq(text, a, b)
                    /\ ~solid(i + 1, a - 1) /\ solid(a, a) /\ solid(b, b) /\ ~solid(b + 1, j - 1)
            ELSE \/ found = <<>> /\ \A i \in DOMAIN text : text[i] # Re!Open
                 \/ \E i \in DOMAIN text :
                        /\ first(i, Re!Open)
                        /\ \/ \E n \in DOMAIN text : Re!IsObject(text, i, n) /\ found = SubSeq(text, i, i + n - 1)
                           \/ found = <<>> /\ \A n \in DOMAIN text : ~Re!IsObject(text, i, n)

\* What a manifest names, the blanks around it aside: a path that is accepted
\* leads, step by step, from the prototype's directory or, if it is absolute, from
\* the root, to a place below that directory, and it is the place its cleaned form
\* names; one that leads there without ever leaving the directory is accepted,
\* unless it holds a backslash or a NUL or is longer than is allowed
\* (prototype.go:133).
PathsStayInside ==
    asked.fn = "path" /\ answer # Nothing =>
        LET path == Re!Trimmed(asked.path)
            home == << <<"proto">> >>
            absolute == path # <<>> /\ Head(path) = Re!Slash
            here == Re!Walk(IF absolute THEN <<>> ELSE home, Re!Parts(path))
            place == here[Len(Re!Parts(path))]
            stays == \A n \in DOMAIN here : here[n] # <<>> /\ Head(here[n]) = Head(home)
        IN  /\ answer.safe => place = home \o answer.name /\ place # home
            /\ stays /\ place # home /\ ~Re!Within(Re!Odd, path) /\ Len(path) <= LongestName => answer.safe

\* Whichever quotes the words of a command are typed in, and whether its project
\* is typed or pinned, the shell runs that command: no quote or backslash is lost
\* or added, and no argument is taken for the id or the other way around, but a
\* question that is a number and stands where the id was left out: it passes for
\* the id, and the words go on as they were typed (repl.go:105, 121, 133).
WordsArrive ==
    asked.fn = "line" /\ answer # Nothing =>
        LET w == asked.words
            misread == asked.typed # w /\ w[2] = Sh!Decide /\ Sh!IsNumber(w[4])
        IN  answer.words = IF misread THEN asked.typed ELSE w

\* What a process sets for a vendor goes to that vendor: a variable the process
\* has, empty or not, is never changed by the file, whose first line on a
\* variable stands; and the key, the model and the URL are those of the provider
\* unless somebody asked for anything else with a variable LLM_*, has keys of both
\* OpenAI and Anthropic, or a model of DeepSeek's and a provider that is not
\* (config.go:36-57, 79).
SettingsAgree ==
    asked.fn = "load" /\ answer # Nothing /\ answer.client # Co!Refused =>
        LET said(v) == Co!Said(asked.env, asked.file, v)
            set(v) == said(v) # Co!Unset
            c == answer.client
        IN  /\ set("LLM_PROVIDER") => c.provider = said("LLM_PROVIDER")
            /\ IF set("LLM_BASE_URL") THEN c.url = "anybody" ELSE c.url = c.provider
            /\ ~set("LLM_MODEL_FLASH") /\ ~set("DEEPSEEK_MODEL_FLASH") => c.model \in {c.provider, Co!Unset}
            /\ ~set("LLM_PROVIDER") /\ ~set("LLM_API_KEY") =>
                \/ c.key = c.provider
                \/ ~set("DEEPSEEK_API_KEY") /\ set("OPENAI_API_KEY") /\ set("ANTHROPIC_API_KEY")
            /\ set("LLM_API_KEY") => c.key = "anybody"
=============================================================================
