-------------------------------- MODULE Shell --------------------------------
(***************************************************************************)
(* The interactive shell: a line is cut into words, and a pinned project    *)
(* fills in for the id the user left out.                                   *)
(***************************************************************************)
EXTENDS Texts

\* A line is a sequence of these and of other characters.
Blanks == {"blank", "tab"}
Quotes == {"double", "single"}
Escape == "escape"

NoQuote == "none"
NoPin == <<>>

-----------------------------------------------------------------------------

InWord(st, ch) == [st EXCEPT !.word = Append(@, ch), !.escaped = FALSE]

\* Mutant: within quotes a backslash stands for itself.
NextCharRaw(st, ch) ==
    CASE st.escaped -> InWord(st, ch)
      [] ~st.escaped /\ st.quote # NoQuote -> IF ch = st.quote THEN [st EXCEPT !.quote = NoQuote] ELSE InWord(st, ch)
      [] OTHER ->
           CASE ch = Escape -> [st EXCEPT !.escaped = TRUE]
             [] ch \in Quotes -> [st EXCEPT !.quote = ch]
             [] ch \in Blanks /\ st.word # <<>> -> [st EXCEPT !.words = Append(@, st.word), !.word = <<>>]
             [] ch \in Blanks /\ st.word = <<>> -> st
             [] OTHER -> InWord(st, ch)

\* What one character does to the words so far, the one it belongs to, the
\* quote it stands in and the escape before it.
NextChar(st, ch) ==
    IF st.escaped THEN InWord(st, ch)
    ELSE IF ch = Escape THEN [st EXCEPT !.escaped = TRUE]
    ELSE IF st.quote # NoQuote THEN IF ch = st.quote THEN [st EXCEPT !.quote = NoQuote] ELSE InWord(st, ch)
    ELSE IF ch \in Quotes THEN [st EXCEPT !.quote = ch]
    ELSE IF ch \notin Blanks THEN InWord(st, ch)
    ELSE IF st.word # <<>> THEN [st EXCEPT !.words = Append(@, st.word), !.word = <<>>]
    ELSE st

\* What is known after each character of a line.
Read(line) ==
    LET at[n \in 0..Len(line)] ==
            IF n = 0 THEN [words |-> <<>>, word |-> <<>>, quote |-> NoQuote, escaped |-> FALSE]
            ELSE NextChar(at[n - 1], line[n])
    IN  at

\* No word is empty.
Unterminated == << <<>> >>

Tokenize(line) ==
    LET end == Read(line)[Len(line)]
    IN  IF end.quote # NoQuote THEN Unterminated
        ELSE IF end.word = <<>> THEN end.words ELSE Append(end.words, end.word)

-----------------------------------------------------------------------------

\* Words are sequences of characters; a number is an id.  A number of 64 bits has
\* a sign or none, and digits up to a limit that depends on the sign.
Digits == <<"0", "1", "2", "3", "4", "5", "6", "7", "8", "9">>
Limit(sign) ==
    <<9, 2, 2, 3, 3, 7, 2, 0, 3, 6, 8, 5, 4, 7, 7, 5, 8, 0, IF sign = "-" THEN 8 ELSE 7>>

\* Is a number, digit by digit and of the same length as another, no more than that?
AtMost(a, b) ==
    \/ a = b
    \/ \E n \in DOMAIN a : a[n] < b[n] /\ \A k \in 1..(n - 1) : a[k] = b[k]

IsNumber(word) ==
    LET signed == word # <<>> /\ Head(word) \in {"+", "-"}
        digits == IF signed THEN Tail(word) ELSE word
        value == [n \in DOMAIN digits |-> IndexOf(Digits, {digits[n]}) - 1]
        weighty == {n \in DOMAIN value : value[n] # 0}
        short == IF weighty = {} THEN <<>> ELSE SubSeq(value, Min(weighty), Len(value))
        limit == Limit(IF signed THEN Head(word) ELSE "+")
    IN  /\ digits # <<>> /\ \A n \in DOMAIN digits : IndexOf(Digits, {digits[n]}) # 0
        /\ \/ Len(short) < Len(limit)
           \/ Len(short) = Len(limit) /\ AtMost(short, limit)

Named == {<<"show">>, <<"archive">>, <<"unarchive">>, <<"materialize">>}
Decide == <<"decide">>

\* Does a command about a project come without its id?
LacksId(args) ==
    \/ Len(args) = 1 /\ args[1] \in Named
    \/ Len(args) >= 3 /\ args[1] = Decide /\ ~IsNumber(args[2])

\* The pinned id goes after the verb.
ExpandSticky(cmd, args, pid) ==
    IF pid # NoPin /\ cmd = <<"projects">> /\ LacksId(args) THEN <<args[1], pid>> \o Tail(args) ELSE args

\* What runRepl hands to dispatch: a command and its arguments.
Command(line, pid) ==
    LET tokens == Tokenize(TrimSpace(line, Blanks))
    IN  IF tokens \in {<<>>, Unterminated} THEN <<>>
        ELSE <<Head(tokens)>> \o ExpandSticky(Head(tokens), Tail(tokens), pid)

-----------------------------------------------------------------------------
(* How a user writes words on a line, by the comment of tokenize.           *)

\* Between quotes of either kind, with a backslash before what would end them.
Quoted(word, quote) ==
    LET within[n \in 0..Len(word)] ==
            IF n = 0 THEN <<quote>>
            ELSE IF word[n] \in {quote, Escape} THEN within[n - 1] \o <<Escape, word[n]>>
            ELSE Append(within[n - 1], word[n])
    IN  Append(within[Len(word)], quote)

Bare(word) == \A n \in DOMAIN word : word[n] \notin Blanks \cup Quotes \cup {Escape}

\* Every line that means these words: each bare, if it can be, or quoted.
WaysOf(word) == {Quoted(word, q) : q \in Quotes} \cup (IF Bare(word) THEN {word} ELSE {})
LinesOf(words) ==
    LET upTo[n \in 1..Len(words)] ==
            IF n = 1 THEN WaysOf(words[1])
            ELSE {line \o <<"blank">> \o way : line \in upTo[n - 1], way \in WaysOf(words[n])}
    IN  upTo[Len(words)]
=============================================================================
