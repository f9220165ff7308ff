------------------------------- MODULE Replies -------------------------------
(***************************************************************************)
(* What a handler takes from the reply of a model: the JSON of a clustering *)
(* or of a prototype's manifest, out of whatever prose stands around it,    *)
(* and the path of each file of a manifest.                                 *)
(***************************************************************************)
EXTENDS Texts

CONSTANT LongestName  \* the longest path that is taken: 200 bytes

\* A text is a sequence of these and of other characters.
Open == "{"
Close == "}"
Quote == "quote"
Escape == "escape"
Space == "blank"
Json == "json fence"
Fence == "fence"

-----------------------------------------------------------------------------
(* Finding the JSON.                                                        *)

\* Mutant: an escaped quote ends a string.
ScanUnescaped(st, ch) ==
    IF st.inStr THEN [st EXCEPT !.inStr = ch # Quote]
    ELSE CASE ch = Quote -> [st EXCEPT !.inStr = TRUE]
           [] ch = Open -> [st EXCEPT !.depth = @ + 1]
           [] ch = Close -> [st EXCEPT !.depth = @ - 1]
           [] OTHER -> st

\* One character: braces are counted outside strings.
Scan(st, ch) ==
    IF st.inStr THEN [st EXCEPT !.inStr = st.esc \/ ch # Quote, !.esc = ~st.esc /\ ch = Escape]
    ELSE CASE ch = Quote -> [st EXCEPT !.inStr = TRUE]
           [] ch = Open -> [st EXCEPT !.depth = @ + 1]
           [] ch = Close -> [st EXCEPT !.depth = @ - 1]
           [] OTHER -> st

\* What is known after each character, from the first brace on.
Scanned(text) ==
    LET at[i \in 0..Len(text)] ==
            IF i < IndexOf(text, {Open}) THEN [depth |-> 0, inStr |-> FALSE, esc |-> FALSE]
            ELSE Scan(at[i - 1], text[i])
    IN  at

\* 0 if the first brace is never closed.
EndOfObject(text) ==
    LET ends == {i \in IndexOf(text, {Open})..Len(text) : Scanned(text)[i].depth = 0}
    IN  IF ends = {} THEN 0 ELSE Min(ends)

FirstObject(text) ==
    IF IndexOf(text, {Open}) = 0 \/ EndOfObject(text) = 0 THEN <<>>
    ELSE SubSeq(text, IndexOf(text, {Open}), EndOfObject(text))

\* Every fence starts with the three marks that end one.
FencedJSON(text) ==
    LET rest == SubSeq(text, IndexOf(text, {Json}) + 1, Len(text))
        end == IndexOf(rest, {Fence, Json})
    IN  IF IndexOf(text, {Json}) = 0 \/ end = 0 THEN <<>> ELSE TrimSpace(SubSeq(rest, 1, end - 1), {Space})

\* parseClustererJSON, parsePrototypeJSON: what they hand to json.Unmarshal.
Raw(text) == IF FencedJSON(text) # <<>> THEN FencedJSON(text) ELSE FirstObject(text)

-----------------------------------------------------------------------------
(* The path of a file: a sequence of bytes, in which a backslash and a NUL   *)
(* are "odd".                                                               *)

Slash == "/"
Odd == "odd"

Within(part, path) == \E n \in DOMAIN path : path[n] = part
Last(path) == path[Len(path)]
Front(path) == SubSeq(path, 1, Len(path) - 1)

\* The parts of a path, between its slashes; some are no names.
NoName == <<>>
Here == <<".">>
Up == <<".", ".">>

SplitChar(parts, ch) ==
    IF ch = Slash THEN Append(parts, NoName) ELSE Append(Front(parts), Append(Last(parts), ch))

Split(path) ==
    LET parts[n \in 0..Len(path)] == IF n = 0 THEN <<NoName>> ELSE SplitChar(parts[n - 1], path[n]) IN parts

Parts(path) == Split(path)[Len(path)]

\* filepath.Clean of a relative path, part by part.
CleanPart(done, part) ==
    CASE part \in {NoName, Here} -> done
      [] part = Up /\ done # <<>> /\ Last(done) # Up -> Front(done)
      [] OTHER -> Append(done, part)

Cleaned(parts) ==
    LET done[n \in 0..Len(parts)] == IF n = 0 THEN <<>> ELSE CleanPart(done[n - 1], parts[n]) IN done

Clean(parts) == Cleaned(parts)[Len(parts)]

\* What sanitizeRelPath looks at, and the place it returns.
Trimmed(text) == TrimSpace(text, {Space})
SafeName(text) == Clean(Parts(Trimmed(text)))

\* Mutant: the dots are looked for before the path is cleaned.
SafePathUncleaned(text) ==
    LET path == Trimmed(text)
    IN  /\ path # <<>> /\ Head(path) # Slash /\ ~Within(Odd, path) /\ Len(path) <= LongestName
        /\ Parts(path) # <<Here>> /\ Head(Parts(path)) # Up

\* sanitizeRelPath: is the path written to?
SafePath(text) ==
    LET path == Trimmed(text)
    IN  /\ path # <<>> /\ Head(path) # Slash /\ ~Within(Odd, path) /\ Len(path) <= LongestName
        /\ SafeName(text) # <<>> /\ ~Within(Up, SafeName(text))

-----------------------------------------------------------------------------
(* What they should do, by definitions of their own.                        *)

\* Does an odd number of backslashes stand between i and m, next to m?
Escaped(text, i, m) ==
    LET others == {k \in i..(m - 1) : k = i \/ text[k] # Escape} IN (m - Max(others)) % 2 = 0

\* Is it a string, from quote to quote, with none between them but escaped ones?
IsString(text, i, k) ==
    /\ i < k /\ text[i] = Quote /\ text[k] = Quote /\ ~Escaped(text, i, k)
    /\ \A m \in (i + 1)..(k - 1) : text[m] = Quote => Escaped(text, i, m)

\* Where a sequence of n characters starts that are items between braces: an item
\* is a character that is no brace or quote, a string, or an object.
Items(text) ==
    LET items[n \in 0..Len(text)] ==
            {i \in 1..(Len(text) + 1 - n) :
                \/ n = 0
                \/ n > 0 /\ text[i] \notin {Quote, Open, Close} /\ i + 1 \in items[n - 1]
                \/ \E k \in 2..n :
                       /\ \/ IsString(text, i, i + k - 1)
                          \/ text[i] = Open /\ text[i + k - 1] = Close /\ i + 1 \in items[k - 2]
                       /\ i + k \in items[n - k]}
    IN  items

\* Are the n characters from i on an object?
IsObject(text, i, n) ==
    /\ n \in 2..(Len(text) + 1 - i) /\ text[i] = Open /\ text[i + n - 1] = Close
    /\ i + 1 \in Items(text)[n - 2]

\* Where parts lead from a directory, one step after the other.
Step(here, part) ==
    CASE part \in {NoName, Here} -> here
      [] part = Up -> IF here = <<>> THEN <<>> ELSE Front(here)
      [] OTHER -> Append(here, part)

Walk(from, parts) ==
    LET here[n \in 0..Len(parts)] == IF n = 0 THEN from ELSE Step(here[n - 1], parts[n]) IN here
=============================================================================
