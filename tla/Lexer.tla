------------------------------- MODULE Lexer --------------------------------
(***************************************************************************)
(* The lexer (core/lexer/lexer.c).  A text is a sequence of characters;    *)
(* letters and digits stand for the classes is_alpha and is_digit tell     *)
(* apart, and the end of the text is the terminating NUL.  One step is one *)
(* call of lexer_next_token, which the parser makes until it gets EOF.     *)
(***************************************************************************)
EXTENDS Integers, Sequences

CONSTANTS
    Texts,          \* the sources
    Letters,        \* the letters that occur in them
    Words,          \* keywords, with the types of their tokens
    Annotations     \* the names that follow an @

VARIABLES
    text, current,  \* current is the next character, counted from 1
    line, tokens

lexerVars == <<text, current, line, tokens>>

Digits  == {"0", "1"}
Symbols ==
    [s \in {"(", ")", "{", "}", ";", ",", ":", ".", "@", "+", "-", "*", "/", "!", "=", ">", "<"} |-> s]
Doubled == {<<"!", "=">>, <<"=", "=">>, <<">", "=">>, <<"<", "=">>, <<"&", "&">>, <<"|", "|">>}
TokenType ==
    {"IDENTIFIER", "NUMBER", "STRING", "ANNOTATION", "DOUBLED", "EOF", "ERROR"}
      \cup DOMAIN Symbols \cup {Words[w] : w \in DOMAIN Words}
Nul == "nul"

is_alphanumeric == Letters \cup Digits

peek(p) == IF p <= Len(text) THEN text[p] ELSE Nul

\* The end of the run of characters of C from p on.
RunEnd(p, C) ==
    CHOOSE q \in p .. Len(text) + 1 :
        (\A r \in p .. q - 1 : text[r] \in C) /\ peek(q) \notin C

\* What skip_whitespace passes: blanks, line ends, and comments up to the end
\* of their line.
skip_whitespace ==
    LET skip[p \in 1 .. Len(text) + 1] ==
            IF peek(p) \in {" ", "newline"} THEN skip[p + 1]
            ELSE IF peek(p) = "/" /\ peek(p + 1) = "/"
                   THEN skip[RunEnd(p, {c \in {text[r] : r \in DOMAIN text} : c # "newline"})]
            ELSE p
    IN  skip[current]

Newlines(p, q) == {r \in p .. q : text[r] = "newline"}
CountOf(S) == IF S = {} THEN 0 ELSE LET n[k \in 0 .. Len(text)] ==
                 IF k = 0 THEN 0 ELSE n[k - 1] + IF k \in S THEN 1 ELSE 0 IN n[Len(text)]

\* Where the string that begins before p ends: at its closing quote, or at the
\* end of the text; and the line ends counted on the way, which are those that
\* no backslash precedes.
string_token(p) ==
    LET scan[q \in 1 .. Len(text) + 1] ==
            IF peek(q) \in {"quote", Nul} THEN [end |-> q, lines |-> 0]
            ELSE IF peek(q) = "backslash" /\ peek(q + 1) # Nul THEN scan[q + 2]
            ELSE [scan[q + 1] EXCEPT !.lines = @ + IF text[q] = "newline" THEN 1 ELSE 0]
    IN  scan[p]

\* The end of a number: a point belongs to it when a digit follows.
number(p) ==
    LET q == RunEnd(p, Digits)
    IN  IF peek(q) = "." /\ peek(q + 1) \in Digits THEN RunEnd(q + 1, Digits) ELSE q

identifier_type(word) == IF word \in DOMAIN Words THEN Words[word] ELSE "IDENTIFIER"

Token(type, start, end, l) == [type |-> type, start |-> start, end |-> end, line |-> l]
error_token(l) == Token("ERROR", 0, -1, l)

\* The token that begins at p: its type and the last of its characters.
Scanned(p) ==
    LET c == text[p]
        Of(type, end) == [token |-> Token(type, p, end, line), next |-> end + 1]
        Word == RunEnd(p, is_alphanumeric) - 1
        Name == RunEnd(p + 1, is_alphanumeric) - 1
    IN  IF c \in Letters THEN Of(identifier_type(SubSeq(text, p, Word)), Word)
        ELSE IF c \in Digits THEN Of("NUMBER", number(p) - 1)
        ELSE IF c = "@" /\ SubSeq(text, p + 1, Name) \in Annotations THEN Of("ANNOTATION", Name)
        ELSE IF <<c, peek(p + 1)>> \in Doubled THEN Of("DOUBLED", p + 1)
        ELSE IF c \in DOMAIN Symbols THEN Of(Symbols[c], p)
        ELSE [token |-> error_token(line), next |-> p + 1]

lexer_next_token ==
    LET p     == skip_whitespace
        lines == line + CountOf(Newlines(current, p - 1))
        s     == string_token(p + 1)
        Read(token, next, l) ==
            /\ tokens' = Append(tokens, token)
            /\ current' = next /\ line' = l
    IN  /\ \A k \in DOMAIN tokens : tokens[k].type # "EOF"
        /\ IF peek(p) = Nul THEN Read(Token("EOF", p - 1, p - 1, lines), p, lines)
           ELSE IF peek(p) # "quote"
             THEN LET scanned == Scanned(p)
                  IN  Read([scanned.token EXCEPT !.line = lines], scanned.next, lines)
           ELSE IF peek(s.end) = Nul
             THEN Read(error_token(lines + s.lines), s.end, lines + s.lines)
           ELSE Read(Token("STRING", p, s.end, lines + s.lines), s.end + 1, lines + s.lines)
        /\ UNCHANGED text

Init ==
    /\ text \in Texts
    /\ current = 1 /\ line = 1 /\ tokens = << >>

Next == lexer_next_token

Spec == Init /\ [][Next]_lexerVars

-----------------------------------------------------------------------------
TypeOK ==
    /\ text \in Texts
    /\ current \in 1 .. Len(text) + 1
    /\ line \in 1 .. Len(text) + 1
    /\ \A k \in DOMAIN tokens : tokens[k].type \in TokenType /\ tokens[k].line \in 1 .. line

\* What the words of the language are.
IsEscaped(w, r) ==      \* an odd number of backslashes before the r-th character
    LET odd[q \in 0 .. Len(w)] == q > 1 /\ w[q] = "backslash" /\ ~odd[q - 1] IN odd[r - 1]

IsString(w) ==
    /\ Len(w) >= 2 /\ w[1] = "quote" /\ w[Len(w)] = "quote" /\ ~IsEscaped(w, Len(w))
    /\ \A r \in 2 .. Len(w) - 1 : w[r] = "quote" => IsEscaped(w, r)

IsNumber(w) ==
    \E q \in 0 .. Len(w) :
        /\ q # 1 /\ q # Len(w) /\ (q > 0 => w[q] = ".")
        /\ \A r \in DOMAIN w \ {q} : w[r] \in Digits

IsWord(p, q) ==
    LET w == SubSeq(text, p, q)
    IN  \/ w[1] \in Letters /\ \A r \in DOMAIN w : w[r] \in is_alphanumeric
        \/ w[1] = "@" /\ Tail(w) \in Annotations /\ peek(q + 1) \notin is_alphanumeric
        \/ IsNumber(w) \/ IsString(w) \/ w \in Doubled
        \/ Len(w) = 1 /\ w[1] \in DOMAIN Symbols

Valid == {k \in DOMAIN tokens : tokens[k].type \notin {"ERROR", "EOF"}}

\* Each token is the longest word of the language that begins where it begins,
\* tokens follow one another, and what lies between two of them is blank or a
\* comment, as long as there was no error.
TokensAreTheWords ==
    /\ \A k \in Valid :
          LET t == tokens[k]
          IN  /\ IsWord(t.start, t.end)
              /\ \A q \in t.end + 1 .. Len(text) : ~IsWord(t.start, q)
              /\ \A j \in Valid : j > k => tokens[j].start > t.end
    /\ (\A k \in DOMAIN tokens : tokens[k].type # "ERROR") =>
          \A r \in 1 .. current - 1 :
              \/ \E k \in Valid : r \in tokens[k].start .. tokens[k].end
              \/ text[r] \in {" ", "newline"}
              \/ \E q \in 1 .. r :
                    /\ text[q] = "/" /\ peek(q + 1) = "/" /\ Newlines(q, r) = {}
                    /\ \A k \in Valid : q \notin tokens[k].start .. tokens[k].end

\* A token has the line it ends on, unless a line end was escaped in a string
\* before its end.
LinesAreCounted ==
    \A k \in Valid :
        LET Before == Newlines(1, tokens[k].end)
        IN  (\A r \in Before : r = 1 \/ text[r - 1] # "backslash") =>
                tokens[k].line = 1 + CountOf(Before)

=============================================================================
