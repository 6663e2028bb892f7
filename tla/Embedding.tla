----------------------------- MODULE Embedding ------------------------------
(***************************************************************************)
(* The runtime as a host program uses it (loader/loader.c): compiling and  *)
(* executing a module, the error left behind, the strings made for the     *)
(* host and by the native string functions.  A string is a sequence of     *)
(* characters with its length beside it, and may hold a NUL.               *)
(***************************************************************************)
EXTENDS Integers, Sequences, FiniteSets, TLC

CONSTANTS
    Texts,          \* what the host makes strings of
    Numbers,        \* the numbers it passes
    MaxStrings, MaxReferences,
    Nil             \* no value, or no runtime

VARIABLES
    rt,             \* the runtime: its last error and result; or none
    module,         \* what the last asteron_compile returned
    resources,      \* what asteron_compile and asteron_execute hold in memory
    strings,        \* the strings in memory, with their reference counts
    call            \* the native call just made, and what it returned

embeddingVars == <<rt, module, resources, strings, call>>

None == "none"
Nul  == "nul"
NoCall == [name |-> None]

Ids       == DOMAIN strings
NewString == CHOOSE i \in 1 .. MaxStrings : i \notin Ids
Room      == Cardinality(Ids) < MaxStrings
String(s) == [chars |-> s, length |-> Len(s), ref_count |-> 1]

asteron_runtime_create ==
    /\ rt = Nil
    /\ rt' = [last_error |-> None, last_result |-> "ok"]
    /\ call' = NoCall /\ UNCHANGED <<module, resources, strings>>

asteron_runtime_destroy ==      \* what was compiled and made stays
    /\ rt # Nil /\ rt' = Nil
    /\ call' = NoCall /\ UNCHANGED <<module, resources, strings>>

\* The phases of asteron_compile in their order, what each makes, and what is
\* freed when the phase fails.  (The parser returns a tree with its error.)
Phases == <<"module", "lexer", "parser", "syntax", "type", "bytecode">>
Makes  == [module |-> {"module", "name"}, lexer |-> {"lexer"}, parser |-> {"parser"},
           syntax |-> {"ast"}, type |-> {}, bytecode |-> {"bytecode"}]
Cleans == [module |-> {}, lexer |-> {"name", "module"}, parser |-> {"lexer", "name", "module"},
           syntax |-> {"ast", "parser", "lexer", "name", "module"},
           type |-> {"ast", "parser", "lexer", "name", "module"},
           bytecode |-> {"ast", "parser", "lexer", "name", "module"}]

Made(n) == UNION {Makes[Phases[k]] : k \in 1 .. n}

asteron_compile_fails(n) ==
    LET phase == Phases[n]
        reported ==
            [last_error |-> phase, last_result |-> IF phase = "type" THEN "error_type" ELSE "error_compile"]
    IN  /\ rt # Nil /\ module = None
        /\ resources' = resources
             \cup ((Made(n - 1) \cup IF phase = "syntax" THEN {"ast"} ELSE {}) \ Cleans[phase])
        /\ rt' = IF phase = "module" THEN rt ELSE reported
        /\ call' = NoCall /\ UNCHANGED <<module, strings>>

\* A success leaves the error of before.
asteron_compile ==
    /\ rt # Nil /\ module = None
    /\ resources' = resources \cup (Made(Len(Phases)) \ {"parser", "lexer"})
    /\ module' = "compiled"
    /\ call' = NoCall /\ UNCHANGED <<rt, strings>>

\* The machine made for an execution is destroyed whether it fails or not.
asteron_execute(error) ==
    /\ rt # Nil /\ module # None
    /\ resources' = (resources \cup {"vm"}) \ {"vm"}
    /\ rt' = IF error = None THEN rt ELSE [rt EXCEPT !.last_error = error]
    /\ call' = NoCall /\ UNCHANGED <<module, strings>>

-----------------------------------------------------------------------------
(* Objects.                                                                *)

asteron_string_create(s) ==
    /\ rt # Nil /\ Room
    /\ strings' = (NewString :> String(s)) @@ strings
    /\ call' = NoCall
    /\ UNCHANGED <<rt, module, resources>>

asteron_obj_retain(i) ==
    /\ strings[i].ref_count < MaxReferences
    /\ strings' = [strings EXCEPT ![i].ref_count = @ + 1]
    /\ call' = NoCall
    /\ UNCHANGED <<rt, module, resources>>

asteron_obj_release(i) ==
    /\ strings' = IF strings[i].ref_count = 1 THEN [j \in Ids \ {i} |-> strings[j]]
                  ELSE [strings EXCEPT ![i].ref_count = @ - 1]
    /\ call' = NoCall
    /\ UNCHANGED <<rt, module, resources>>

-----------------------------------------------------------------------------
(* The native functions of strings.  Nil stands for any argument of        *)
(* another type.                                                           *)

\* The characters up to the first NUL: what strlen and strstr see.
UpToNul(s) ==
    LET ends == {k \in DOMAIN s : s[k] = Nul}
    IN  IF ends = {} THEN s ELSE SubSeq(s, 1, (CHOOSE k \in ends : \A j \in ends : k <= j) - 1)

make_string(s) == UpToNul(s)

native_char_at(s, index) ==
    IF s = Nil \/ index = Nil THEN Nil
    ELSE IF index < 0 \/ index >= Len(s) THEN make_string(<< >>)
    ELSE make_string(<<s[index + 1]>>)

\* end is Nil when there are two arguments.
native_substr(s, start, end) ==
    IF s = Nil \/ start = Nil THEN Nil
    ELSE IF start < 0 \/ start >= Len(s) THEN make_string(<< >>)
    ELSE LET stop == IF end = Nil \/ end > Len(s) THEN Len(s) ELSE end
         IN  IF stop <= start THEN make_string(<< >>) ELSE make_string(SubSeq(s, start + 1, stop))

\* strstr: at each position in turn, a comparison that ends with the text
\* sought or at a difference.
native_index_of(s, search) ==
    IF s = Nil \/ search = Nil THEN -1
    ELSE LET t == UpToNul(s)
             u == UpToNul(search)
             Matches(p) == \A k \in DOMAIN u : p + k <= Len(t) /\ t[p + k] = u[k]
             find[p \in 0 .. Len(t) + 1] == IF p > Len(t) THEN -1 ELSE IF Matches(p) THEN p ELSE find[p + 1]
         IN  find[0]

native_len(s) == IF s = Nil THEN 0 ELSE Len(s)

\* The machine calls a native function; the string it returns is for the caller
\* to release.  The functions touch nothing of the runtime: as a bound, they are
\* called before anything was compiled.
Arguments == {Nil} \cup {strings[i].chars : i \in Ids}
Optional  == {Nil} \cup Numbers

Returns(name, args, value) ==
    /\ rt # Nil /\ rt.last_error = None /\ module = None
    /\ call' = [name |-> name, args |-> args, value |-> value]
    /\ UNCHANGED <<rt, module, resources, strings>>

CallNative ==
    \E s \in Arguments :
        \/ \E i \in Optional : Returns("char_at", <<s, i>>, native_char_at(s, i))
        \/ \E i, j \in Optional : Returns("substr", <<s, i, j>>, native_substr(s, i, j))
        \/ \E t \in Arguments : Returns("index_of", <<s, t>>, native_index_of(s, t))
        \/ Returns("len", <<s>>, native_len(s))

Init ==
    /\ rt = Nil /\ module = None /\ resources = {}
    /\ strings = << >> /\ call = NoCall

Next ==
    \/ asteron_runtime_create \/ asteron_runtime_destroy
    \/ asteron_compile \/ \E n \in DOMAIN Phases : asteron_compile_fails(n)
    \/ \E e \in {None, "execution"} : asteron_execute(e)
    \/ \E s \in Texts : asteron_string_create(s)
    \/ \E i \in Ids : asteron_obj_retain(i) \/ asteron_obj_release(i)
    \/ CallNative

Spec == Init /\ [][Next]_embeddingVars

-----------------------------------------------------------------------------
TypeOK ==
    /\ module \in {None, "compiled"}
    /\ \A i \in Ids :
          /\ strings[i].length = Len(strings[i].chars)
          /\ strings[i].ref_count \in 1 .. MaxReferences

\* Whatever phase of a compilation fails, and however an execution ends, the
\* memory left is that of the module that was compiled.
NothingIsLeftBehind ==
    resources = IF module = None THEN {} ELSE {"module", "name", "ast", "bytecode"}

\* The string functions agree with one another on strings without a NUL: a
\* character is a substring of one, a substring begins where it was cut, and
\* index_of finds the first place a string can be cut from.
Cut(s, p, q) == [k \in 1 .. q - p |-> s[p + k]]
Places(s, t) == {p \in 0 .. Len(s) - Len(t) : Cut(s, p, p + Len(t)) = t}

TextsAreCut ==
    LET s == call.args[1]
    IN  call.name \in {"char_at", "substr", "index_of"} /\ s # Nil =>
        /\ call.name = "index_of" /\ call.args[2] # Nil /\ UpToNul(s) = s /\ UpToNul(call.args[2]) = call.args[2]
             => IF call.value = -1 THEN Places(s, call.args[2]) = {}
                ELSE call.value \in Places(s, call.args[2])
                     /\ \A p \in Places(s, call.args[2]) : call.value <= p
        /\ call.name = "char_at" /\ call.args[2] # Nil /\ UpToNul(s) = s
             => call.value = native_substr(s, call.args[2], call.args[2] + 1)
        /\ call.name = "substr" /\ call.args[2] # Nil /\ UpToNul(s) = s
             => LET p == call.args[2]
                    q == IF call.args[3] = Nil THEN Len(s) ELSE call.args[3]
                IN  /\ call.value = Cut(s, p, p + Len(call.value)) \/ call.value = << >>
                    /\ 0 <= p /\ p <= q /\ q <= Len(s) => Len(call.value) = q - p

=============================================================================
