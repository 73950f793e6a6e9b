------------------------------- MODULE Jsonish -------------------------------
(***************************************************************************)
(* json.loads, json.loads(strict=False) and ast.literal_eval as            *)
(* api/llm/service.py uses them: which texts they take, which value they   *)
(* give, and which exception. A text is a sequence of tokens: brackets,    *)
(* quotes, punctuation, line breaks and words. A word of the source (a     *)
(* name, a piece of Korean) is one token.                                  *)
(*                                                                         *)
(* A value is <<"str", tokens>>, <<"list", values>>,                       *)
(* <<"obj", pairs>>, <<"set">> or <<"tuple">>. Bad stands for the          *)
(* exceptions that _load_jsonish catches, Raises for TypeError, which      *)
(* literal_eval throws for a list or a dict as a key or in a set.          *)
(***************************************************************************)
EXTENDS Naturals, Sequences, SequencesExt

DQ == "double quote"
SQ == "single quote"
BS == "backslash"
Fence == "three backquotes"
NL == "newline"
Hex == "hex escape"         \* \xb0, an escape of Python only
Unicode == "unicode escape" \* \u00b0
Degree == "degree sign"     \* what both stand for
LineEscape == "line escape" \* \n

Escaped == (Hex :> Degree) @@ (Unicode :> Degree) @@ (LineEscape :> NL)

Punctuation == {"{", "}", "[", "]", ",", ":", "=", DQ, SQ, BS, NL, Hex, Unicode, LineEscape, Fence}

IsName(token) == token \notin Punctuation

Loaders == <<"json", "lenient", "python">>

Str(tokens) == <<"str", tokens>>
Bad == <<"bad">>
Raises == <<"raises">>

IsFailure(value) == value \in {Bad, Raises}

----------------------------------------------------------------------------
RECURSIVE Skip(_, _)
Skip(s, i) == IF i <= Len(s) /\ s[i] = NL THEN Skip(s, i + 1) ELSE i

At(s, i) == IF i \in DOMAIN s THEN s[i] ELSE "end"

(***************************************************************************)
(* The first i >= from with an unescaped quote q; 0 if the string is open. *)
(***************************************************************************)
RECURSIVE EndOfString(_, _, _)
EndOfString(s, q, from) ==
    CASE from > Len(s)  -> 0
      [] s[from] = q    -> from
      [] s[from] = BS   -> EndOfString(s, q, from + 2)
      [] OTHER          -> EndOfString(s, q, from + 1)

RECURSIVE Unescape(_)
Unescape(s) ==
    CASE s = <<>>                        -> <<>>
      [] s[1] = BS /\ Len(s) > 1         -> <<s[2]>> \o Unescape(SubSeq(s, 3, Len(s)))
      [] s[1] \in DOMAIN Escaped         -> <<Escaped[s[1]]>> \o Unescape(Tail(s))
      [] OTHER                           -> <<s[1]>> \o Unescape(Tail(s))

\* A raw line break needs strict=False; \x and \' are escapes of Python only.
Admits(loader, body) ==
    /\ loader \in {"json", "python"} => NL \notin ToSet(body)
    /\ loader # "python" =>
         /\ Hex \notin ToSet(body)
         /\ \A i \in 1..(Len(body) - 1) : body[i] = BS => body[i + 1] \in {DQ, BS}

Failed == [value |-> Bad, next |-> 0]

(***************************************************************************)
(* A value or, for Python, a name, that starts at s[i], and the position   *)
(* behind it. ReadItems reads up to the closing bracket; an item is        *)
(* <<value>> or <<key, value>>. Python joins adjacent strings and allows   *)
(* a comma before the bracket.                                             *)
(***************************************************************************)
RECURSIVE ReadValue(_, _, _), ReadItems(_, _, _, _)

ReadString(loader, s, i) ==
    LET end == EndOfString(s, s[i], i + 1)
        body == SubSeq(s, i + 1, end - 1)
        then == Skip(s, end + 1)
    IN IF end = 0 \/ ~Admits(loader, body) \/ (s[i] = SQ /\ loader # "python") THEN Failed
       ELSE IF loader = "python" /\ At(s, then) \in {DQ, SQ}
            THEN LET more == ReadValue(loader, s, then)
                 IN IF more.value = Bad THEN Failed
                    ELSE [more EXCEPT !.value = Str(Unescape(body) \o more.value[2])]
            ELSE [value |-> Str(Unescape(body)), next |-> end + 1]

Collection(loader, open, items) ==
    CASE open = "[" /\ \A i \in DOMAIN items : Len(items[i]) = 1 ->
            <<"list", [i \in DOMAIN items |-> items[i][1]]>>
      [] open = "{" /\ \A i \in DOMAIN items : Len(items[i]) = 2 /\ (loader # "python" => items[i][1][1] = "str") ->
            <<"obj", items>>
      [] open = "{" /\ loader = "python" /\ \A i \in DOMAIN items : Len(items[i]) = 1 ->
            <<"set", [i \in DOMAIN items |-> items[i][1]]>>
      [] OTHER -> Bad

ReadValue(loader, s, i) ==
    CASE At(s, i) \in {DQ, SQ} -> ReadString(loader, s, i)
      [] At(s, i) \in {"[", "{"} ->
            LET read == ReadItems(loader, s, i + 1, IF s[i] = "[" THEN "]" ELSE "}")
                value == Collection(loader, s[i], read.items)
            IN IF read.next = 0 \/ value = Bad THEN Failed ELSE [value |-> value, next |-> read.next]
      [] loader = "python" /\ i <= Len(s) /\ IsName(At(s, i)) -> [value |-> <<"name">>, next |-> i + 1]
      [] OTHER -> Failed

ReadItems(loader, s, from, close) ==
    LET none == [items |-> <<>>, next |-> 0]
        i == Skip(s, from)
        first == ReadValue(loader, s, i)
        colon == Skip(s, first.next)
        paired == first.value # Bad /\ At(s, colon) = ":"
        second == ReadValue(loader, s, Skip(s, colon + 1))
        item == IF paired THEN <<first.value, second.value>> ELSE <<first.value>>
        then == Skip(s, IF paired THEN second.next ELSE first.next)
        more == ReadItems(loader, s, then + 1, close)
    IN CASE At(s, i) = close -> [items |-> <<>>, next |-> i + 1]
         [] At(s, i) # close /\ (first.value = Bad \/ (paired /\ second.value = Bad)) -> none
         [] OTHER ->
              IF At(s, then) = close THEN [items |-> <<item>>, next |-> then + 1]
              ELSE IF \/ At(s, then) # ","
                      \/ more.next = 0
                      \/ loader # "python" /\ more.items = <<>>
                   THEN none
                   ELSE [more EXCEPT !.items = <<item>> \o @]

(***************************************************************************)
(* literal_eval evaluates what it has parsed from left to right: a name is *)
(* a ValueError, an unhashable key or member of a set a TypeError.         *)
(***************************************************************************)
FirstFailure(outcomes) ==
    LET failures == SelectSeq(outcomes, IsFailure)
    IN IF failures = <<>> THEN <<"none">> ELSE failures[1]

Hashed(value) == IF value[1] \in {"list", "obj", "set"} THEN Raises ELSE value

RECURSIVE Evaluate(_)
Evaluate(value) ==
    LET parts == CASE value[1] = "list" -> [i \in DOMAIN value[2] |-> Evaluate(value[2][i])]
                   [] value[1] = "set"  -> [i \in DOMAIN value[2] |-> Hashed(Evaluate(value[2][i]))]
                   [] value[1] = "obj"  ->
                        FlattenSeq([i \in DOMAIN value[2] |->
                            LET key == Evaluate(value[2][i][1])
                                of == Evaluate(value[2][i][2])
                            IN IF IsFailure(key) THEN <<key>> ELSE <<of, Hashed(key)>>])
                   [] OTHER -> <<>>
    IN CASE value[1] = "name"                     -> Bad
         [] FirstFailure(parts) # <<"none">>      -> FirstFailure(parts)
         [] OTHER                                 -> value

(***************************************************************************)
(* The value of the whole text. A comma behind a value makes a tuple.      *)
(***************************************************************************)
Whole(loader, value) == IF loader = "python" THEN Evaluate(value) ELSE value

ListItems(read) == <<"list", [i \in DOMAIN read.items |-> read.items[i][1]]>>

AsTuple(list) == IF IsFailure(list) THEN list ELSE <<"tuple">>

IsTuple(loader, s, then, items) == loader = "python" /\ s[then] = "," /\ items.next = Len(s) + 2

LoadRead(loader, s, read, then, items) ==
    CASE read.value = Bad -> Bad
      [] read.value # Bad /\ then > Len(s) -> Whole(loader, read.value)
      [] read.value # Bad /\ then <= Len(s) ->
           IF IsTuple(loader, s, then, items) THEN AsTuple(Evaluate(ListItems(items))) ELSE Bad

LoadFrom(loader, s, read) == LoadRead(loader, s, read, Skip(s, read.next), ReadItems(loader, Append(s, "]"), 1, "]"))

Load(loader, text) == LoadFrom(loader, text, ReadValue(loader, text, Skip(text, 1)))

\* dict.get: the last pair with a key counts.
HasKey(object, key) == \E i \in DOMAIN object[2] : object[2][i][1] = Str(<<key>>)

ValueAt(object, key) ==
    LET i == CHOOSE i \in DOMAIN object[2] :
                /\ object[2][i][1] = Str(<<key>>)
                /\ \A j \in DOMAIN object[2] : object[2][j][1] = Str(<<key>>) => j <= i
    IN object[2][i][2]
==============================================================================
