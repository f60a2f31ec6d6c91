------------------------------- MODULE Lexer -------------------------------
(***************************************************************************)
(* The lexer (lexer/lexer.c): from the characters of a line to tokens, and *)
(* within a word to its parts.  Each kind of character that the lexer      *)
(* tells apart has one representative: n stands for the letters, 1 for the *)
(* digits.                                                                 *)
(***************************************************************************)
EXTENDS Integers, SequencesExt

CONSTANT Lines  \* what readline may return

Blank == {" "}
Quotes == {"'", "\""}
Alpha == {"n"}
Digits == {"1"}
is_meta_char == {"|", "&", ";", ">", "<"}
is_glob_char == {"*", "?", "["}
is_special_parameter_char == {"$", "?", "-"}  \* and !, which is like -
OpenBrace == "{"
CloseBrace == "}"
is_name_char == Alpha \cup Digits
Chars == Blank \cup Quotes \cup is_name_char \cup is_meta_char \cup is_glob_char
           \cup is_special_parameter_char \cup {"]", OpenBrace, CloseBrace, "~", "\\"}

ASSUME LexerAssumption == Lines \subseteq Seq(Chars)

NUL == "NUL"

VARIABLES
  phase,      \* prompt, next_token, word, parsed, expand, crashed, exited
  input, pos, \* lexer_t
  quote_ctx,  \* none, or the quote that is open
  start,      \* where the word began
  parts,      \* word_part_t of the word: [type, value]
  tokens      \* what lexer_next_token has returned: [type, from, to, parts]

lexVars == <<phase, input, pos, quote_ctx, start, parts, tokens>>

LexInit ==
  /\ phase = "prompt"
  /\ input = <<>>
  /\ pos = 0
  /\ quote_ctx = "none"
  /\ start = 0
  /\ parts = <<>>
  /\ tokens = <<>>

(* peek, at any position. *)
Char(p) == IF p \in 0 .. Len(input) - 1 THEN input[p + 1] ELSE NUL

Text(from, to) == SubSeq(input, from + 1, to)

(* Where a run of such characters, from p on, ends. *)
RunEnd(p, chars) == Min({q \in p .. Len(input) : Char(q) \notin chars})

lexer_init(line) ==
  /\ input' = line
  /\ pos' = 0
  /\ tokens' = <<>>
  /\ phase' = "next_token"
  /\ UNCHANGED <<quote_ctx, start, parts>>

-----------------------------------------------------------------------------
(* lexer_next_token: blanks are skipped first. *)

TokenStart == RunEnd(pos, Blank)

Returns(type, from, to, word_parts) ==
  tokens' = Append(tokens, [type |-> type, from |-> from, to |-> to, parts |-> word_parts])

(* <<c>> or <<c, c>> *)
operator_type(c, doubled) ==
  CASE c = "|" -> IF doubled THEN "or" ELSE "pipe"
    [] c = "&" -> IF doubled THEN "and" ELSE "bg"
    [] c \in {">", "<"} -> "redir"
    [] c = ";" -> "semi"

DoublesAt(p) == Char(p) \notin {"<", ";"} /\ Char(p + 1) = Char(p)

OperatorToken ==
  LET from == TokenStart
      to == IF DoublesAt(from) THEN from + 2 ELSE from + 1
  IN  /\ phase = "next_token"
      /\ Char(from) \in is_meta_char
      /\ Returns(operator_type(Char(from), DoublesAt(from)), from, to, <<>>)
      /\ pos' = to
      /\ UNCHANGED <<phase, input, quote_ctx, start, parts>>

EndOfLine ==
  /\ phase = "next_token"
  /\ Char(TokenStart) = NUL
  /\ Returns("eof", Len(input), Len(input), <<>>)
  /\ pos' = Len(input)
  /\ phase' = "parsed"
  /\ UNCHANGED <<input, quote_ctx, start, parts>>

(* handle_word_token *)
StartWord ==
  /\ phase = "next_token"
  /\ Char(TokenStart) \notin is_meta_char \cup {NUL}
  /\ pos' = TokenStart
  /\ start' = TokenStart
  /\ parts' = <<>>
  /\ quote_ctx' = "none"
  /\ phase' = "word"
  /\ UNCHANGED <<input, tokens>>

WordIsOver ==
  \/ Char(pos) = NUL
  \/ quote_ctx = "none" /\ Char(pos) \in Blank \cup is_meta_char

(* strtol takes all of it. *)
is_word_fd(raw) ==
  LET unsigned == IF raw # <<>> /\ raw[1] = "-" THEN Tail(raw) ELSE raw
  IN  unsigned # <<>> /\ \A i \in DOMAIN unsigned : unsigned[i] \in Digits

word_type_AnyNumber(raw) == IF is_word_fd(raw) THEN "fd" ELSE "word"
word_type(raw) == IF is_word_fd(raw) /\ Char(pos) \in {">", "<"} THEN "fd" ELSE "word"

EndWord ==
  /\ phase = "word"
  /\ WordIsOver
  /\ Returns(word_type(Text(start, pos)), start, pos, parts)
  /\ phase' = "next_token"
  /\ UNCHANGED <<input, pos, quote_ctx, start, parts>>

-----------------------------------------------------------------------------
(* lex_next_word_part, one action for each kind of part *)

(* A part without text is dropped. *)
AddPart_KeepsEmpty(type, value) == parts' = Append(parts, [type |-> type, value |-> value])
AddPart(type, value) ==
  parts' = IF value = <<>> THEN parts ELSE Append(parts, [type |-> type, value |-> value])

InWord == phase = "word" /\ ~WordIsOver

after_quote_Peeked == pos
after_quote == pos + 1

Quote ==
  /\ InWord
  /\ Char(pos) \in Quotes
  /\ quote_ctx' = IF quote_ctx = "none" THEN Char(pos) ELSE "none"
  /\ pos' = after_quote
  /\ UNCHANGED <<phase, input, start, parts, tokens>>

IsVariable == Char(pos) = "$" /\ quote_ctx # "'"

(* The name behind $ or ${, with the brace that closes it. *)
IsSpecial_OnlyBare(p, curly) == ~curly /\ Char(p) \in is_special_parameter_char
IsSpecial(p, curly) == Char(p) \in is_special_parameter_char

handle_variable_word_part ==
  LET from == pos + 1
      curly == Char(from) = OpenBrace
      brace == IF curly THEN 1 ELSE 0
      name == from + brace
      is_special == IsSpecial(name, curly)
      name_end == IF is_special THEN name + 1 ELSE RunEnd(name, is_name_char)
      to == IF curly /\ Char(name_end) = CloseBrace THEN name_end + 1 ELSE name_end
      len == IF is_special THEN 1 ELSE to - from - 2 * brace
  IN  [to |-> to, len |-> len, curly |-> curly, value |-> Text(name, name + len)]

Variable ==
  LET v == handle_variable_word_part IN
  /\ InWord
  /\ IsVariable
  /\ v.len >= 0
  /\ pos' = v.to
  /\ IF v.len = 0 /\ ~v.curly THEN AddPart("literal", <<"$">>) ELSE AddPart("variable", v.value)
  /\ UNCHANGED <<phase, input, quote_ctx, start, tokens>>

(* The length is a size_t: below 0 it asks for all of the memory. *)
VariableCrashes ==
  /\ InWord
  /\ IsVariable
  /\ handle_variable_word_part.len < 0
  /\ phase' = "crashed"
  /\ UNCHANGED <<input, pos, quote_ctx, start, parts, tokens>>

IsTilde == Char(pos) = "~" /\ quote_ctx = "none" /\ Char(pos - 1) # "~"

Tilde ==
  LET to == RunEnd(pos + 1, is_name_char \cup {"-"}) IN
  /\ InWord
  /\ IsTilde
  /\ AddPart("tilde", Text(pos, to))
  /\ pos' = to
  /\ UNCHANGED <<phase, input, quote_ctx, start, tokens>>

(* A bracket reads on to the next ], whatever lies between. *)
IsGlob == Char(pos) \in is_glob_char /\ quote_ctx = "none"

handle_glob_word_part ==
  IF Char(pos) = "[" THEN Min({RunEnd(pos, Chars \ {"]"}) + 1, Len(input)}) ELSE pos + 1

Glob ==
  /\ InWord
  /\ IsGlob
  /\ AddPart("glob", Text(pos, handle_glob_word_part))
  /\ pos' = handle_glob_word_part
  /\ UNCHANGED <<phase, input, quote_ctx, start, tokens>>

(* What ends a literal, and whether \ is one of its characters. *)
LiteralEnds(ctx) ==
  {NUL} \cup
  CASE ctx = "none" -> Blank \cup Quotes \cup is_meta_char \cup is_glob_char \cup {"$"}
    [] ctx = "'" -> {"'"}
    [] ctx = "\"" -> {"\"", "$"}

Escapes_AlsoQuoted(ctx) == TRUE
Escapes(ctx) == ctx # "'"

handle_escape(c) == IF c \in Alpha THEN <<"control">> ELSE IF c = NUL THEN <<>> ELSE <<c>>

handle_literal ==
  LET rest[p \in pos .. Len(input)] ==
        IF Char(p) \in LiteralEnds(quote_ctx) THEN [to |-> p, value |-> <<>>]
        ELSE LET escaped == Escapes(quote_ctx) /\ Char(p) = "\\"
                 r == rest[IF escaped THEN Min({p + 2, Len(input)}) ELSE p + 1]
             IN  [r EXCEPT !.value =
                    (IF escaped THEN handle_escape(Char(p + 1)) ELSE <<Char(p)>>) \o @]
  IN  rest[pos]

Literal ==
  /\ InWord
  /\ Char(pos) \notin Quotes
  /\ ~IsVariable /\ ~IsTilde /\ ~IsGlob
  /\ AddPart("literal", handle_literal.value)
  /\ pos' = handle_literal.to
  /\ UNCHANGED <<phase, input, quote_ctx, start, tokens>>

-----------------------------------------------------------------------------
lex_next_word_part == Quote \/ Variable \/ VariableCrashes \/ Tilde \/ Glob \/ Literal
lexer_next_token == OperatorToken \/ EndOfLine \/ StartWord \/ EndWord

LexNext ==
  \/ phase = "prompt" /\ \E line \in Lines : lexer_init(line)
  \/ lexer_next_token
  \/ lex_next_word_part
=============================================================================
