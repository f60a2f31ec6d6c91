---------------------------- MODULE WordsProofs ----------------------------
(***************************************************************************)
(* What the lexer hands to the parser, that it cuts a line where a reader  *)
(* would, where it can crash, and what words become as arguments, for      *)
(* lines of every length, any variables and any files.                     *)
(***************************************************************************)
EXTENDS WordsProperties, LibraryProofs, SequenceTheorems, TLAPS

-----------------------------------------------------------------------------
(* Where a run of characters ends *)

(* Before the end of the line there is a character of it.                  *)
LEMMA CharOnLine ==
  ASSUME NEW p, input \in Seq(Chars), Char(p) # NUL
  PROVE  p \in 0 .. Len(input) - 1 /\ Char(p) = input[p + 1]
BY DEF Char

(* A character that does not belong to the run ends it at once.            *)
LEMMA EmptyRun ==
  ASSUME NEW chars, input \in Seq(Chars), NEW p \in 0 .. Len(input), Char(p) \notin chars
  PROVE  RunEnd(p, chars) = p
<1> DEFINE ends == {q \in p .. Len(input) : Char(q) \notin chars}
<1>1. Len(input) \in Nat
  OBVIOUS
<1>2. p \in ends /\ ends \in SUBSET Nat /\ \A q \in ends : p <= q
  BY <1>1
<1>3. Min(ends) = p
  BY <1>2, MinIs
<1> QED BY <1>3 DEF RunEnd

(* A run that ends where it begins has no character.                       *)
LEMMA RunEndsBehind ==
  ASSUME NEW chars, NUL \notin chars, input \in Seq(Chars), NEW p \in 0 .. Len(input)
  PROVE  /\ RunEnd(p, chars) \in p .. Len(input)
         /\ Char(p) \in chars => RunEnd(p, chars) > p
<1> DEFINE ends == {q \in p .. Len(input) : Char(q) \notin chars}
<1>1. Len(input) \in Nat /\ Char(Len(input)) = NUL
  BY DEF Char
<1>2. Len(input) \in ends /\ ends \in SUBSET Nat
  BY <1>1
<1>3. Min(ends) \in ends
  BY <1>2, MinInSet
<1>4. RunEnd(p, chars) \in ends
  BY <1>3 DEF RunEnd
<1> QED BY <1>4

(* Which characters a run has.                                             *)
LEMMA RunIs ==
  ASSUME NEW chars, NUL \notin chars, input \in Seq(Chars), NEW p \in 0 .. Len(input)
  PROVE  /\ RunEnd(p, chars) \in p .. Len(input)
         /\ Char(RunEnd(p, chars)) \notin chars
         /\ \A q \in p .. RunEnd(p, chars) - 1 : Char(q) \in chars
<1> DEFINE ends == {q \in p .. Len(input) : Char(q) \notin chars}
<1>1. Len(input) \in ends /\ ends \in SUBSET Nat
  BY DEF Char
<1>2. PICK e \in ends : \A q \in ends : e <= q
  BY <1>1, SmallestMember
<1>3. RunEnd(p, chars) = e
  BY <1>1, <1>2, MinIs DEF RunEnd
<1>4. ASSUME NEW q \in p .. e - 1 PROVE Char(q) \in chars
  BY <1>2
<1> QED BY <1>2, <1>3, <1>4

-----------------------------------------------------------------------------
(* The tokens *)

(* Why the tokens suit the parser: a number is taken for a descriptor only *)
(* when the operator follows at once, and nothing is read after the end.   *)
TokensInv ==
  /\ input \in Seq(Chars)
  /\ tokens \in Seq(Range(tokens))
  /\ TokensSuitParser
  /\ tokens # <<>> /\ tokens[Len(tokens)].type = "fd" =>
       phase = "next_token" /\ Char(pos) \in {">", "<"}
  /\ tokens # <<>> /\ tokens[Len(tokens)].type = "eof" => phase \in {"parsed", "expand", "exited"}

(* The last token only is new.                                             *)
LEMMA AppendedToken ==
  ASSUME NEW s, s \in Seq(Range(s)), NEW e
  PROVE  LET t == Append(s, e) IN
         /\ t \in Seq(Range(t))
         /\ t # <<>>
         /\ Len(t) = Len(s) + 1
         /\ DOMAIN t = 1 .. Len(s) + 1
         /\ \A i \in 1 .. Len(s) : t[i] = s[i]
         /\ t[Len(s) + 1] = e
<1> DEFINE S == Range(s) \cup {e}
           t == Append(s, e)
<1>1. s \in Seq(S) /\ e \in S
  OBVIOUS
<1>2. /\ t \in Seq(S)
      /\ t # <<>>
      /\ Len(t) = Len(s) + 1
      /\ \A i \in 1 .. Len(s) : t[i] = s[i]
      /\ t[Len(s) + 1] = e
  BY <1>1, AppendProperties
<1>3. DOMAIN t = 1 .. Len(t)
  BY <1>2
<1>4. t \in Seq(Range(t))
  BY <1>2, <1>3 DEF Range
<1> QED BY <1>2, <1>3, <1>4

(* A token that may follow the last one can be added.                      *)
LEMMA NewToken ==
  ASSUME TokensInv,
         NEW token,
         token.type \in IF tokens = <<>> THEN Parsing!token_type_e
                        ELSE Parsing!TokensAfter([i \in 1 .. Len(tokens) |-> tokens[i].type]),
         tokens' = Append(tokens, token)
  PROVE  /\ tokens' \in Seq(Range(tokens'))
         /\ TokensSuitParser'
         /\ tokens' # <<>>
         /\ tokens'[Len(tokens')] = token
<1> DEFINE Types(toks, k) == [i \in 1 .. k - 1 |-> toks[i].type]
<1>1. /\ tokens' \in Seq(Range(tokens'))
      /\ tokens' # <<>>
      /\ Len(tokens') = Len(tokens) + 1
      /\ DOMAIN tokens' = 1 .. Len(tokens) + 1
      /\ \A i \in 1 .. Len(tokens) : tokens'[i] = tokens[i]
      /\ tokens'[Len(tokens) + 1] = token
  <2>1. tokens \in Seq(Range(tokens))
    BY DEF TokensInv
  <2>2. tokens' = Append(tokens, token)
    OBVIOUS
  <2> QED BY <2>1, <2>2, AppendedToken
<1>2. Len(tokens) \in Nat /\ DOMAIN tokens = 1 .. Len(tokens)
  BY DEF TokensInv
<1>3. ASSUME NEW k \in 1 .. Len(tokens) + 1
      PROVE  Types(tokens', k) = Types(tokens, k)
  BY <1>1, <1>2
<1>4. ASSUME NEW k \in 1 .. Len(tokens) + 1
      PROVE  tokens'[k].type \in Parsing!TokensAfter(Types(tokens', k))
  <2>1. CASE k \in 1 .. Len(tokens)
    BY <1>1, <1>2, <1>3, <2>1 DEF TokensInv, TokensSuitParser
  <2>2. CASE k = Len(tokens) + 1 /\ tokens = <<>>
    <3>1. Types(tokens', k) = <<>>
      BY <1>2, <2>2
    <3> QED BY <1>1, <2>2, <3>1 DEF Parsing!TokensAfter
  <2>3. CASE k = Len(tokens) + 1 /\ tokens # <<>>
    <3>1. Types(tokens', k) = [i \in 1 .. Len(tokens) |-> tokens[i].type]
      BY <1>2, <1>3, <2>3
    <3> QED BY <1>1, <2>3, <3>1
  <2> HIDE DEF Types
  <2>4. k \in 1 .. Len(tokens) \/ k = Len(tokens) + 1
    BY <1>2
  <2> QED BY <2>1, <2>2, <2>3, <2>4
<1> QED BY <1>1, <1>4 DEF TokensSuitParser

(* A redirection that stands where the lexer is begins the next token.     *)
LEMMA RedirectionIsNext ==
  ASSUME input \in Seq(Chars), Char(pos) \in {">", "<"}
  PROVE  TokenStart = pos
<1>1. Char(pos) # NUL /\ Char(pos) \notin Blank
  BY DEF NUL, Blank
<1>2. pos \in 0 .. Len(input) - 1
  BY <1>1, CharOnLine
<1>3. Len(input) \in Nat
  OBVIOUS
<1>4. pos \in 0 .. Len(input)
  BY <1>2, <1>3
<1> QED BY <1>1, <1>4, EmptyRun DEF TokenStart

(* A number before a redirection is followed by an operator only, and      *)
(* nothing follows the end.                                                *)
LEMMA LastToken ==
  ASSUME TokensInv, phase \in {"next_token", "word"}, tokens # <<>>,
         phase = "next_token" => Char(TokenStart) \notin {">", "<"}
  PROVE  tokens[Len(tokens)].type \notin {"fd", "eof"}
<1>1. tokens[Len(tokens)].type # "eof"
  BY DEF TokensInv
<1>2. ASSUME tokens[Len(tokens)].type = "fd" PROVE FALSE
  <2>1. phase = "next_token" /\ Char(pos) \in {">", "<"} /\ input \in Seq(Chars)
    BY <1>2 DEF TokensInv
  <2>2. Char(TokenStart) \in {">", "<"}
    BY <2>1, RedirectionIsNext
  <2> QED BY <2>1, <2>2
<1> QED BY <1>1, <1>2

(* What may come next, then.                                               *)
LEMMA AnyTokenFollows ==
  ASSUME TokensInv, phase \in {"next_token", "word"},
         phase = "next_token" => Char(TokenStart) \notin {">", "<"}
  PROVE  tokens # <<>> =>
           Parsing!TokensAfter([i \in 1 .. Len(tokens) |-> tokens[i].type])
             = Parsing!token_type_e
<1> SUFFICES ASSUME tokens # <<>>
             PROVE  Parsing!TokensAfter([i \in 1 .. Len(tokens) |-> tokens[i].type])
                      = Parsing!token_type_e
  OBVIOUS
<1> DEFINE types == [i \in 1 .. Len(tokens) |-> tokens[i].type]
<1>1. tokens[Len(tokens)].type \notin {"fd", "eof"}
  BY LastToken
<1>2. tokens \in Seq(Range(tokens)) /\ Len(tokens) \in Nat /\ Len(tokens) > 0
  BY DEF TokensInv
<1>3. types # <<>> /\ Parsing!Last(types) = tokens[Len(tokens)].type
  BY <1>2 DEF Parsing!Last
<1> HIDE DEF types
<1>4. Parsing!TokensAfter(types) = Parsing!token_type_e
  BY <1>1, <1>3 DEF Parsing!TokensAfter
<1> QED BY <1>4 DEF types

(* Behind a number that is a descriptor there is < or >.                   *)
LEMMA RedirectionFollows ==
  ASSUME TokensInv, phase = "next_token"
  PROVE  tokens # <<>> =>
           "redir" \in Parsing!TokensAfter([i \in 1 .. Len(tokens) |-> tokens[i].type])
<1> SUFFICES ASSUME tokens # <<>>
             PROVE  "redir" \in Parsing!TokensAfter([i \in 1 .. Len(tokens) |-> tokens[i].type])
  OBVIOUS
<1> DEFINE types == [i \in 1 .. Len(tokens) |-> tokens[i].type]
<1>1. tokens \in Seq(Range(tokens)) /\ Len(tokens) \in Nat /\ Len(tokens) > 0
  BY DEF TokensInv
<1>2. types # <<>> /\ Parsing!Last(types) = tokens[Len(tokens)].type /\ Parsing!Last(types) # "eof"
  BY <1>1 DEF Parsing!Last, TokensInv
<1> HIDE DEF types
<1>3. "redir" \in Parsing!TokensAfter(types)
  BY <1>2 DEF Parsing!TokensAfter, Parsing!token_type_e
<1> QED BY <1>3 DEF types

-----------------------------------------------------------------------------
(* The steps *)

LEMMA TokensInit == Init => TokensInv
<1> SUFFICES ASSUME Init PROVE TokensInv
  OBVIOUS
<1>1. input = <<>> /\ tokens = <<>>
  BY DEF Init, LexInit
<1>2. input \in Seq(Chars) /\ tokens \in Seq(Range(tokens)) /\ DOMAIN tokens = {}
  BY <1>1
<1> QED BY <1>1, <1>2 DEF TokensInv, TokensSuitParser

(* A line is typed: there is no token yet.                                 *)
LEMMA TokensLineRead ==
  ASSUME NEW line \in Lines, lexer_init(line)
  PROVE  TokensInv'
<1>1. input' \in Seq(Chars) /\ tokens' = <<>>
  BY LexerAssumption DEF lexer_init
<1>2. tokens' \in Seq(Range(tokens')) /\ DOMAIN tokens' = {}
  BY <1>1
<1> QED BY <1>1, <1>2 DEF TokensInv, TokensSuitParser

(* An operator is never a descriptor's number, so it may come anywhere.    *)
LEMMA TokensOperator ==
  ASSUME TokensInv, OperatorToken
  PROVE  TokensInv'
<1> DEFINE from == TokenStart
           type == operator_type(Char(from), DoublesAt(from))
<1>1. /\ phase = "next_token" /\ phase' = phase /\ input' = input
      /\ Char(from) \in is_meta_char
      /\ \E to : tokens' = Append(tokens, [type |-> type, from |-> from, to |-> to, parts |-> <<>>])
  BY DEF OperatorToken, Returns
<1>2. /\ type \in {"or", "pipe", "and", "bg", "redir", "semi"}
      /\ Char(from) \in {">", "<"} => type = "redir"
  BY <1>1 DEF operator_type, is_meta_char
<1> HIDE DEF type
<1>3. type \in Parsing!token_type_e
  BY <1>2 DEF Parsing!token_type_e
<1>4. tokens # <<>> =>
        type \in Parsing!TokensAfter([i \in 1 .. Len(tokens) |-> tokens[i].type])
  BY <1>1, <1>2, <1>3, AnyTokenFollows, RedirectionFollows
<1>5. PICK to : tokens' = Append(tokens, [type |-> type, from |-> from, to |-> to, parts |-> <<>>])
  BY <1>1
<1>6. PICK token : token = [type |-> type, from |-> from, to |-> to, parts |-> <<>>]
  OBVIOUS
<1>7. token.type = type /\ tokens' = Append(tokens, token)
  BY <1>5, <1>6
<1>8. /\ tokens' \in Seq(Range(tokens'))
      /\ TokensSuitParser'
      /\ tokens'[Len(tokens')] = token
  BY <1>3, <1>4, <1>7, NewToken
<1>9. input' \in Seq(Chars)
  BY <1>1 DEF TokensInv
<1> QED BY <1>2, <1>7, <1>8, <1>9 DEF TokensInv

(* The end of the line is returned once, and not behind a number.          *)
LEMMA TokensEndOfLine ==
  ASSUME TokensInv, EndOfLine
  PROVE  TokensInv'
<1>1. /\ phase = "next_token" /\ phase' = "parsed" /\ input' = input
      /\ Char(TokenStart) \notin {">", "<"}
      /\ \E token : token.type = "eof" /\ tokens' = Append(tokens, token)
  BY DEF EndOfLine, Returns, NUL
<1>2. PICK token : token.type = "eof" /\ tokens' = Append(tokens, token)
  BY <1>1
<1>3. /\ token.type \in Parsing!token_type_e
      /\ tokens # <<>> =>
           token.type \in Parsing!TokensAfter([i \in 1 .. Len(tokens) |-> tokens[i].type])
  BY <1>1, <1>2, AnyTokenFollows DEF Parsing!token_type_e
<1>4. /\ tokens' \in Seq(Range(tokens'))
      /\ TokensSuitParser'
      /\ tokens'[Len(tokens')] = token
  BY <1>2, <1>3, NewToken
<1>5. input' \in Seq(Chars)
  BY <1>1 DEF TokensInv
<1> QED BY <1>1, <1>2, <1>4, <1>5 DEF TokensInv

(* A word counts as a descriptor only if its redirection is next.          *)
LEMMA TokensEndWord ==
  ASSUME TokensInv, EndWord
  PROVE  TokensInv'
<1>1. /\ phase = "word" /\ phase' = "next_token" /\ input' = input /\ pos' = pos
      /\ \E token : /\ token.type = word_type(Text(start, pos))
                    /\ tokens' = Append(tokens, token)
  BY DEF EndWord, Returns
<1>2. PICK token : /\ token.type = word_type(Text(start, pos))
                   /\ tokens' = Append(tokens, token)
  BY <1>1
<1>3. /\ token.type \in {"word", "fd"}
      /\ token.type = "fd" => Char(pos) \in {">", "<"}
  BY <1>2 DEF word_type
<1>4. /\ token.type \in Parsing!token_type_e
      /\ tokens # <<>> =>
           token.type \in Parsing!TokensAfter([i \in 1 .. Len(tokens) |-> tokens[i].type])
  BY <1>1, <1>3, AnyTokenFollows DEF Parsing!token_type_e
<1>5. /\ tokens' \in Seq(Range(tokens'))
      /\ TokensSuitParser'
      /\ tokens'[Len(tokens')] = token
  BY <1>2, <1>4, NewToken
<1>6. Char(pos)' = Char(pos)
  BY <1>1 DEF Char
<1>7. input' \in Seq(Chars)
  BY <1>1 DEF TokensInv
<1> QED BY <1>1, <1>3, <1>5, <1>6, <1>7 DEF TokensInv

(* All the other steps add no token.                                       *)
LEMMA TokensKept ==
  ASSUME TokensInv, UNCHANGED <<input, tokens>>,
         \/ phase = "next_token" /\ Char(TokenStart) \notin {">", "<"}
         \/ phase = "word"
         \/ phase \in {"parsed", "expand"} /\ phase' \in {"expand", "exited"}
  PROVE  TokensInv'
<1>1. /\ input' \in Seq(Chars)
      /\ tokens' \in Seq(Range(tokens'))
      /\ TokensSuitParser'
      /\ Len(tokens') = Len(tokens)
  BY DEF TokensInv, TokensSuitParser
<1>2. CASE phase \in {"next_token", "word"}
  <2>1. tokens # <<>> => tokens[Len(tokens)].type \notin {"fd", "eof"}
    BY <1>2, LastToken
  <2> QED BY <1>1, <2>1 DEF TokensInv
<1>3. CASE phase \in {"parsed", "expand"} /\ phase' \in {"expand", "exited"}
  BY <1>1, <1>3 DEF TokensInv
<1> QED BY <1>2, <1>3

(* A word begins: no token is returned.                                    *)
LEMMA TokensStartWord ==
  ASSUME TokensInv, StartWord
  PROVE  TokensInv'
<1>1. /\ phase = "next_token" /\ UNCHANGED <<input, tokens>>
      /\ Char(TokenStart) \notin {">", "<"}
  BY DEF StartWord, is_meta_char
<1> QED BY <1>1, TokensKept

(* A part of a word is read: no token is returned.                         *)
LEMMA TokensPart ==
  ASSUME TokensInv, lex_next_word_part
  PROVE  TokensInv'
<1>1. phase = "word" /\ UNCHANGED <<input, tokens>>
  BY DEF lex_next_word_part, Quote, Variable, VariableCrashes, Tilde, Glob, Literal, InWord
<1> QED BY <1>1, TokensKept

(* Every step keeps what is said of the tokens.                            *)
LEMMA TokensStep == TokensInv /\ [Next]_vars => TokensInv'
<1> SUFFICES ASSUME TokensInv, [Next]_vars PROVE TokensInv'
  OBVIOUS
<1>1. CASE phase = "prompt" /\ \E line \in Lines : lexer_init(line)
  BY <1>1, TokensLineRead
<1>2. CASE OperatorToken
  BY <1>2, TokensOperator
<1>3. CASE EndOfLine
  BY <1>3, TokensEndOfLine
<1>4. CASE StartWord
  BY <1>4, TokensStartWord
<1>5. CASE EndWord
  BY <1>5, TokensEndWord
<1>6. CASE lex_next_word_part
  BY <1>6, TokensPart
<1>7. CASE parse_command \/ MalformedRedirection
  <2>1. /\ phase = "parsed" /\ phase' \in {"expand", "exited"}
        /\ UNCHANGED <<input, tokens>>
    BY <1>7 DEF parse_command, MalformedRedirection
  <2> QED BY <2>1, TokensKept
<1>8. CASE Expands
  <2>1. phase = "expand" /\ phase' = "expand" /\ UNCHANGED <<input, tokens>>
    BY <1>8 DEF Expands, lexVars
  <2> QED BY <2>1, TokensKept
<1>9. CASE UNCHANGED vars
  BY <1>9 DEF vars, lexVars, TokensInv, TokensSuitParser, Char
<1> QED BY <1>1, <1>2, <1>3, <1>4, <1>5, <1>6, <1>7, <1>8, <1>9
     DEF Next, LexNext, lexer_next_token

(* The lexer gives the parser tokens as CommandLine assumes them: whatever *)
(* the line, a number taken for a descriptor has a redirection behind it,  *)
(* and after the end of the line there is nothing.                         *)
THEOREM TokensSuit == Spec => []TokensSuitParser
<1>1. TokensInv => TokensSuitParser
  BY DEF TokensInv
<1> QED BY <1>1, TokensInit, TokensStep, PTL DEF Spec

-----------------------------------------------------------------------------
(* The crash *)

LEMMA BraceIsNotNul == OpenBrace # NUL
BY Zenon DEF OpenBrace, NUL

(* A name whose length is below 0 is one behind a brace, without the brace *)
(* that closes it and without a character of its own.                      *)
LEMMA NegativeLength ==
  ASSUME input \in Seq(Chars), Char(pos) = "$", handle_variable_word_part.len < 0
  PROVE  \E brace, name \in Nat :
           /\ pos \in Nat /\ brace = pos + 1 /\ name = pos + 2
           /\ name <= Len(input)
           /\ Char(brace) = OpenBrace
           /\ Char(name) \notin is_special_parameter_char
           /\ Char(name) \notin is_name_char
           /\ Char(name) # CloseBrace
<1>1. PICK size \in Nat : size = Len(input)
  OBVIOUS
<1>2. pos \in Nat /\ pos < size
  <2>1. pos \in 0 .. Len(input) - 1
    BY CharOnLine DEF NUL
  <2> QED BY <1>1, <2>1
<1>3. PICK from \in Nat : from = pos + 1 /\ from <= size
  BY <1>1, <1>2
<1>4. PICK name \in Nat : name = from + (IF Char(from) = OpenBrace THEN 1 ELSE 0)
  BY <1>3
<1>5. Char(from) = OpenBrace => from < size
  <2>1. Char(from) = OpenBrace => from \in 0 .. Len(input) - 1
    BY BraceIsNotNul, CharOnLine
  <2> QED BY <1>1, <2>1
<1>6. name <= size
  BY <1>1, <1>3, <1>4, <1>5
<1>7. PICK end : end = RunEnd(name, is_name_char)
  OBVIOUS
<1>8. /\ end \in Nat /\ name <= end
      /\ Char(name) \in is_name_char => end > name
  <2>1. NUL \notin is_name_char
    BY DEF NUL, is_name_char, Alpha, Digits
  <2>2. name \in 0 .. Len(input)
    BY <1>1, <1>6
  <2>3. /\ end \in name .. Len(input)
        /\ Char(name) \in is_name_char => end > name
    BY <1>7, <2>1, <2>2, RunEndsBehind
  <2> QED BY <1>1, <2>3
<1>9. /\ ~IsSpecial(name, Char(from) = OpenBrace)
      /\ (IF Char(from) = OpenBrace /\ Char(end) = CloseBrace THEN end + 1 ELSE end)
           - from - 2 * (IF Char(from) = OpenBrace THEN 1 ELSE 0) < 0
  BY <1>3, <1>4, <1>7 DEF handle_variable_word_part
<1>10. Char(from) = OpenBrace /\ Char(end) # CloseBrace /\ end = name
  BY <1>3, <1>4, <1>8, <1>9
<1>11. name = pos + 2
  BY <1>2, <1>3, <1>4, <1>10
<1> QED BY <1>1, <1>2, <1>3, <1>6, <1>8, <1>9, <1>10, <1>11 DEF IsSpecial

(* Such a brace is never closed, whatever follows on the line.             *)
LEMMA BraceIsOpen ==
  ASSUME input \in Seq(Chars), NEW brace \in Nat, NEW name \in Nat,
         name = brace + 1, name <= Len(input),
         Char(name) \notin is_special_parameter_char,
         Char(name) \notin is_name_char,
         Char(name) # CloseBrace
  PROVE  ~IsClosed(name)
<1>1. PICK size \in Nat : size = Len(input)
  OBVIOUS
<1>2. ASSUME NEW e \in name + 1 .. Len(input), input[e] = CloseBrace,
             \/ \A i \in name + 1 .. e - 1 : input[i] \in is_name_char
             \/ e = name + 2 /\ input[name + 1] \in is_special_parameter_char
      PROVE  FALSE
  <2>1. e \in Nat /\ name < e /\ e <= size
    BY <1>1, <1>2
  <2>2. Char(name) = input[name + 1]
    BY <1>1, <2>1 DEF Char
  <2>3. e # name + 1
    BY <1>2, <2>2
  <2>4. name + 1 \in name + 1 .. e - 1
    BY <2>1, <2>3
  <2> QED BY <1>2, <2>2, <2>4
<1> QED BY <1>2 DEF IsClosed

CrashInv == input \in Seq(Chars) /\ CrashNeedsOpenBrace

(* Only a variable can crash the lexer, by the length of its name.         *)
LEMMA CrashStep == CrashInv /\ [Next]_vars => CrashInv'
<1> SUFFICES ASSUME CrashInv, [Next]_vars PROVE CrashInv'
  OBVIOUS
<1>1. CASE phase = "prompt" /\ \E line \in Lines : lexer_init(line)
  BY <1>1, LexerAssumption DEF lexer_init, CrashInv, CrashNeedsOpenBrace
<1>2. CASE VariableCrashes
  <2>1. Char(pos) = "$" /\ handle_variable_word_part.len < 0 /\ input' = input
    BY <1>2 DEF VariableCrashes, IsVariable
  <2>2. input \in Seq(Chars)
    BY DEF CrashInv
  <2>3. PICK brace \in Nat, name \in Nat :
             /\ pos \in Nat /\ brace = pos + 1 /\ name = pos + 2
             /\ name <= Len(input)
             /\ Char(brace) = OpenBrace
             /\ Char(name) \notin is_special_parameter_char
             /\ Char(name) \notin is_name_char
             /\ Char(name) # CloseBrace
    BY <2>1, <2>2, NegativeLength
  <2>4. name \in 2 .. Len(input) /\ name = brace + 1
    BY <2>2, <2>3
  <2>5. input[name - 1] = "$" /\ input[name] = OpenBrace /\ ~IsClosed(name)
    <3>1. Char(pos) = input[pos + 1] /\ Char(brace) = input[brace + 1]
      <4>1. Char(pos) # NUL /\ Char(brace) # NUL
        BY <2>1, <2>3, BraceIsNotNul DEF NUL
      <4> QED BY <2>2, <4>1, CharOnLine
    <3>2. ~IsClosed(name)
      BY <2>2, <2>3, <2>4, BraceIsOpen
    <3>3. pos + 1 = name - 1 /\ brace + 1 = name
      BY <2>3
    <3> QED BY <2>1, <2>3, <3>1, <3>2, <3>3
  <2>6. CrashNeedsOpenBrace'
    BY <2>1, <2>4, <2>5 DEF CrashNeedsOpenBrace, IsClosed
  <2> QED BY <2>1, <2>2, <2>6 DEF CrashInv
<1>3. CASE \/ lexer_next_token
           \/ Quote \/ Variable \/ Tilde \/ Glob \/ Literal
           \/ parse_command \/ MalformedRedirection \/ Expands
  <2>1. input' = input /\ phase' # "crashed"
    BY <1>3 DEF lexer_next_token, OperatorToken, EndOfLine, StartWord, EndWord,
                Quote, Variable, Tilde, Glob, Literal, InWord, parse_command,
                MalformedRedirection, Expands, lexVars
  <2> QED BY <2>1 DEF CrashInv, CrashNeedsOpenBrace
<1>4. CASE UNCHANGED vars
  BY <1>4 DEF vars, lexVars, CrashInv, CrashNeedsOpenBrace, IsClosed
<1> QED BY <1>1, <1>2, <1>3, <1>4 DEF Next, LexNext, lex_next_word_part

(* The length of a name is below 0, and the copy of it runs away, only     *)
(* where a ${ is not closed.                                               *)
THEOREM CrashIsAtOpenBrace == Spec => []CrashNeedsOpenBrace
<1>1. Init => CrashInv
  BY DEF Init, LexInit, CrashInv, CrashNeedsOpenBrace
<1>2. CrashInv => CrashNeedsOpenBrace
  BY DEF CrashInv
<1> QED BY <1>1, <1>2, CrashStep, PTL DEF Spec

-----------------------------------------------------------------------------
(* How the reader goes on *)

Going(mode, k) == IF k = 0 THEN "blank" ELSE Reader(mode[k - 1], input[k])
Reading(mode, n) == mode = [k \in 0 .. n |-> Going(mode, k)]

(* If the reader's mode is defined behind n characters it is behind n + 1. *)
LEMMA ReadsOn ==
  ASSUME NEW n \in Nat, NEW mode, Reading(mode, n)
  PROVE  \E longer : Reading(longer, n + 1)
<1> DEFINE longer == [k \in 0 .. n + 1 |-> IF k <= n THEN mode[k] ELSE Going(mode, k)]
<1>1. ASSUME NEW k \in 0 .. n + 1 PROVE longer[k] = Going(longer, k)
  <2>1. k # 0 => longer[k - 1] = mode[k - 1]
    OBVIOUS
  <2>2. Going(longer, k) = Going(mode, k)
    BY <2>1 DEF Going
  <2>3. k <= n => mode[k] = Going(mode, k)
    BY DEF Reading
  <2> QED BY <2>2, <2>3
<1>2. longer = [k \in 0 .. n + 1 |-> Going(longer, k)]
  BY <1>1
<1> QED BY <1>2 DEF Reading

(* So it is for every n, since there is no smallest one for which it is not. *)
LEMMA ReaderReads == \A n \in Nat : \E mode : Reading(mode, n)
<1> DEFINE stuck == {n \in Nat : ~\E mode : Reading(mode, n)}
<1>1. ASSUME stuck # {} PROVE FALSE
  <2>1. PICK n \in stuck : \A k \in stuck : n <= k
    BY <1>1, SmallestMember
  <2>2. CASE n = 0
    <3> DEFINE first == [k \in 0 .. 0 |-> "blank"]
    <3>1. first = [k \in 0 .. 0 |-> Going(first, k)]
      BY DEF Going
    <3> QED BY <2>1, <2>2, <3>1 DEF Reading
  <2>3. CASE n # 0
    <3>1. n - 1 \in Nat /\ n - 1 \notin stuck /\ (n - 1) + 1 = n
      BY <2>1, <2>3
    <3> QED BY <2>1, <3>1, ReadsOn
  <2> QED BY <2>2, <2>3
<1> QED BY <1>1

(* The reader's mode behind a character is made of the one before it.      *)
LEMMA ReaderGoesOn ==
  ASSUME input \in Seq(Chars)
  PROVE  /\ ReaderAt(0) = "blank"
         /\ \A p \in 0 .. Len(input) - 1 : ReaderAt(p + 1) = Reader(ReaderAt(p), Char(p))
<1> DEFINE mode == CHOOSE f : Reading(f, Len(input))
<1>1. Len(input) \in Nat
  OBVIOUS
<1>2. Reading(mode, Len(input))
  BY <1>1, ReaderReads
<1>3. ASSUME NEW i PROVE ReaderAt(i) = mode[i]
  BY Zenon DEF ReaderAt, Reading, Going
<1> HIDE DEF mode
<1>4. ASSUME NEW k \in 0 .. Len(input) PROVE mode[k] = Going(mode, k)
  BY <1>2 DEF Reading
<1>5. ReaderAt(0) = "blank"
  BY <1>1, <1>3, <1>4 DEF Going
<1>6. ASSUME NEW p \in 0 .. Len(input) - 1
      PROVE  ReaderAt(p + 1) = Reader(ReaderAt(p), Char(p))
  <2>1. p + 1 \in 0 .. Len(input) /\ p + 1 # 0 /\ (p + 1) - 1 = p /\ Char(p) = input[p + 1]
    BY <1>1 DEF Char
  <2>2. mode[p + 1] = Reader(mode[p], input[p + 1])
    BY <1>4, <2>1 DEF Going
  <2> QED BY <1>3, <2>1, <2>2
<1> QED BY <1>5, <1>6

-----------------------------------------------------------------------------
(* A literal *)

LiteralNext(p) ==
  IF Escapes(quote_ctx) /\ Char(p) = "\\" THEN Min({p + 2, Len(input)}) ELSE p + 1

LiteralText(p) ==
  IF Escapes(quote_ctx) /\ Char(p) = "\\" THEN handle_escape(Char(p + 1)) ELSE <<Char(p)>>

LiteralRest(rest, p) ==
  IF Char(p) \in LiteralEnds(quote_ctx) THEN [to |-> p, value |-> <<>>]
  ELSE [rest[LiteralNext(p)] EXCEPT !.value = LiteralText(p) \o @]

LiteralFrom(rest, p) == rest = [q \in p .. Len(input) |-> LiteralRest(rest, q)]

(* A literal that has not ended goes on at a later place of the line.      *)
LEMMA LiteralGoesOn ==
  ASSUME input \in Seq(Chars), NEW p \in 0 .. Len(input), Char(p) \notin LiteralEnds(quote_ctx)
  PROVE  p < Len(input) /\ LiteralNext(p) \in p + 1 .. Len(input)
<1>1. Char(p) # NUL
  BY DEF LiteralEnds
<1>2. p < Len(input) /\ Len(input) \in Nat
  BY <1>1, CharOnLine
<1>3. Min({p + 2, Len(input)}) \in {p + 2, Len(input)}
      /\ Min({p + 2, Len(input)}) <= Len(input)
  <2>1. {p + 2, Len(input)} \in SUBSET Nat /\ {p + 2, Len(input)} # {}
    BY <1>2
  <2>2. CASE p + 2 <= Len(input)
    <3>1. Min({p + 2, Len(input)}) = p + 2
      BY <1>2, <2>1, <2>2, MinIs
    <3> QED BY <2>2, <3>1
  <2>3. CASE p + 2 > Len(input)
    <3>1. Min({p + 2, Len(input)}) = Len(input)
      BY <1>2, <2>1, <2>3, MinIs
    <3> QED BY <1>2, <3>1
  <2> QED BY <1>2, <2>2, <2>3
<1> QED BY <1>2, <1>3 DEF LiteralNext

(* What a literal is from some place on depends on what is behind it only. *)
LEMMA SameRest ==
  ASSUME input \in Seq(Chars), NEW p \in 0 .. Len(input), NEW f, NEW g,
         \A q \in p + 1 .. Len(input) : f[q] = g[q]
  PROVE  LiteralRest(f, p) = LiteralRest(g, p)
<1>1. CASE Char(p) \in LiteralEnds(quote_ctx)
  BY <1>1 DEF LiteralRest
<1>2. CASE Char(p) \notin LiteralEnds(quote_ctx)
  <2>1. f[LiteralNext(p)] = g[LiteralNext(p)]
    BY <1>2, LiteralGoesOn
  <2> QED BY <1>2, <2>1, Zenon DEF LiteralRest
<1> QED BY <1>1, <1>2

(* What is left of a literal from q on is found from what is left after it. *)
LEMMA LiteralReadsOn ==
  ASSUME input \in Seq(Chars), NEW p \in 1 .. Len(input), NEW rest, LiteralFrom(rest, p)
  PROVE  \E longer : LiteralFrom(longer, p - 1)
<1> DEFINE longer == [q \in p - 1 .. Len(input) |->
                        IF q >= p THEN rest[q] ELSE LiteralRest(rest, q)]
<1>1. ASSUME NEW q \in p - 1 .. Len(input) PROVE longer[q] = LiteralRest(longer, q)
  <2>1. \A r \in q + 1 .. Len(input) : longer[r] = rest[r]
    OBVIOUS
  <2>2. LiteralRest(longer, q) = LiteralRest(rest, q)
    <3>1. q \in 0 .. Len(input)
      OBVIOUS
    <3> HIDE DEF longer
    <3> QED BY <2>1, <3>1, SameRest
  <2>3. q >= p => rest[q] = LiteralRest(rest, q)
    BY DEF LiteralFrom
  <2> QED BY <2>2, <2>3
<1>2. longer = [q \in p - 1 .. Len(input) |-> LiteralRest(longer, q)]
  BY <1>1
<1> QED BY <1>2 DEF LiteralFrom

(* So the function exists, from the end of the line down to any p.         *)
LEMMA LiteralReads ==
  ASSUME input \in Seq(Chars), NEW p \in 0 .. Len(input)
  PROVE  \E rest : LiteralFrom(rest, p)
<1> DEFINE stuck == {n \in Nat : n <= Len(input) /\ ~\E rest : LiteralFrom(rest, Len(input) - n)}
<1>1. Len(input) \in Nat /\ Char(Len(input)) = NUL
  BY DEF Char
<1>2. ASSUME stuck # {} PROVE FALSE
  <2>1. PICK n \in stuck : \A k \in stuck : n <= k
    BY <1>2, SmallestMember
  <2>2. CASE n = 0
    <3> DEFINE first == [q \in Len(input) .. Len(input) |-> [to |-> q, value |-> <<>>]]
    <3>1. NUL \in LiteralEnds(quote_ctx)
      BY DEF LiteralEnds
    <3>2. ASSUME NEW q \in Len(input) .. Len(input)
          PROVE  LiteralRest(first, q) = [to |-> q, value |-> <<>>]
      BY <1>1, <3>1 DEF LiteralRest
    <3>3. first = [q \in Len(input) .. Len(input) |-> LiteralRest(first, q)]
      BY <3>2
    <3> HIDE DEF first
    <3>4. LiteralFrom(first, Len(input))
      BY <3>3 DEF LiteralFrom
    <3>5. Len(input) - n = Len(input)
      BY <1>1, <2>2
    <3> QED BY <2>1, <3>4, <3>5
  <2>3. CASE n # 0
    <3>1. n - 1 \in Nat /\ n - 1 \notin stuck
      BY <2>1, <2>3
    <3>2. PICK rest : LiteralFrom(rest, Len(input) - (n - 1))
      BY <1>1, <2>1, <3>1
    <3>3. Len(input) - (n - 1) \in 1 .. Len(input)
          /\ (Len(input) - (n - 1)) - 1 = Len(input) - n
      BY <1>1, <2>1, <2>3
    <3>4. \E longer : LiteralFrom(longer, Len(input) - n)
      BY <3>2, <3>3, LiteralReadsOn
    <3> QED BY <2>1, <3>4
  <2> QED BY <2>2, <2>3
<1>3. Len(input) - p \in Nat /\ Len(input) - p <= Len(input) /\ Len(input) - (Len(input) - p) = p
  BY <1>1
<1> QED BY <1>2, <1>3

(* handle_literal, one character at a time.                                *)
LEMMA LiteralUnfolds ==
  ASSUME input \in Seq(Chars), pos \in 0 .. Len(input)
  PROVE  \E rest : /\ handle_literal = rest[pos]
                   /\ \A q \in pos .. Len(input) : rest[q] = LiteralRest(rest, q)
<1> DEFINE rest == CHOOSE f : LiteralFrom(f, pos)
<1>1. LiteralFrom(rest, pos)
  BY LiteralReads
<1>2. handle_literal = rest[pos]
  BY Zenon DEF handle_literal, LiteralFrom, LiteralRest, LiteralNext, LiteralText
<1> HIDE DEF rest
<1>3. \A q \in pos .. Len(input) : rest[q] = LiteralRest(rest, q)
  BY <1>1 DEF LiteralFrom
<1> QED BY <1>2, <1>3

-----------------------------------------------------------------------------
(* Where the reader is *)

Outside == {"blank", "operator", "word"}

(* Characters without a meaning between words, or in double quotes.        *)
Plain == Chars \ (Blank \cup Quotes \cup is_meta_char \cup {"[", "\\"})

(* Outside of quotes the reader looks at each character.                   *)
LEMMA ReadOutside ==
  ASSUME NEW mode \in Outside, NEW c
  PROVE  /\ c \in Plain => Reader(mode, c) = "word"
         /\ c \in Blank => Reader(mode, c) = "blank"
         /\ c \in is_meta_char => Reader(mode, c) = "operator"
         /\ c \in Quotes \cup {"["} => Reader(mode, c) = c
         /\ c = "\\" => Reader(mode, c) = "escape"
BY DEF Outside, Reader, Plain, Blank, Quotes, is_meta_char

(* Inside of quotes only their own end and, in double quotes, a backslash  *)
(* mean anything to the reader.                                            *)
LEMMA ReadInside ==
  ASSUME NEW c
  PROVE  /\ Reader("'", c) = IF c = "'" THEN "word" ELSE "'"
         /\ c \notin {"\"", "\\"} => Reader("\"", c) = "\""
         /\ Reader("\"", "\"") = "word"
         /\ Reader("\"", "\\") = "quoted escape"
         /\ Reader("quoted escape", c) = "\""
         /\ Reader("escape", c) = "word"
         /\ Reader("[", c) = IF c = "]" THEN "word" ELSE "["
BY DEF Reader

Base(mode) == IF quote_ctx = "none" THEN mode \in Outside ELSE mode = quote_ctx

(* Where a part of a word may end. *)
Arrives(p) == Base(ReaderAt(p)) \/ p = Len(input)

InWords(from, to) == \A i \in from + 1 .. to : ReaderAt(i) \notin {"blank", "operator"}

(* No two of the reader's modes are the same string.                       *)
LEMMA ModesDiffer ==
  /\ \A q \in Quotes : q \notin {"blank", "operator"} /\ q # "none"
  /\ "word" \notin {"blank", "operator"}
  /\ "escape" \notin {"blank", "operator"}
  /\ "quoted escape" \notin {"blank", "operator"}
  /\ "[" \notin {"blank", "operator"}
BY DEF Quotes

(* One character of a literal, or two, keep the reader where he is.        *)
LEMMA LiteralStep ==
  ASSUME input \in Seq(Chars), quote_ctx \in Quotes \cup {"none"},
         NEW p \in 0 .. Len(input), Char(p) \notin LiteralEnds(quote_ctx),
         Arrives(p)
  PROVE  Arrives(LiteralNext(p)) /\ InWords(p, LiteralNext(p))
<1>1. p < Len(input) /\ LiteralNext(p) \in p + 1 .. Len(input) /\ Len(input) \in Nat
  BY LiteralGoesOn
<1>2. Base(ReaderAt(p)) /\ ReaderAt(p + 1) = Reader(ReaderAt(p), Char(p)) /\ Char(p) \in Chars
  <2>1. p \in 0 .. Len(input) - 1
    BY <1>1
  <2>2. Char(p) = input[p + 1] /\ input[p + 1] \in Chars
    BY <2>1 DEF Char
  <2>3. p # Len(input)
    BY <1>1
  <2> QED BY <2>1, <2>2, <2>3, ReaderGoesOn DEF Arrives
<1>3. CASE ~(Escapes(quote_ctx) /\ Char(p) = "\\")
  <2>1. LiteralNext(p) = p + 1
    BY <1>3 DEF LiteralNext
  <2>2. CASE quote_ctx = "none"
    <3>1. Char(p) \in Plain /\ ReaderAt(p) \in Outside
      BY <1>2, <1>3, <2>2 DEF Plain, LiteralEnds, Escapes, is_glob_char, Base
    <3>2. ReaderAt(p + 1) = "word"
      BY <1>2, <3>1, ReadOutside
    <3>3. Base(ReaderAt(p + 1))
      BY <2>2, <3>2 DEF Base, Outside
    <3>4. \A i \in p + 1 .. p + 1 : i = p + 1
      BY <1>1
    <3>5. InWords(p, p + 1)
      BY <3>2, <3>4 DEF InWords
    <3> QED BY <2>1, <3>3, <3>5 DEF Arrives
  <2>3. CASE quote_ctx \in Quotes
    <3>1. ReaderAt(p) = quote_ctx
      BY <1>2, <2>3, ModesDiffer DEF Base
    <3>2. ReaderAt(p + 1) = quote_ctx
      <4>1. CASE quote_ctx = "'"
        <5>1. Char(p) # "'"
          BY <4>1 DEF LiteralEnds
        <5>2. ReaderAt(p + 1) = Reader("'", Char(p))
          BY <1>2, <3>1, <4>1
        <5> QED BY <4>1, <5>1, <5>2, ReadInside
      <4>2. CASE quote_ctx = "\""
        <5>1. Char(p) \notin {"\"", "\\"}
          BY <1>3, <4>2 DEF LiteralEnds, Escapes
        <5>2. ReaderAt(p + 1) = Reader("\"", Char(p))
          BY <1>2, <3>1, <4>2
        <5> QED BY <4>2, <5>1, <5>2, ReadInside
      <4> QED BY <2>3, <4>1, <4>2 DEF Quotes
    <3>3. InWords(p, p + 1)
      BY <1>1, <2>3, <3>2, ModesDiffer DEF InWords
    <3>4. Base(ReaderAt(p + 1))
      BY <2>3, <3>2, ModesDiffer DEF Base
    <3> QED BY <2>1, <3>3, <3>4 DEF Arrives
  <2> QED BY <2>2, <2>3
<1>4. CASE Escapes(quote_ctx) /\ Char(p) = "\\"
  <2>1. PICK after, base : /\ ReaderAt(p + 1) = after
                           /\ after \notin {"blank", "operator"}
                           /\ base \notin {"blank", "operator"}
                           /\ \A c : Reader(after, c) = base
                           /\ Base(base)
    <3>1. CASE quote_ctx = "none"
      <4>1. ReaderAt(p) \in Outside
        BY <1>2, <3>1 DEF Base
      <4>2. ReaderAt(p + 1) = "escape"
        BY <1>2, <1>4, <4>1, ReadOutside
      <4>3. "word" \in Outside
        BY DEF Outside
      <4> QED BY <3>1, <4>2, <4>3, ReadInside, ModesDiffer DEF Base
    <3>2. CASE quote_ctx = "\""
      <4>1. ReaderAt(p) = "\""
        BY <1>2, <3>2 DEF Base
      <4>2. ReaderAt(p + 1) = Reader("\"", "\\")
        BY <1>2, <1>4, <4>1
      <4>3. ReaderAt(p + 1) = "quoted escape"
        BY <4>2, ReadInside
      <4> QED BY <3>2, <4>3, ReadInside, ModesDiffer DEF Base
    <3> QED BY <1>4, <3>1, <3>2 DEF Escapes, Quotes
  <2>2. LiteralNext(p) = Min({p + 2, Len(input)})
    BY <1>4 DEF LiteralNext
  <2>3. CASE p + 2 <= Len(input)
    <3>1. LiteralNext(p) = p + 2
      BY <1>1, <2>2, <2>3, MinIs
    <3>2. ReaderAt(p + 2) = base
      <4>1. p + 1 \in 0 .. Len(input) - 1 /\ (p + 1) + 1 = p + 2
        BY <1>1, <2>3
      <4>2. ReaderAt(p + 2) = Reader(ReaderAt(p + 1), Char(p + 1))
        BY <4>1, ReaderGoesOn
      <4> QED BY <2>1, <4>2
    <3>3. \A i \in p + 1 .. p + 2 : i = p + 1 \/ i = p + 2
      BY <1>1
    <3>4. InWords(p, p + 2)
      BY <2>1, <3>2, <3>3 DEF InWords
    <3> QED BY <2>1, <3>1, <3>2, <3>4 DEF Arrives
  <2>4. CASE p + 2 > Len(input)
    <3>1. LiteralNext(p) = p + 1 /\ p + 1 = Len(input)
      BY <1>1, <2>2, <2>4
    <3>2. \A i \in p + 1 .. p + 1 : i = p + 1
      BY <1>1
    <3>3. InWords(p, p + 1)
      BY <2>1, <3>2 DEF InWords
    <3> QED BY <3>1, <3>3 DEF Arrives
  <2> QED BY <1>1, <2>3, <2>4
<1> QED BY <1>3, <1>4

(* The characters of a literal: those of the line, and what escapes stand for. *)
LiteralChars == Range(input) \cup {"control"}

(* What is read from p on as a literal, r, is sound.                       *)
SoundLiteral(r, p) ==
  /\ r \in [to : p .. Len(input), value : Seq(LiteralChars)]
  /\ Char(r.to) \in LiteralEnds(quote_ctx)
  /\ Arrives(p) => Arrives(r.to) /\ InWords(p, r.to)

(* What a character adds to a literal: itself, or what its escape stands for. *)
LEMMA LiteralTextIs ==
  ASSUME input \in Seq(Chars), NEW p \in 0 .. Len(input), Char(p) # NUL
  PROVE  LiteralText(p) \in Seq(LiteralChars)
<1>1. \A q : Char(q) \in Range(input) \cup {NUL}
  BY DEF Char, Range
<1>2. handle_escape(Char(p + 1)) \in Seq(LiteralChars)
  <2> DEFINE c == Char(p + 1)
  <2>1. c \in Range(input) \cup {NUL}
    BY <1>1
  <2> HIDE DEF c
  <2>2. <<"control">> \in Seq(LiteralChars) /\ <<>> \in Seq(LiteralChars)
    BY DEF LiteralChars
  <2>3. c # NUL => <<c>> \in Seq(LiteralChars)
    BY <2>1 DEF LiteralChars
  <2>4. handle_escape(c) \in Seq(LiteralChars)
    BY <2>2, <2>3 DEF handle_escape
  <2> QED BY <2>4 DEF c
<1>3. <<Char(p)>> \in Seq(LiteralChars)
  BY <1>1 DEF LiteralChars
<1> QED BY <1>2, <1>3 DEF LiteralText

(* Two stretches without blanks and operators make one.                    *)
LEMMA InWordsJoin ==
  ASSUME NEW a \in Nat, NEW b \in Nat, NEW c \in Nat, InWords(a, b), InWords(b, c)
  PROVE  InWords(a, c)
BY DEF InWords

(* One step of a literal: if what is left of it from any later place is read *)
(* right, so is what is left from here.                                    *)
LEMMA SoundStep ==
  ASSUME input \in Seq(Chars), quote_ctx \in Quotes \cup {"none"},
         NEW p \in 0 .. Len(input), NEW rest,
         \A q \in p + 1 .. Len(input) : SoundLiteral(rest[q], q)
  PROVE  SoundLiteral(LiteralRest(rest, p), p)
<1>1. CASE Char(p) \in LiteralEnds(quote_ctx)
  <2>1. LiteralRest(rest, p) = [to |-> p, value |-> <<>>]
    BY <1>1 DEF LiteralRest
  <2>2. InWords(p, p)
    BY DEF InWords
  <2> QED BY <1>1, <2>1, <2>2 DEF SoundLiteral
<1>2. CASE Char(p) \notin LiteralEnds(quote_ctx)
  <2> DEFINE next == LiteralNext(p)
             r == rest[next]
  <2>1. next \in p + 1 .. Len(input) /\ SoundLiteral(r, next)
    BY <1>2, LiteralGoesOn
  <2>2. LiteralRest(rest, p) = [r EXCEPT !.value = LiteralText(p) \o @]
    BY <1>2 DEF LiteralRest
  <2>3. LiteralText(p) \in Seq(LiteralChars)
    <3>1. Char(p) # NUL
      BY <1>2 DEF LiteralEnds
    <3> QED BY <3>1, LiteralTextIs
  <2>4. Arrives(p) => Arrives(next) /\ InWords(p, next)
    BY <1>2, LiteralStep
  <2> HIDE DEF next
  <2>5. r \in [to : next .. Len(input), value : Seq(LiteralChars)]
    BY <2>1 DEF SoundLiteral
  <2>6. /\ LiteralRest(rest, p).to = r.to
        /\ LiteralRest(rest, p) \in [to : p .. Len(input), value : Seq(LiteralChars)]
    <3>1. LiteralText(p) \o r.value \in Seq(LiteralChars)
      BY <2>3, <2>5
    <3>2. r.to \in p .. Len(input)
      BY <2>1, <2>5
    <3>3. LiteralRest(rest, p) = [to |-> r.to, value |-> LiteralText(p) \o r.value]
      BY <2>2, <2>5
    <3> QED BY <3>1, <3>2, <3>3
  <2>7. Arrives(p) => Arrives(r.to) /\ InWords(p, r.to)
    <3> SUFFICES ASSUME Arrives(p) PROVE Arrives(r.to) /\ InWords(p, r.to)
      OBVIOUS
    <3>1. Arrives(r.to) /\ InWords(p, next) /\ InWords(next, r.to)
      BY <2>1, <2>4 DEF SoundLiteral
    <3>2. p \in Nat /\ next \in Nat /\ r.to \in Nat
      BY <2>1, <2>5
    <3> QED BY <3>1, <3>2, InWordsJoin
  <2> QED BY <2>1, <2>6, <2>7 DEF SoundLiteral
<1> QED BY <1>1, <1>2

(* Wherever a literal ends the reader is where the lexer believes him to be: *)
(* if not, take the last p from which this goes wrong.                     *)
LEMMA LiteralIsSound ==
  ASSUME input \in Seq(Chars), quote_ctx \in Quotes \cup {"none"}, pos \in 0 .. Len(input)
  PROVE  SoundLiteral(handle_literal, pos)
<1>1. PICK rest : /\ handle_literal = rest[pos]
                  /\ \A q \in pos .. Len(input) : rest[q] = LiteralRest(rest, q)
  BY LiteralUnfolds
<1> DEFINE wrong == {n \in Nat : /\ n <= Len(input) - pos
                                 /\ ~SoundLiteral(rest[Len(input) - n], Len(input) - n)}
<1>2. ASSUME wrong # {} PROVE FALSE
  <2>1. PICK n \in wrong : \A k \in wrong : n <= k
    BY <1>2, SmallestMember
  <2> DEFINE p == Len(input) - n
  <2>2. p \in pos .. Len(input) /\ p \in 0 .. Len(input)
    BY <2>1
  <2>3. ASSUME NEW q \in p + 1 .. Len(input) PROVE SoundLiteral(rest[q], q)
    <3>1. /\ Len(input) - q \in Nat
          /\ Len(input) - q <= Len(input) - pos
          /\ Len(input) - q < n
          /\ Len(input) - (Len(input) - q) = q
      BY <2>1, <2>2
    <3> QED BY <2>1, <3>1
  <2>4. rest[p] = LiteralRest(rest, p)
    BY <1>1, <2>2
  <2>5. ~SoundLiteral(rest[p], p)
    BY <2>1
  <2> HIDE DEF p
  <2>6. SoundLiteral(LiteralRest(rest, p), p)
    BY <2>2, <2>3, SoundStep
  <2> QED BY <2>4, <2>5, <2>6
<1>3. /\ Len(input) - pos \in Nat
      /\ Len(input) - (Len(input) - pos) = pos
      /\ Len(input) - pos <= Len(input) - pos
  OBVIOUS
<1>4. Len(input) - pos \notin wrong
  BY <1>2
<1>5. SoundLiteral(rest[Len(input) - (Len(input) - pos)], Len(input) - (Len(input) - pos))
  BY <1>3, <1>4
<1>6. SoundLiteral(rest[pos], pos)
  BY <1>3, <1>5
<1> QED BY <1>1, <1>6

-----------------------------------------------------------------------------
(* The other parts *)

LEMMA PlainStep ==
  ASSUME input \in Seq(Chars), quote_ctx \in (Quotes \cup {"none"}) \ {"'"},
         NEW p \in 0 .. Len(input) - 1, Char(p) \in Plain, Arrives(p)
  PROVE  Arrives(p + 1) /\ InWords(p, p + 1)
<1>1. Base(ReaderAt(p)) /\ ReaderAt(p + 1) = Reader(ReaderAt(p), Char(p)) /\ p # Len(input)
  <2>1. p # Len(input)
    OBVIOUS
  <2> QED BY <2>1, ReaderGoesOn DEF Arrives
<1>2. \A i \in p + 1 .. p + 1 : i = p + 1
  OBVIOUS
<1>3. quote_ctx \in {"none", "\""}
  BY DEF Quotes
<1>4. CASE quote_ctx = "none"
  <2>1. ReaderAt(p + 1) = "word"
    <3>1. ReaderAt(p) \in Outside
      BY <1>1, <1>4 DEF Base
    <3> QED BY <1>1, <3>1, ReadOutside
  <2>2. Base(ReaderAt(p + 1))
    BY <1>4, <2>1 DEF Base, Outside
  <2>3. InWords(p, p + 1)
    BY <1>2, <2>1, ModesDiffer DEF InWords
  <2> QED BY <2>2, <2>3 DEF Arrives
<1>5. CASE quote_ctx = "\""
  <2>1. ReaderAt(p + 1) = Reader("\"", Char(p))
    BY <1>1, <1>5 DEF Base
  <2>2. Char(p) \notin {"\"", "\\"}
    BY DEF Plain, Quotes
  <2>3. ReaderAt(p + 1) = "\""
    BY <2>1, <2>2, ReadInside
  <2>4. Base(ReaderAt(p + 1))
    BY <1>5, <2>3 DEF Base
  <2>5. InWords(p, p + 1)
    BY <1>2, <2>3, ModesDiffer DEF InWords, Quotes
  <2> QED BY <2>4, <2>5 DEF Arrives
<1> QED BY <1>3, <1>4, <1>5

(* Over plain characters the reader stays in his word, or in his quotes.   *)
LEMMA PlainKeeps ==
  ASSUME input \in Seq(Chars), quote_ctx \in (Quotes \cup {"none"}) \ {"'"},
         NEW from \in 0 .. Len(input), NEW to \in from .. Len(input),
         \A p \in from .. to - 1 : Char(p) \in Plain,
         Arrives(from)
  PROVE  Arrives(to) /\ InWords(from, to)
<1> DEFINE Good(n) == Arrives(from + n) /\ InWords(from, from + n)
           wrong == {n \in Nat : n <= to - from /\ ~Good(n)}
<1>1. ASSUME wrong # {} PROVE FALSE
  <2>1. PICK n \in wrong : \A k \in wrong : n <= k
    BY <1>1, SmallestMember
  <2>2. CASE n = 0
    <3>1. from + 0 = from /\ InWords(from, from)
      BY DEF InWords
    <3> QED BY <2>1, <2>2, <3>1
  <2>3. CASE n # 0
    <3> DEFINE p == from + (n - 1)
    <3>1. n - 1 \in Nat /\ n - 1 \notin wrong /\ n - 1 <= to - from
      BY <2>1, <2>3
    <3>2. Arrives(p) /\ InWords(from, p)
      BY <3>1
    <3>3. p \in from .. to - 1 /\ p \in 0 .. Len(input) - 1 /\ p + 1 = from + n
      BY <2>1, <2>3
    <3> HIDE DEF p
    <3>4. Arrives(p + 1) /\ InWords(p, p + 1)
      BY <3>2, <3>3, PlainStep
    <3>5. InWords(from, p + 1)
      <4>1. from \in Nat /\ p \in Nat /\ p + 1 \in Nat
        BY <3>3
      <4> QED BY <3>2, <3>4, <4>1, InWordsJoin
    <3> QED BY <2>1, <3>3, <3>4, <3>5
  <2> QED BY <2>2, <2>3
<1>2. to - from \in Nat /\ to - from <= to - from /\ from + (to - from) = to
  OBVIOUS
<1>3. Good(to - from)
  BY <1>1, <1>2
<1> QED BY <1>2, <1>3

VariableChars == is_name_char \cup is_special_parameter_char \cup {OpenBrace, CloseBrace}

(* No character of a variable's name means anything to the reader.         *)
LEMMA NamesArePlain ==
  /\ VariableChars \subseteq Plain
  /\ is_name_char \cup {"-", "~"} \subseteq Plain
  /\ {"*", "?"} \subseteq Plain
  /\ NUL \notin VariableChars
  /\ NUL \notin is_name_char \cup {"-"}
  /\ NUL \notin Chars
BY DEF VariableChars, Plain, Chars, is_name_char, is_special_parameter_char, OpenBrace, CloseBrace,
       Blank, Quotes, is_meta_char, is_glob_char, Alpha, Digits, NUL

(* So a variable, with its braces, is read over as the lexer reads over it. *)
LEMMA VariableIsPlain ==
  ASSUME input \in Seq(Chars), pos \in 0 .. Len(input) - 1, Char(pos) = "$"
  PROVE  /\ handle_variable_word_part.to \in pos + 1 .. Len(input)
         /\ \A p \in pos .. handle_variable_word_part.to - 1 : Char(p) \in VariableChars
<1> DEFINE from == pos + 1
           curly == Char(from) = OpenBrace
           brace == IF curly THEN 1 ELSE 0
           name == from + brace
           is_special == IsSpecial(name, curly)
           name_end == IF is_special THEN name + 1 ELSE RunEnd(name, is_name_char)
           to == IF curly /\ Char(name_end) = CloseBrace THEN name_end + 1 ELSE name_end
<1>1. handle_variable_word_part.to = to
  BY DEF handle_variable_word_part
<1>2. \A p : Char(p) \in VariableChars => p \in 0 .. Len(input) - 1
  BY NamesArePlain, CharOnLine
<1>3. {OpenBrace, CloseBrace, "$"} \subseteq VariableChars
  BY DEF VariableChars, is_special_parameter_char
<1>4. from \in 1 .. Len(input) /\ name \in from .. Len(input)
      /\ \A p \in pos .. name - 1 : Char(p) \in VariableChars
  <2>1. from \in 1 .. Len(input)
    OBVIOUS
  <2>2. CASE curly
    <3>1. Char(from) \in VariableChars
      BY <1>3, <2>2
    <3>2. from \in 0 .. Len(input) - 1
      BY <1>2, <3>1
    <3>3. \A p \in pos .. name - 1 : p = pos \/ p = from
      BY <2>2
    <3> QED BY <1>3, <2>1, <2>2, <3>1, <3>2, <3>3
  <2>3. CASE ~curly
    <3>1. \A p \in pos .. name - 1 : p = pos
      BY <2>3
    <3> QED BY <1>3, <2>1, <2>3, <3>1
  <2> QED BY <2>2, <2>3
<1> HIDE DEF from, curly, name
<1>5. name_end \in name .. Len(input)
      /\ \A p \in name .. name_end - 1 : Char(p) \in VariableChars
  <2>1. CASE is_special
    <3>1. Char(name) \in VariableChars
      BY <2>1 DEF IsSpecial, VariableChars
    <3>2. name \in 0 .. Len(input) - 1
      BY <1>2, <3>1
    <3>3. \A p \in name .. name_end - 1 : p = name
      BY <2>1, <3>2
    <3> QED BY <2>1, <3>1, <3>2, <3>3
  <2>2. CASE ~is_special
    <3>1. NUL \notin is_name_char /\ name \in 0 .. Len(input)
      BY <1>4, NamesArePlain
    <3>2. /\ name_end \in name .. Len(input)
          /\ \A p \in name .. name_end - 1 : Char(p) \in is_name_char
      BY <2>2, <3>1, RunIs
    <3> QED BY <3>2 DEF VariableChars
  <2> QED BY <2>1, <2>2
<1> HIDE DEF name_end
<1>6. to \in name_end .. Len(input)
      /\ \A p \in name_end .. to - 1 : Char(p) \in VariableChars
  <2>1. CASE curly /\ Char(name_end) = CloseBrace
    <3>1. Char(name_end) \in VariableChars
      BY <1>3, <2>1
    <3>2. name_end \in 0 .. Len(input) - 1
      BY <1>2, <3>1
    <3>3. \A p \in name_end .. to - 1 : p = name_end
      BY <2>1, <3>2
    <3> QED BY <2>1, <3>1, <3>2, <3>3
  <2>2. CASE ~(curly /\ Char(name_end) = CloseBrace)
    BY <1>4, <1>5, <2>2
  <2> QED BY <2>1, <2>2
<1> HIDE DEF to
<1>7. to \in pos + 1 .. Len(input)
  BY <1>4, <1>5, <1>6 DEF from
<1>8. ASSUME NEW p \in pos .. to - 1 PROVE Char(p) \in VariableChars
  <2>1. p \in pos .. name - 1 \/ p \in name .. name_end - 1 \/ p \in name_end .. to - 1
    BY <1>4, <1>5, <1>6
  <2> QED BY <1>4, <1>5, <1>6, <2>1
<1> QED BY <1>1, <1>7, <1>8

(* A bracket that is closed ends where the reader ends it.                 *)
LEMMA BracketRead ==
  ASSUME input \in Seq(Chars), pos \in 0 .. Len(input) - 1, quote_ctx = "none",
         Char(pos) = "[", Arrives(pos),
         NEW e, e = RunEnd(pos, Chars \ {"]"})
  PROVE  /\ e \in pos + 1 .. Len(input)
         /\ InWords(pos, e)
         /\ e # Len(input) => Arrives(e + 1) /\ InWords(pos, e + 1)
<1>1. /\ e \in pos .. Len(input)
      /\ Char(e) \notin Chars \ {"]"}
      /\ \A q \in pos .. e - 1 : Char(q) \in Chars \ {"]"}
  <2>1. pos \in 0 .. Len(input) /\ NUL \notin Chars \ {"]"}
    BY NamesArePlain
  <2> QED BY <2>1, RunIs
<1>2. e # pos
  BY <1>1 DEF Chars, is_glob_char
<1>9. e \in Nat /\ pos \in Nat /\ pos + 1 <= e /\ e <= Len(input) /\ Len(input) \in Nat
  BY <1>1, <1>2
<1>3. ReaderAt(pos + 1) = "["
  <2>1. pos # Len(input)
    OBVIOUS
  <2>2. ReaderAt(pos) \in Outside
    BY <2>1 DEF Arrives, Base
  <2>3. "[" \in Quotes \cup {"["}
    OBVIOUS
  <2> QED BY <2>2, <2>3, ReadOutside, ReaderGoesOn
<1> DEFINE wrong == {n \in Nat : pos + 1 + n <= e /\ ReaderAt(pos + 1 + n) # "["}
<1>4. ASSUME wrong # {} PROVE FALSE
  <2>1. PICK n \in wrong : \A k \in wrong : n <= k
    BY <1>4, SmallestMember
  <2>2. n # 0
    BY <1>3, <2>1
  <2> DEFINE p == pos + 1 + (n - 1)
  <2>3. n - 1 \in Nat /\ n - 1 \notin wrong /\ p <= e
    <3>1. n \in Nat /\ pos + 1 + n <= e
      BY <2>1
    <3>2. n - 1 \in Nat /\ n - 1 < n /\ p <= e
      BY <1>9, <2>2, <3>1
    <3> HIDE DEF wrong, p
    <3>3. n - 1 \notin wrong
      BY <2>1, <3>1, <3>2
    <3> QED BY <3>2, <3>3
  <2>4. ReaderAt(p) = "["
    BY <2>3
  <2>5. p \in pos .. e - 1 /\ p \in 0 .. Len(input) - 1 /\ p + 1 = pos + 1 + n
    BY <1>1, <2>1, <2>2
  <2> HIDE DEF p
  <2>6. ReaderAt(p + 1) = Reader("[", Char(p)) /\ Char(p) # "]"
    BY <1>1, <2>4, <2>5, ReaderGoesOn
  <2>7. ReaderAt(p + 1) = "["
    BY <2>6, ReadInside
  <2> QED BY <2>1, <2>5, <2>7
<1>5. ASSUME NEW i \in pos + 1 .. e PROVE ReaderAt(i) = "["
  <2>1. i - (pos + 1) \in Nat /\ pos + 1 + (i - (pos + 1)) = i /\ i <= e
    BY <1>1
  <2>2. i - (pos + 1) \notin wrong
    BY <1>4
  <2> QED BY <2>1, <2>2
<1>6. InWords(pos, e)
  BY <1>5, ModesDiffer DEF InWords
<1>7. ASSUME e # Len(input) PROVE Arrives(e + 1) /\ InWords(pos, e + 1)
  <2>1. e \in 0 .. Len(input) - 1
    BY <1>1, <1>7
  <2>2. Char(e) = "]"
    BY <1>1, <2>1 DEF Char
  <2>3. ReaderAt(e + 1) = Reader("[", "]")
    <3>1. ReaderAt(e + 1) = Reader(ReaderAt(e), Char(e))
      BY <2>1, ReaderGoesOn
    <3>2. ReaderAt(e) = "["
      <4>1. e \in pos + 1 .. e
        BY <1>9
      <4> QED BY <1>5, <4>1
    <3> QED BY <2>2, <3>1, <3>2
  <2>4. ReaderAt(e + 1) = "word"
    BY <2>3, ReadInside
  <2>5. Arrives(e + 1)
    BY <2>4 DEF Arrives, Base, Outside
  <2>6. \A i \in pos + 1 .. e + 1 : i \in pos + 1 .. e \/ i = e + 1
    BY <1>1
  <2>7. InWords(pos, e + 1)
    BY <1>5, <2>4, <2>6, ModesDiffer DEF InWords
  <2> QED BY <2>5, <2>7
<1> QED BY <1>1, <1>2, <1>6, <1>7

-----------------------------------------------------------------------------
(* Types *)

(* Types, and that the line is empty before one is read; the parts of a     *)
(* word are a sequence, and the node a record.                             *)
LineInv ==
  /\ input \in Seq(Chars)
  /\ WordsTypeOK
  /\ phase = "prompt" => input = <<>>
  /\ parts \in Seq(Range(parts))
  /\ DOMAIN node = {"argv_parts", "redir", "invalid"}

PartsOK ==
  /\ parts \in Seq(Range(parts))
  /\ \A part \in Range(parts) :
       part.type \in {"literal", "variable", "tilde", "glob"} /\ part.value # <<>>

(* A part that is empty is not added.                                      *)
LEMMA AddedPart ==
  ASSUME PartsOK, NEW type \in {"literal", "variable", "tilde", "glob"}, NEW value,
         AddPart(type, value)
  PROVE  PartsOK'
<1>1. CASE value = <<>>
  <2>1. parts' = parts
    BY <1>1 DEF AddPart
  <2> QED BY <2>1 DEF PartsOK
<1>2. CASE value # <<>>
  <2> DEFINE part == [type |-> type, value |-> value]
  <2>1. parts' = Append(parts, part)
    BY <1>2 DEF AddPart
  <2>2. part.type = type /\ part.value = value
    OBVIOUS
  <2> HIDE DEF part
  <2>3. /\ parts' \in Seq(Range(parts'))
        /\ Len(parts') = Len(parts) + 1
        /\ DOMAIN parts' = 1 .. Len(parts) + 1
        /\ \A i \in 1 .. Len(parts) : parts'[i] = parts[i]
        /\ parts'[Len(parts) + 1] = part
    BY <2>1, AppendedToken DEF PartsOK
  <2>4. parts \in Seq(Range(parts)) /\ Len(parts) \in Nat /\ DOMAIN parts = 1 .. Len(parts)
    BY DEF PartsOK
  <2>5. ASSUME NEW p \in Range(parts')
        PROVE  p.type \in {"literal", "variable", "tilde", "glob"} /\ p.value # <<>>
    <3>1. PICK i \in 1 .. Len(parts) + 1 : p = parts'[i]
      BY <2>3 DEF Range
    <3>2. CASE i \in 1 .. Len(parts)
      <4>1. p \in Range(parts)
        BY <2>3, <2>4, <3>1, <3>2 DEF Range
      <4> QED BY <4>1 DEF PartsOK
    <3>3. CASE i = Len(parts) + 1
      BY <1>2, <2>2, <2>3, <3>1, <3>3
    <3> QED BY <2>4, <3>1, <3>2, <3>3
  <2> QED BY <2>3, <2>5 DEF PartsOK
<1> QED BY <1>1, <1>2

(* Within a word there is a character to read.                             *)
LEMMA WordGoesOn ==
  ASSUME LineInv, InWord
  PROVE  /\ pos \in 0 .. Len(input) - 1
         /\ Char(pos) = input[pos + 1] /\ Char(pos) \in Chars
         /\ quote_ctx = "none" => Char(pos) \notin Blank \cup is_meta_char
         /\ phase = "word" /\ input \in Seq(Chars) /\ Len(input) \in Nat
         /\ quote_ctx \in Quotes \cup {"none"}
<1>1. input \in Seq(Chars) /\ Char(pos) # NUL
  BY DEF LineInv, InWord, WordIsOver
<1>2. pos \in 0 .. Len(input) - 1 /\ Char(pos) = input[pos + 1]
  BY <1>1, CharOnLine
<1>3. Char(pos) \in Chars /\ Len(input) \in Nat
  BY <1>1, <1>2
<1> QED BY <1>1, <1>2, <1>3 DEF LineInv, WordsTypeOK, InWord, WordIsOver

(* Where a token begins.                                                   *)
LEMMA TokenStartIs ==
  ASSUME LineInv
  PROVE  /\ TokenStart \in pos .. Len(input)
         /\ \A q \in pos .. TokenStart - 1 : Char(q) \in Blank
         /\ Char(TokenStart) = NUL <=> TokenStart = Len(input)
<1>1. input \in Seq(Chars) /\ pos \in 0 .. Len(input) /\ NUL \notin Blank
  BY DEF LineInv, WordsTypeOK, Blank, NUL
<1>2. /\ TokenStart \in pos .. Len(input)
      /\ \A q \in pos .. TokenStart - 1 : Char(q) \in Blank
  BY <1>1, RunIs DEF TokenStart
<1>3. Char(TokenStart) = NUL <=> TokenStart = Len(input)
  BY <1>1, <1>2, NamesArePlain DEF Char
<1> QED BY <1>2, <1>3

(* A part moves the lexer on along the line.                               *)
LEMMA PartEnds ==
  ASSUME LineInv, InWord
  PROVE  /\ after_quote \in pos + 1 .. Len(input)
         /\ IsVariable => handle_variable_word_part.to \in pos + 1 .. Len(input)
         /\ RunEnd(pos + 1, is_name_char \cup {"-"}) \in pos + 1 .. Len(input)
         /\ handle_glob_word_part \in pos + 1 .. Len(input)
         /\ handle_literal.to \in pos .. Len(input)
<1>1. /\ input \in Seq(Chars) /\ Len(input) \in Nat
      /\ pos \in 0 .. Len(input) - 1 /\ pos \in 0 .. Len(input) /\ pos + 1 \in 0 .. Len(input)
      /\ quote_ctx \in Quotes \cup {"none"}
  BY WordGoesOn
<1>2. after_quote \in pos + 1 .. Len(input)
  BY <1>1 DEF after_quote
<1>3. IsVariable => handle_variable_word_part.to \in pos + 1 .. Len(input)
  BY <1>1, VariableIsPlain DEF IsVariable
<1>4. RunEnd(pos + 1, is_name_char \cup {"-"}) \in pos + 1 .. Len(input)
  BY <1>1, NamesArePlain, RunIs
<1>5. handle_glob_word_part \in pos + 1 .. Len(input)
  <2> DEFINE e == RunEnd(pos, Chars \ {"]"})
             ends == {e + 1, Len(input)}
  <2>1. e \in pos .. Len(input)
    BY <1>1, NamesArePlain, RunIs
  <2> HIDE DEF e
  <2>2. Min(ends) \in ends
    BY <1>1, <2>1, MinInSet
  <2>3. e + 1 \in pos + 1 .. Len(input) \/ e = Len(input)
    BY <1>1, <2>1
  <2>4. e = Len(input) => Min(ends) = Len(input)
    <3>1. ends \in SUBSET Nat /\ (e = Len(input) => \A k \in ends : Len(input) <= k)
      BY <1>1, <2>1
    <3> QED BY <3>1, MinIs
  <2>5. Min(ends) \in pos + 1 .. Len(input)
    BY <1>1, <2>1, <2>2, <2>3, <2>4
  <2> QED BY <1>1, <2>5 DEF handle_glob_word_part, e
<1>6. handle_literal.to \in pos .. Len(input)
  BY <1>1, LiteralIsSound DEF SoundLiteral
<1> QED BY <1>2, <1>3, <1>4, <1>5, <1>6

(* A step of the lexer in front of or within a word.                       *)
LEMMA LexerKeepsTypes ==
  ASSUME LineInv, input' = input, node' = node,
         phase' \in {"next_token", "word", "parsed", "crashed"},
         pos' \in 0 .. Len(input), start' \in 0 .. pos',
         quote_ctx' \in Quotes \cup {"none"},
         PartsOK'
  PROVE  LineInv'
BY DEF LineInv, WordsTypeOK, PartsOK

(* Every step leaves the lexer on its line.                                *)
LEMMA LineStep == LineInv /\ [Next]_vars => LineInv'
<1> SUFFICES ASSUME LineInv, [Next]_vars PROVE LineInv'
  OBVIOUS
<1>1. /\ input \in Seq(Chars) /\ Len(input) \in Nat /\ PartsOK
      /\ pos \in 0 .. Len(input) /\ start \in 0 .. pos /\ quote_ctx \in Quotes \cup {"none"}
  BY DEF LineInv, WordsTypeOK, PartsOK
<1>2. parts' = parts => PartsOK'
  BY <1>1 DEF PartsOK
<1>3. ASSUME phase = "prompt", NEW line \in Lines, lexer_init(line), UNCHANGED expandVars
      PROVE  LineInv'
  <2>1. /\ input' \in Seq(Chars) /\ pos' = 0 /\ phase' = "next_token"
        /\ UNCHANGED <<quote_ctx, start, parts, node>>
    BY <1>3, LexerAssumption DEF lexer_init, expandVars
  <2>2. start = 0
    BY <1>1, <1>3 DEF LineInv
  <2>3. pos' \in 0 .. Len(input') /\ start' \in 0 .. pos'
    BY <2>1, <2>2
  <2> QED BY <2>1, <2>3 DEF LineInv, WordsTypeOK
<1>4. ASSUME OperatorToken, UNCHANGED expandVars PROVE LineInv'
  <2>1. /\ phase' = "next_token" /\ UNCHANGED <<input, quote_ctx, start, parts, node>>
        /\ pos' = IF DoublesAt(TokenStart) THEN TokenStart + 2 ELSE TokenStart + 1
        /\ Char(TokenStart) \in is_meta_char
    BY <1>4 DEF OperatorToken, expandVars
  <2>2. Char(TokenStart) # NUL
    BY <2>1 DEF is_meta_char, NUL
  <2>3. TokenStart \in pos .. Len(input) - 1
    BY <1>1, <2>2, TokenStartIs
  <2>4. DoublesAt(TokenStart) => TokenStart + 1 \in 0 .. Len(input) - 1
    <3>1. DoublesAt(TokenStart) => Char(TokenStart + 1) # NUL
      BY <2>2 DEF DoublesAt
    <3> QED BY <1>1, <3>1, CharOnLine
  <2>5. pos' \in pos .. Len(input)
    BY <1>1, <2>1, <2>3, <2>4
  <2>6. pos' \in 0 .. Len(input) /\ start' \in 0 .. pos'
    BY <1>1, <2>1, <2>5
  <2> QED BY <1>1, <1>2, <2>1, <2>6, LexerKeepsTypes
<1>5. ASSUME EndOfLine, UNCHANGED expandVars PROVE LineInv'
  <2>1. /\ phase' = "parsed" /\ UNCHANGED <<input, quote_ctx, start, parts, node>>
        /\ pos' = Len(input)
    BY <1>5 DEF EndOfLine, expandVars
  <2> QED BY <1>1, <1>2, <2>1, LexerKeepsTypes
<1>6. ASSUME StartWord, UNCHANGED expandVars PROVE LineInv'
  <2>1. /\ phase' = "word" /\ UNCHANGED <<input, node>> /\ pos' = TokenStart
        /\ start' = TokenStart /\ quote_ctx' = "none" /\ parts' = <<>>
    BY <1>6 DEF StartWord, expandVars
  <2>2. pos' \in 0 .. Len(input) /\ start' \in 0 .. pos'
    BY <1>1, <2>1, TokenStartIs
  <2>3. PartsOK'
    BY <2>1 DEF PartsOK, Range
  <2> QED BY <2>1, <2>2, <2>3, LexerKeepsTypes
<1>7. ASSUME EndWord, UNCHANGED expandVars PROVE LineInv'
  <2>1. phase' = "next_token" /\ UNCHANGED <<input, pos, quote_ctx, start, parts, node>>
    BY <1>7 DEF EndWord, expandVars
  <2> QED BY <1>1, <1>2, <2>1, LexerKeepsTypes
<1>8. ASSUME lex_next_word_part, UNCHANGED expandVars PROVE LineInv'
  <2>1. /\ InWord /\ phase' \in {"word", "crashed"} /\ UNCHANGED <<input, start, node>>
    BY <1>8 DEF lex_next_word_part, Quote, Variable, VariableCrashes, Tilde, Glob, Literal,
                InWord, expandVars
  <2>2. pos' \in pos .. Len(input) /\ quote_ctx' \in Quotes \cup {"none"} /\ PartsOK'
    <3>1. CASE Quote
      <4>1. pos' \in pos .. Len(input)
        BY <1>1, <2>1, <3>1, PartEnds DEF Quote
      <4> QED BY <1>2, <3>1, <4>1 DEF Quote
    <3>2. CASE Variable
      <4>1. pos' \in pos .. Len(input)
        BY <1>1, <2>1, <3>2, PartEnds DEF Variable
      <4>2. \E value : \E type \in {"literal", "variable", "tilde", "glob"} : AddPart(type, value)
        BY <3>2 DEF Variable
      <4> QED BY <1>1, <3>2, <4>1, <4>2, AddedPart DEF Variable
    <3>3. CASE VariableCrashes
      <4>1. UNCHANGED <<pos, quote_ctx, parts>>
        BY <3>3 DEF VariableCrashes
      <4> QED BY <1>1, <1>2, <4>1
    <3>4. CASE Tilde
      <4>1. pos' \in pos .. Len(input)
        BY <1>1, <2>1, <3>4, PartEnds DEF Tilde
      <4>2. \E value : \E type \in {"literal", "variable", "tilde", "glob"} : AddPart(type, value)
        BY <3>4 DEF Tilde
      <4> QED BY <1>1, <3>4, <4>1, <4>2, AddedPart DEF Tilde
    <3>5. CASE Glob
      <4>1. pos' \in pos .. Len(input)
        BY <1>1, <2>1, <3>5, PartEnds DEF Glob
      <4>2. \E value : \E type \in {"literal", "variable", "tilde", "glob"} : AddPart(type, value)
        BY <3>5 DEF Glob
      <4> QED BY <1>1, <3>5, <4>1, <4>2, AddedPart DEF Glob
    <3>6. CASE Literal
      <4>1. pos' \in pos .. Len(input)
        BY <1>1, <2>1, <3>6, PartEnds DEF Literal
      <4>2. \E value : \E type \in {"literal", "variable", "tilde", "glob"} : AddPart(type, value)
        BY <3>6 DEF Literal
      <4> QED BY <1>1, <3>6, <4>1, <4>2, AddedPart DEF Literal
    <3> QED BY <1>8, <3>1, <3>2, <3>3, <3>4, <3>5, <3>6 DEF lex_next_word_part
  <2>3. pos' \in 0 .. Len(input) /\ start' \in 0 .. pos'
    BY <1>1, <2>1, <2>2
  <2> QED BY <2>1, <2>2, <2>3, LexerKeepsTypes
<1>9. CASE parse_command
  <2>1. /\ UNCHANGED <<input, pos, start, quote_ctx, parts>> /\ phase' = "expand"
        /\ DOMAIN node' = {"argv_parts", "redir", "invalid"} /\ node'.invalid \in BOOLEAN
    BY <1>9 DEF parse_command
  <2> QED BY <2>1 DEF LineInv, WordsTypeOK
<1>12. CASE MalformedRedirection
  BY <1>12 DEF MalformedRedirection, expandVars, LineInv, WordsTypeOK
<1>10. CASE Expands
  <2>1. UNCHANGED <<input, pos, start, quote_ctx, parts, phase>>
    BY <1>10 DEF Expands, lexVars
  <2>2. DOMAIN node' = {"argv_parts", "redir", "invalid"} /\ node'.invalid \in BOOLEAN
    <3>1. CASE ExpandWord
      BY <3>1 DEF ExpandWord, LineInv, WordsTypeOK
    <3>2. CASE ExpandTarget
      BY <3>2 DEF ExpandTarget, LineInv, WordsTypeOK
    <3> QED BY <1>10, <3>1, <3>2 DEF Expands, expander_expand_cmd
  <2> QED BY <2>1, <2>2 DEF LineInv, WordsTypeOK
<1>11. CASE UNCHANGED vars
  BY <1>11 DEF vars, lexVars, expandVars, LineInv, WordsTypeOK
<1> QED BY <1>3, <1>4, <1>5, <1>6, <1>7, <1>8, <1>9, <1>10, <1>11, <1>12
     DEF Next, LexNext, lexer_next_token

(* At the prompt the line is empty.                                        *)
LEMMA InitLine == Init => LineInv
<1> SUFFICES ASSUME Init PROVE LineInv
  OBVIOUS
<1>1. /\ input = <<>> /\ pos = 0 /\ start = 0 /\ parts = <<>> /\ phase = "prompt"
      /\ quote_ctx = "none" /\ node = no_node
  BY DEF Init, LexInit, ExpandInit
<1>2. Range(parts) = {} /\ parts \in Seq(Range(parts)) /\ input \in Seq(Chars) /\ Len(input) = 0
  BY <1>1 DEF Range
<1> QED BY <1>1, <1>2 DEF LineInv, WordsTypeOK, no_node

(* Whatever line is typed, of any length, the lexer's position stays on it *)
(* behind the start of the word, its quoting context is one it knows, and  *)
(* the parts it has collected are of the four kinds and not empty.         *)
THEOREM WordsTypeCorrect == Spec => []WordsTypeOK
<1>1. LineInv => WordsTypeOK
  BY DEF LineInv
<1> QED BY <1>1, InitLine, LineStep, PTL DEF Spec

-----------------------------------------------------------------------------
(* The reader and the tokens *)

NothingMisread == \A i \in DOMAIN input : ~Misread(i)

(* Up to where tokens have been returned.                                  *)
Covered == IF phase \in {"word", "crashed"} THEN start ELSE pos

(* In quotes a part of a word begins at their end, at a variable, or where *)
(* Misread looks.                                                          *)
QuotedPartBegins(p) ==
  quote_ctx \in Quotes =>
    \/ Char(p) \in {quote_ctx, NUL, "$"}
    \/ p \in DOMAIN input /\ input[p] \in Quotes
    \/ \E k \in 1 .. p : input[k] = "$"

TokensBehind(toks, p) ==
  /\ toks \in Seq(Range(toks))
  /\ \A t \in DOMAIN toks : toks[t].from \in Nat /\ toks[t].to \in Nat /\ toks[t].to <= p

(* Between words the reader is outside of quotes; within a word he is in   *)
(* the quotes the lexer knows of; and what is behind is cut right.         *)
ReaderInv ==
  /\ TokensBehind(tokens, Covered)
  /\ LineIsRead => pos = Len(input)
  /\ NothingMisread =>
       /\ \A i \in 1 .. Covered : IsCutRight(i)
       /\ phase = "next_token" => pos = 0 \/ ReaderAt(pos) \in Outside \/ pos = Len(input)
       /\ phase = "word" => Arrives(pos) /\ InWords(start, pos) /\ QuotedPartBegins(pos)

(* A step that keeps the line keeps all that the reader makes of it.       *)
LEMMA SameReader ==
  ASSUME input' = input, NEW i
  PROVE  /\ ReaderAt(i)' = ReaderAt(i)
         /\ Misread(i)' = Misread(i)
         /\ Char(i)' = Char(i)
BY DEF ReaderAt, Misread, Char

(* What the reader makes of the new place of the lexer.                    *)
LEMMA ReaderThere ==
  ASSUME input' = input, NEW p, pos' = p
  PROVE  ReaderAt(pos)' = ReaderAt(p)
BY DEF ReaderAt

(* A step that keeps the line misreads nothing that was read right.        *)
LEMMA SameReading ==
  ASSUME input' = input
  PROVE  NothingMisread' => NothingMisread
BY SameReader DEF NothingMisread

(* A step that adds no token cuts no character of the line differently.    *)
LEMMA SameCut ==
  ASSUME input' = input, tokens' = tokens, NEW i
  PROVE  IsCutRight(i)' = IsCutRight(i)
<1>1. ReaderAt(i)' = ReaderAt(i)
  BY SameReader
<1>2. OfToken(i)' = OfToken(i)
  BY DEF OfToken
<1> QED BY <1>1, <1>2 DEF IsCutRight

(* A token behind the others, with only blanks between.                    *)
LEMMA TokenAdded ==
  ASSUME NEW p \in Nat, TokensBehind(tokens, p),
         NEW token, tokens' = Append(tokens, token),
         token.from \in Nat, token.to \in Nat, p <= token.from, token.from <= token.to
  PROVE  /\ TokensBehind(tokens', token.to)
         /\ tokens'[Len(tokens) + 1] = token
         /\ Len(tokens) + 1 \in DOMAIN tokens'
         /\ \A i \in 1 .. token.from : OfToken(i)' = OfToken(i)
         /\ \A t \in DOMAIN tokens : t \in DOMAIN tokens' /\ tokens'[t] = tokens[t]
         /\ \A i \in token.from + 1 .. token.to : OfToken(i)' = {Len(tokens) + 1}
<1>1. /\ tokens' \in Seq(Range(tokens'))
      /\ DOMAIN tokens' = 1 .. Len(tokens) + 1
      /\ \A t \in 1 .. Len(tokens) : tokens'[t] = tokens[t]
      /\ tokens'[Len(tokens) + 1] = token
  BY AppendedToken DEF TokensBehind
<1>2. Len(tokens) \in Nat /\ DOMAIN tokens = 1 .. Len(tokens)
  BY DEF TokensBehind
<1>3. ASSUME NEW t \in DOMAIN tokens
      PROVE  tokens[t].from \in Nat /\ tokens[t].to \in Nat /\ tokens[t].to <= p
  BY DEF TokensBehind
<1>4. DOMAIN tokens' = DOMAIN tokens \cup {Len(tokens) + 1} /\ Len(tokens) + 1 \notin DOMAIN tokens
  BY <1>1, <1>2
<1>5. TokensBehind(tokens', token.to)
  <2>1. ASSUME NEW t \in DOMAIN tokens'
        PROVE  tokens'[t].from \in Nat /\ tokens'[t].to \in Nat /\ tokens'[t].to <= token.to
    <3>1. CASE t \in DOMAIN tokens
      <4>1. tokens'[t] = tokens[t] /\ tokens[t].to <= p
        BY <1>1, <1>2, <1>3, <3>1
      <4> QED BY <1>3, <3>1, <4>1
    <3>2. CASE t = Len(tokens) + 1
      BY <1>1, <3>2
    <3> QED BY <1>4, <3>1, <3>2
  <2> QED BY <1>1, <2>1 DEF TokensBehind
<1>6. ASSUME NEW i \in 1 .. token.from PROVE OfToken(i)' = OfToken(i)
  <2>1. i \notin token.from + 1 .. token.to
    OBVIOUS
  <2>2. OfToken(i)' = {t \in DOMAIN tokens' : i \in tokens'[t].from + 1 .. tokens'[t].to}
    BY DEF OfToken
  <2> QED BY <1>1, <1>2, <1>4, <2>1, <2>2 DEF OfToken
<1>7. ASSUME NEW i \in token.from + 1 .. token.to PROVE OfToken(i)' = {Len(tokens) + 1}
  <2>1. OfToken(i)' = {t \in DOMAIN tokens' : i \in tokens'[t].from + 1 .. tokens'[t].to}
    BY DEF OfToken
  <2>2. ASSUME NEW t \in DOMAIN tokens PROVE i \notin tokens'[t].from + 1 .. tokens'[t].to
    <3>1. tokens'[t] = tokens[t] /\ tokens[t].to <= p /\ tokens[t].to \in Nat
      BY <1>1, <1>2, <1>3
    <3> QED BY <3>1
  <2> QED BY <1>1, <1>4, <2>1, <2>2
<1> QED BY <1>1, <1>2, <1>4, <1>5, <1>6, <1>7

(* If it is a word where the reader is in one, the line is cut right on.    *)
LEMMA TokenCut ==
  ASSUME NEW p \in Nat, TokensBehind(tokens, p), input' = input,
         NEW token, tokens' = Append(tokens, token),
         token.from \in Nat, token.to \in Nat, p <= token.from, token.from <= token.to,
         \A i \in 1 .. p : IsCutRight(i),
         \A i \in p + 1 .. token.from : ReaderAt(i) = "blank",
         \A i \in token.from + 1 .. token.to :
           IF IsWord(token) THEN ReaderAt(i) \notin {"blank", "operator"}
           ELSE ReaderAt(i) = "operator"
  PROVE  \A i \in 1 .. token.to : IsCutRight(i)'
<1>1. /\ tokens'[Len(tokens) + 1] = token
      /\ Len(tokens) + 1 \in DOMAIN tokens'
      /\ \A i \in 1 .. token.from : OfToken(i)' = OfToken(i)
      /\ \A t \in DOMAIN tokens : t \in DOMAIN tokens' /\ tokens'[t] = tokens[t]
      /\ \A i \in token.from + 1 .. token.to : OfToken(i)' = {Len(tokens) + 1}
  BY TokenAdded
<1>2. ASSUME NEW i \in 1 .. p PROVE IsCutRight(i)'
  <2>1. ReaderAt(i)' = ReaderAt(i) /\ OfToken(i)' = OfToken(i)
    <3>1. i \in 1 .. token.from
      OBVIOUS
    <3> QED BY <1>1, <3>1, SameReader
  <2>2. IsCutRight(i)
    OBVIOUS
  <2>3. \A t \in DOMAIN tokens : t \in DOMAIN tokens' /\ IsWord(tokens[t])' = IsWord(tokens[t])
    BY <1>1 DEF IsWord
  <2>4. CASE ReaderAt(i) = "blank"
    BY <2>1, <2>2, <2>4 DEF IsCutRight
  <2>5. CASE ReaderAt(i) = "operator"
    <3>1. PICK t \in DOMAIN tokens : OfToken(i) = {t} /\ ~IsWord(tokens[t])
      BY <2>2, <2>5 DEF IsCutRight
    <3>2. t \in DOMAIN tokens' /\ OfToken(i)' = {t} /\ ~IsWord(tokens'[t])
      BY <1>1, <2>1, <3>1
    <3> QED BY <2>1, <2>5, <3>2 DEF IsCutRight
  <2>6. CASE ReaderAt(i) \notin {"blank", "operator"}
    <3>1. PICK t \in DOMAIN tokens : OfToken(i) = {t} /\ IsWord(tokens[t])
      BY <2>2, <2>6 DEF IsCutRight
    <3>2. t \in DOMAIN tokens' /\ OfToken(i)' = {t} /\ IsWord(tokens'[t])
      BY <1>1, <2>1, <3>1
    <3> QED BY <2>1, <2>6, <3>2 DEF IsCutRight
  <2> QED BY <2>4, <2>5, <2>6
<1>3. ASSUME NEW i \in p + 1 .. token.from PROVE IsCutRight(i)'
  <2>1. i \in 1 .. token.from
    OBVIOUS
  <2>2. ReaderAt(i)' = "blank" /\ OfToken(i)' = OfToken(i)
    BY <1>1, <2>1, SameReader
  <2>3. ASSUME NEW t \in DOMAIN tokens PROVE i \notin tokens[t].from + 1 .. tokens[t].to
    <3>1. tokens[t].to \in Nat /\ tokens[t].to <= p
      BY DEF TokensBehind
    <3> QED BY <3>1
  <2>4. OfToken(i) = {}
    BY <2>3 DEF OfToken
  <2> QED BY <2>2, <2>4 DEF IsCutRight
<1>4. ASSUME NEW i \in token.from + 1 .. token.to PROVE IsCutRight(i)'
  <2>1. ReaderAt(i)' = ReaderAt(i) /\ OfToken(i)' = {Len(tokens) + 1}
    BY <1>1, SameReader
  <2>2. CASE IsWord(token)
    <3>1. ReaderAt(i)' \notin {"blank", "operator"}
      BY <2>1, <2>2
    <3>2. IsWord(tokens'[Len(tokens) + 1])
      BY <1>1, <2>2
    <3> QED BY <1>1, <2>1, <3>1, <3>2 DEF IsCutRight
  <2>3. CASE ~IsWord(token)
    <3>1. ReaderAt(i)' = "operator"
      BY <2>1, <2>3
    <3>2. ~IsWord(tokens'[Len(tokens) + 1])
      BY <1>1, <2>3
    <3> QED BY <1>1, <2>1, <3>1, <3>2 DEF IsCutRight
  <2> QED BY <2>2, <2>3
<1>5. \A i \in 1 .. token.to :
        i \in 1 .. p \/ i \in p + 1 .. token.from \/ i \in token.from + 1 .. token.to
  OBVIOUS
<1> QED BY <1>2, <1>3, <1>4, <1>5

-----------------------------------------------------------------------------
(* Between words *)

(* Blanks between words are blanks for the reader too.                     *)
LEMMA BlanksRead ==
  ASSUME LineInv, pos = 0 \/ ReaderAt(pos) \in Outside \/ pos = Len(input)
  PROVE  /\ TokenStart = Len(input) \/ ReaderAt(TokenStart) \in Outside
         /\ \A i \in pos + 1 .. TokenStart : ReaderAt(i) = "blank"
<1>1. /\ input \in Seq(Chars) /\ Len(input) \in Nat /\ pos \in 0 .. Len(input)
      /\ TokenStart \in pos .. Len(input)
      /\ \A q \in pos .. TokenStart - 1 : Char(q) \in Blank
  BY TokenStartIs DEF LineInv, WordsTypeOK
<1>2. PICK from \in Nat : from = TokenStart /\ pos <= from /\ from <= Len(input)
  BY <1>1
<1>3. CASE pos = Len(input)
  <2>1. from = Len(input) /\ \A i \in pos + 1 .. from : FALSE
    BY <1>1, <1>2, <1>3
  <2> QED BY <1>2, <2>1
<1>4. CASE pos # Len(input)
  <2>1. ReaderAt(pos) \in Outside
    BY <1>1, <1>4, ReaderGoesOn DEF Outside
  <2> DEFINE wrong == {n \in Nat : pos + 1 + n <= from /\ ReaderAt(pos + 1 + n) # "blank"}
  <2>2. ASSUME wrong # {} PROVE FALSE
    <3>1. PICK n \in wrong : \A k \in wrong : n <= k
      BY <2>2, SmallestMember
    <3>2. n \in Nat /\ pos + 1 + n <= from /\ ReaderAt(pos + 1 + n) # "blank"
      BY <3>1
    <3>3. PICK p \in Nat : p = pos + n
      BY <1>1, <3>2
    <3>4. p \in pos .. from - 1 /\ p \in 0 .. Len(input) - 1 /\ p + 1 = pos + 1 + n
      BY <1>1, <1>2, <3>2, <3>3
    <3>5. ReaderAt(p) \in Outside
      <4>1. CASE n = 0
        <5>1. p = pos
          BY <1>1, <3>3, <4>1
        <5> QED BY <2>1, <5>1
      <4>2. CASE n # 0
        <5>1. n - 1 \in Nat /\ n - 1 < n /\ pos + 1 + (n - 1) = p /\ p <= from
          BY <1>1, <1>2, <3>2, <3>3, <4>2
        <5>2. n - 1 \notin wrong
          <6> HIDE DEF wrong
          <6> QED BY <3>1, <3>2, <5>1
        <5>3. ReaderAt(p) = "blank"
          BY <5>1, <5>2
        <5> QED BY <5>3 DEF Outside
      <4> QED BY <4>1, <4>2
    <3>6. ReaderAt(p + 1) = Reader(ReaderAt(p), Char(p)) /\ Char(p) \in Blank
      BY <1>1, <1>2, <3>4, ReaderGoesOn
    <3>7. ReaderAt(p + 1) = "blank"
      BY <3>5, <3>6, ReadOutside
    <3> QED BY <3>2, <3>4, <3>7
  <2>3. ASSUME NEW i \in pos + 1 .. from PROVE ReaderAt(i) = "blank"
    <3>1. i - (pos + 1) \in Nat /\ pos + 1 + (i - (pos + 1)) = i /\ i <= from
      BY <1>1, <1>2
    <3>2. i - (pos + 1) \notin wrong
      BY <2>2
    <3> QED BY <3>1, <3>2
  <2>4. ReaderAt(from) \in Outside
    <3>1. from = pos \/ from \in pos + 1 .. from
      BY <1>1, <1>2
    <3> QED BY <2>1, <2>3, <3>1 DEF Outside
  <2> QED BY <1>2, <2>3, <2>4
<1> QED BY <1>3, <1>4

(* What an operator token is, and where it ends.                           *)
LEMMA OperatorIs ==
  ASSUME LineInv, OperatorToken
  PROVE  \E token :
           /\ tokens' = Append(tokens, token)
           /\ token.from = TokenStart /\ token.to = pos'
           /\ ~IsWord(token)
           /\ TokenStart \in Nat /\ pos <= TokenStart
           /\ pos' \in TokenStart + 1 .. Len(input)
           /\ \A q \in TokenStart .. pos' - 1 : q \in 0 .. Len(input) - 1 /\ Char(q) \in is_meta_char
           /\ phase = "next_token" /\ phase' = "next_token" /\ input' = input
<1> DEFINE from == TokenStart
           type == operator_type(Char(from), DoublesAt(from))
           to == IF DoublesAt(from) THEN from + 2 ELSE from + 1
           token == [type |-> type, from |-> from, to |-> to, parts |-> <<>>]
<1>1. /\ tokens' = Append(tokens, token) /\ pos' = to /\ Char(from) \in is_meta_char
      /\ phase = "next_token" /\ phase' = "next_token" /\ input' = input
  BY DEF OperatorToken, Returns
<1>2. type \in {"or", "pipe", "and", "bg", "redir", "semi"}
  BY <1>1 DEF operator_type, is_meta_char
<1>3. token.from = from /\ token.to = to /\ ~IsWord(token)
  <2> HIDE DEF type
  <2> QED BY <1>2 DEF IsWord
<1>4. input \in Seq(Chars) /\ Len(input) \in Nat /\ pos \in 0 .. Len(input)
  BY DEF LineInv, WordsTypeOK
<1>5. NUL \notin is_meta_char
  BY DEF is_meta_char, NUL
<1>6. from \in pos .. Len(input) - 1
  BY <1>1, <1>4, <1>5, TokenStartIs
<1>7. DoublesAt(from) => from + 1 \in 0 .. Len(input) - 1 /\ Char(from + 1) \in is_meta_char
  <2>1. DoublesAt(from) => Char(from + 1) \in is_meta_char
    BY <1>1 DEF DoublesAt
  <2> QED BY <1>4, <1>5, <2>1, CharOnLine
<1> HIDE DEF from, type
<1>8. to \in from + 1 .. Len(input)
  BY <1>4, <1>6, <1>7
<1>9. ASSUME NEW q \in from .. to - 1 PROVE q \in 0 .. Len(input) - 1 /\ Char(q) \in is_meta_char
  <2>1. q = from \/ (DoublesAt(from) /\ q = from + 1)
    BY <1>6
  <2> QED BY <1>1, <1>4, <1>6, <1>7, <2>1
<1> QED BY <1>1, <1>3, <1>4, <1>6, <1>8, <1>9 DEF from

(* What get_operator takes is what the reader takes for an operator.       *)
LEMMA OperatorRead ==
  ASSUME input \in Seq(Chars), NEW from \in Nat, NEW to \in from + 1 .. Len(input),
         ReaderAt(from) \in Outside,
         \A q \in from .. to - 1 : q \in 0 .. Len(input) - 1 /\ Char(q) \in is_meta_char
  PROVE  \A i \in from + 1 .. to : ReaderAt(i) = "operator"
<1> DEFINE wrong == {n \in Nat : from + 1 + n <= to /\ ReaderAt(from + 1 + n) # "operator"}
<1>1. ASSUME wrong # {} PROVE FALSE
  <2>1. PICK n \in wrong : \A k \in wrong : n <= k
    BY <1>1, SmallestMember
  <2>2. n \in Nat /\ from + 1 + n <= to /\ ReaderAt(from + 1 + n) # "operator"
    BY <2>1
  <2>3. PICK p \in Nat : p = from + n
    BY <2>2
  <2>4. p \in from .. to - 1 /\ p + 1 = from + 1 + n
    BY <2>2, <2>3
  <2>5. ReaderAt(p) \in Outside
    <3>1. CASE n = 0
      <4>1. p = from
        BY <2>3, <3>1
      <4> QED BY <4>1
    <3>2. CASE n # 0
      <4>1. n - 1 \in Nat /\ n - 1 < n /\ from + 1 + (n - 1) = p /\ p <= to
        BY <2>2, <2>3, <2>4, <3>2
      <4>2. n - 1 \notin wrong
        <5> HIDE DEF wrong
        <5> QED BY <2>1, <2>2, <4>1
      <4>3. ReaderAt(p) = "operator"
        BY <4>1, <4>2
      <4> QED BY <4>3 DEF Outside
    <3> QED BY <3>1, <3>2
  <2>6. ReaderAt(p + 1) = Reader(ReaderAt(p), Char(p)) /\ Char(p) \in is_meta_char
    BY <2>4, ReaderGoesOn
  <2>7. ReaderAt(p + 1) = "operator"
    BY <2>5, <2>6, ReadOutside
  <2> QED BY <2>2, <2>4, <2>7
<1>2. ASSUME NEW i \in from + 1 .. to PROVE ReaderAt(i) = "operator"
  <2>1. i - (from + 1) \in Nat /\ from + 1 + (i - (from + 1)) = i /\ i <= to
    OBVIOUS
  <2>2. i - (from + 1) \notin wrong
    BY <1>1
  <2> QED BY <2>1, <2>2
<1> QED BY <1>2

(* An operator is returned: its characters are its token's.                *)
LEMMA ReaderOperator ==
  ASSUME LineInv, ReaderInv, OperatorToken
  PROVE  ReaderInv'
<1>1. PICK token :
        /\ tokens' = Append(tokens, token)
        /\ token.from = TokenStart /\ token.to = pos'
        /\ ~IsWord(token)
        /\ TokenStart \in Nat /\ pos <= TokenStart
        /\ pos' \in TokenStart + 1 .. Len(input)
        /\ \A q \in TokenStart .. pos' - 1 : q \in 0 .. Len(input) - 1 /\ Char(q) \in is_meta_char
        /\ phase = "next_token" /\ phase' = "next_token" /\ input' = input
  BY OperatorIs
<1>2. /\ input \in Seq(Chars) /\ pos \in Nat /\ Len(input) \in Nat
      /\ Covered = pos /\ Covered' = pos' /\ TokensBehind(tokens, pos)
  BY <1>1 DEF LineInv, WordsTypeOK, Covered, ReaderInv
<1>3. TokensBehind(tokens', pos')
  BY <1>1, <1>2, TokenAdded
<1>4. ASSUME NothingMisread'
      PROVE  (\A i \in 1 .. pos' : IsCutRight(i)') /\ (ReaderAt(pos) \in Outside)'
  <2>1. NothingMisread
    BY <1>1, <1>4, SameReading
  <2>2. /\ \A i \in 1 .. pos : IsCutRight(i)
        /\ pos = 0 \/ ReaderAt(pos) \in Outside \/ pos = Len(input)
    BY <1>1, <1>2, <2>1 DEF ReaderInv
  <2>3. /\ ReaderAt(TokenStart) \in Outside
        /\ \A i \in pos + 1 .. TokenStart : ReaderAt(i) = "blank"
    <3>1. TokenStart # Len(input)
      BY <1>1, <1>2
    <3> QED BY <2>2, <3>1, BlanksRead
  <2>4. \A i \in TokenStart + 1 .. pos' : ReaderAt(i) = "operator"
    BY <1>1, <1>2, <2>3, OperatorRead
  <2>5. \A i \in 1 .. pos' : IsCutRight(i)'
    BY <1>1, <1>2, <2>2, <2>3, <2>4, TokenCut
  <2>6. PICK to : to = pos'
    OBVIOUS
  <2>7. ReaderAt(pos)' = ReaderAt(to) /\ ReaderAt(to) = "operator"
    BY <1>1, <2>4, <2>6, ReaderThere
  <2> QED BY <2>5, <2>7 DEF Outside
<1>5. (\A i \in 1 .. pos' : IsCutRight(i)') => (\A i \in 1 .. Covered : IsCutRight(i))'
  BY <1>2
<1>6. TokensBehind(tokens, Covered)'
  BY <1>2, <1>3 DEF TokensBehind
<1> QED BY <1>1, <1>4, <1>5, <1>6 DEF ReaderInv, LineIsRead

(* What of the invariant a step within the line has to keep.               *)
LEMMA ReaderKept ==
  ASSUME input' = input, NEW covered, Covered' = covered,
         TokensBehind(tokens', covered),
         LineIsRead' => pos' = Len(input),
         NothingMisread =>
           /\ \A i \in 1 .. covered : IsCutRight(i)'
           /\ phase' = "next_token" => (ReaderAt(pos) \in Outside)' \/ pos' = Len(input)
           /\ phase' = "word" => (Arrives(pos) /\ InWords(start, pos) /\ QuotedPartBegins(pos))'
  PROVE  ReaderInv'
<1>1. TokensBehind(tokens, Covered)'
  BY DEF TokensBehind
<1>2. NothingMisread' => NothingMisread
  BY SameReading
<1>3. (\A i \in 1 .. covered : IsCutRight(i)') => (\A i \in 1 .. Covered : IsCutRight(i))'
  OBVIOUS
<1> QED BY <1>1, <1>2, <1>3 DEF ReaderInv

(* The end is returned: the blanks before it are no token's.               *)
LEMMA ReaderEndOfLine ==
  ASSUME LineInv, ReaderInv, EndOfLine
  PROVE  ReaderInv'
<1> DEFINE token == [type |-> "eof", from |-> Len(input), to |-> Len(input), parts |-> <<>>]
<1>1. /\ phase = "next_token" /\ phase' = "parsed" /\ input' = input /\ pos' = Len(input)
      /\ Char(TokenStart) = NUL
      /\ tokens' = Append(tokens, token)
  BY DEF EndOfLine, Returns
<1>2. /\ token.from = Len(input) /\ token.to = Len(input) /\ ~IsWord(token)
  BY DEF IsWord
<1> HIDE DEF token
<1>3. /\ input \in Seq(Chars) /\ Len(input) \in Nat /\ pos \in Nat /\ pos <= Len(input)
      /\ Covered = pos /\ Covered' = Len(input) /\ TokensBehind(tokens, pos)
  BY <1>1 DEF LineInv, WordsTypeOK, Covered, ReaderInv
<1>4. TokensBehind(tokens', Len(input))
  BY <1>1, <1>2, <1>3, TokenAdded
<1>5. ASSUME NothingMisread PROVE \A i \in 1 .. Len(input) : IsCutRight(i)'
  <2>1. /\ \A i \in 1 .. pos : IsCutRight(i)
        /\ pos = 0 \/ ReaderAt(pos) \in Outside \/ pos = Len(input)
    BY <1>1, <1>3, <1>5 DEF ReaderInv
  <2>2. \A i \in pos + 1 .. Len(input) : ReaderAt(i) = "blank"
    BY <1>1, <2>1, BlanksRead, TokenStartIs
  <2>3. \A i \in Len(input) + 1 .. Len(input) : FALSE
    BY <1>3
  <2> QED BY <1>1, <1>2, <1>3, <2>1, <2>2, <2>3, TokenCut
<1> QED BY <1>1, <1>3, <1>4, <1>5, ReaderKept

(* A word begins behind the blanks, which are no token's.                  *)
LEMMA ReaderStartWord ==
  ASSUME LineInv, ReaderInv, StartWord
  PROVE  ReaderInv'
<1>1. PICK from \in Nat : from = TokenStart /\ pos <= from /\ from <= Len(input) /\ pos \in Nat
  BY TokenStartIs DEF LineInv, WordsTypeOK
<1>2. /\ phase = "next_token" /\ phase' = "word" /\ UNCHANGED <<input, tokens>>
      /\ pos' = from /\ start' = from /\ quote_ctx' = "none"
  BY <1>1 DEF StartWord
<1>3. Covered = pos /\ Covered' = from /\ TokensBehind(tokens, pos)
  BY <1>2 DEF Covered, ReaderInv
<1>4. TokensBehind(tokens', from)
  BY <1>1, <1>2, <1>3 DEF TokensBehind
<1>5. ASSUME NothingMisread
      PROVE  /\ \A i \in 1 .. from : IsCutRight(i)'
             /\ (Arrives(pos) /\ InWords(start, pos) /\ QuotedPartBegins(pos))'
  <2>1. /\ \A i \in 1 .. pos : IsCutRight(i)
        /\ pos = 0 \/ ReaderAt(pos) \in Outside \/ pos = Len(input)
    BY <1>2, <1>3, <1>5 DEF ReaderInv
  <2>2. /\ from = Len(input) \/ ReaderAt(from) \in Outside
        /\ \A i \in pos + 1 .. from : ReaderAt(i) = "blank"
    BY <1>1, <2>1, BlanksRead
  <2>3. ASSUME NEW i \in 1 .. from PROVE IsCutRight(i)'
    <3>1. CASE i \in 1 .. pos
      BY <1>2, <2>1, <3>1, SameCut
    <3>2. CASE i \in pos + 1 .. from
      <4>1. ASSUME NEW t \in DOMAIN tokens PROVE i \notin tokens[t].from + 1 .. tokens[t].to
        <5>1. tokens[t].to \in Nat /\ tokens[t].to <= pos
          BY <1>3 DEF TokensBehind
        <5> QED BY <1>1, <3>2, <5>1
      <4>2. IsCutRight(i)
        BY <2>2, <3>2, <4>1 DEF IsCutRight, OfToken
      <4> QED BY <1>2, <4>2, SameCut
    <3> QED BY <1>1, <3>1, <3>2
  <2>4. Arrives(pos)'
    <3>1. ReaderAt(pos)' = ReaderAt(from)
      BY <1>2, ReaderThere
    <3> QED BY <1>2, <2>2, <3>1 DEF Arrives, Base
  <2>5. InWords(start, pos)'
    <3>1. \A i \in from + 1 .. from : FALSE
      OBVIOUS
    <3> QED BY <1>2, <3>1 DEF InWords
  <2>6. QuotedPartBegins(pos)'
    BY <1>2, ModesDiffer DEF QuotedPartBegins
  <2> QED BY <2>3, <2>4, <2>5, <2>6
<1> QED BY <1>2, <1>3, <1>4, <1>5, ReaderKept DEF LineIsRead

(* A word ends where the reader leaves it, and its characters are its token's. *)
LEMMA ReaderEndWord ==
  ASSUME LineInv, ReaderInv, EndWord
  PROVE  ReaderInv'
<1> DEFINE token == [type |-> word_type(Text(start, pos)), from |-> start, to |-> pos, parts |-> parts]
<1>1. /\ phase = "word" /\ phase' = "next_token" /\ UNCHANGED <<input, pos>>
      /\ WordIsOver
      /\ tokens' = Append(tokens, token)
  BY DEF EndWord, Returns
<1>2. /\ token.from = start /\ token.to = pos /\ IsWord(token)
  BY DEF IsWord, word_type
<1> HIDE DEF token
<1>3. /\ input \in Seq(Chars) /\ Len(input) \in Nat /\ pos \in Nat /\ pos <= Len(input)
      /\ start \in Nat /\ start <= pos
      /\ Covered = start /\ Covered' = pos /\ TokensBehind(tokens, start)
  BY <1>1 DEF LineInv, WordsTypeOK, Covered, ReaderInv
<1>4. TokensBehind(tokens', pos)
  BY <1>1, <1>2, <1>3, TokenAdded
<1>5. ASSUME NothingMisread
      PROVE  /\ \A i \in 1 .. pos : IsCutRight(i)'
             /\ (ReaderAt(pos) \in Outside)' \/ pos' = Len(input)
  <2>1. /\ \A i \in 1 .. start : IsCutRight(i)
        /\ Arrives(pos) /\ InWords(start, pos)
    BY <1>1, <1>3, <1>5 DEF ReaderInv
  <2>2. \A i \in start + 1 .. start : FALSE
    BY <1>3
  <2>3. \A i \in 1 .. pos : IsCutRight(i)'
    BY <1>1, <1>2, <1>3, <2>1, <2>2, TokenCut DEF InWords
  <2>4. pos = Len(input) \/ ReaderAt(pos) \in Outside
    <3>1. CASE Char(pos) = NUL
      BY <1>3, <3>1, NamesArePlain DEF Char
    <3>2. CASE quote_ctx = "none"
      BY <2>1, <3>2 DEF Arrives, Base
    <3> QED BY <1>1, <3>1, <3>2 DEF WordIsOver
  <2>5. ReaderAt(pos)' = ReaderAt(pos)
    BY <1>1, ReaderThere
  <2> QED BY <1>1, <2>3, <2>4, <2>5
<1> QED BY <1>1, <1>3, <1>4, <1>5, ReaderKept DEF LineIsRead

-----------------------------------------------------------------------------
(* Within a word *)

(* A part that leaves the reader where the lexer thinks he is.             *)
LEMMA ReaderPart ==
  ASSUME LineInv, ReaderInv, InWord, phase' = "word", UNCHANGED <<input, start, tokens>>,
         NEW to \in pos .. Len(input), pos' = to,
         NothingMisread /\ Arrives(pos) /\ QuotedPartBegins(pos) =>
           Arrives(to)' /\ InWords(pos, to) /\ QuotedPartBegins(to)'
  PROVE  ReaderInv'
<1>1. /\ phase = "word" /\ pos \in Nat /\ start \in Nat /\ to \in Nat
      /\ Covered = start /\ Covered' = start /\ TokensBehind(tokens, start)
  BY DEF LineInv, WordsTypeOK, Covered, ReaderInv, InWord
<1>2. TokensBehind(tokens', start)
  BY <1>1 DEF TokensBehind
<1>3. ASSUME NothingMisread
      PROVE  /\ \A i \in 1 .. start : IsCutRight(i)'
             /\ (Arrives(pos) /\ InWords(start, pos) /\ QuotedPartBegins(pos))'
  <2>1. /\ \A i \in 1 .. start : IsCutRight(i)
        /\ Arrives(pos) /\ InWords(start, pos) /\ QuotedPartBegins(pos)
    BY <1>1, <1>3 DEF ReaderInv
  <2>2. \A i \in 1 .. start : IsCutRight(i)'
    BY <2>1, SameCut
  <2>3. Arrives(to)' /\ InWords(start, to) /\ QuotedPartBegins(to)'
    BY <1>1, <1>3, <2>1, InWordsJoin
  <2>4. Arrives(pos)' /\ QuotedPartBegins(pos)'
    BY <2>3 DEF Arrives, Base, ReaderAt, QuotedPartBegins, Char
  <2>5. InWords(start, pos)'
    <3>1. \A i \in start + 1 .. to : ReaderAt(i)' \notin {"blank", "operator"}
      BY <2>3, SameReader DEF InWords
    <3> QED BY <3>1 DEF InWords
  <2> QED BY <2>2, <2>4, <2>5
<1> QED BY <1>1, <1>2, <1>3, ReaderKept DEF LineIsRead

(* A quote is opened or closed: the reader opens or closes it too.         *)
LEMMA ReaderQuote ==
  ASSUME LineInv, ReaderInv, Quote
  PROVE  ReaderInv'
<1>1. /\ InWord /\ phase' = "word" /\ UNCHANGED <<input, start, tokens>>
      /\ Char(pos) \in Quotes /\ pos' = pos + 1
      /\ quote_ctx' = IF quote_ctx = "none" THEN Char(pos) ELSE "none"
  BY DEF Quote, InWord, after_quote
<1>2. /\ input \in Seq(Chars) /\ Len(input) \in Nat /\ pos \in 0 .. Len(input) - 1
      /\ Char(pos) = input[pos + 1] /\ quote_ctx \in Quotes \cup {"none"}
  BY <1>1, WordGoesOn
<1>3. PICK to \in pos .. Len(input) : to = pos + 1 /\ to \in DOMAIN input /\ to - 1 = pos
  BY <1>2
<1>4. ASSUME NothingMisread, Arrives(pos), QuotedPartBegins(pos)
      PROVE  Arrives(to)' /\ InWords(pos, to) /\ QuotedPartBegins(to)'
  <2>1. Base(ReaderAt(pos)) /\ ReaderAt(to) = Reader(ReaderAt(pos), Char(pos))
    <3>1. pos # Len(input)
      BY <1>2
    <3> QED BY <1>2, <1>3, <1>4, <3>1, ReaderGoesOn DEF Arrives
  <2>2. \A i \in pos + 1 .. to : i = to
    BY <1>2, <1>3
  <2>3. CASE quote_ctx = "none"
    <3>1. ReaderAt(to) = Char(pos)
      <4>1. ReaderAt(pos) \in Outside
        BY <2>1, <2>3 DEF Base
      <4> QED BY <1>1, <2>1, <4>1, ReadOutside
    <3>2. quote_ctx' = Char(pos) /\ Char(pos) # "none"
      BY <1>1, <2>3, ModesDiffer
    <3>3. Arrives(to)'
      BY <1>1, <3>1, <3>2, SameReader DEF Arrives, Base
    <3>4. InWords(pos, to)
      BY <1>1, <2>2, <3>1, ModesDiffer DEF InWords
    <3>5. QuotedPartBegins(to)'
      BY <1>1, <1>2, <1>3 DEF QuotedPartBegins
    <3> QED BY <3>3, <3>4, <3>5
  <2>4. CASE quote_ctx \in Quotes
    <3>1. ReaderAt(pos) = quote_ctx /\ quote_ctx' = "none"
      BY <1>1, <2>1, <2>4, ModesDiffer DEF Base
    <3>2. Char(pos) = quote_ctx
      <4>1. SUFFICES ASSUME Char(pos) # quote_ctx PROVE FALSE
        OBVIOUS
      <4>2. Char(pos) \notin {NUL, "$"}
        BY <1>1 DEF Quotes, NUL
      <4>3. \/ pos \in DOMAIN input /\ input[pos] \in Quotes
            \/ \E k \in 1 .. pos : input[k] = "$"
        BY <1>4, <2>4, <4>1, <4>2 DEF QuotedPartBegins
      <4>4. (\E k \in 1 .. pos : input[k] = "$") => "$" \in Range(SubSeq(input, 1, pos))
        <5>1. SUFFICES ASSUME NEW k \in 1 .. pos, input[k] = "$"
                       PROVE  "$" \in Range(SubSeq(input, 1, pos))
          OBVIOUS
        <5>2. k \in DOMAIN SubSeq(input, 1, pos) /\ SubSeq(input, 1, pos)[k] = input[k]
          BY <1>2
        <5> QED BY <5>1, <5>2 DEF Range
      <4>5. Misread(to)
        BY <1>1, <1>2, <1>3, <2>4, <3>1, <4>1, <4>3, <4>4 DEF Misread
      <4> QED BY <1>3, <1>4, <4>5 DEF NothingMisread
    <3>3. ReaderAt(to) = "word"
      <4>1. CASE quote_ctx = "'"
        <5>1. ReaderAt(to) = Reader("'", "'")
          BY <2>1, <3>1, <3>2, <4>1
        <5> QED BY <5>1, ReadInside
      <4>2. CASE quote_ctx = "\""
        <5>1. ReaderAt(to) = Reader("\"", "\"")
          BY <2>1, <3>1, <3>2, <4>2
        <5> QED BY <5>1, ReadInside
      <4> QED BY <2>4, <4>1, <4>2 DEF Quotes
    <3>4. Arrives(to)'
      BY <1>1, <3>1, <3>3, SameReader DEF Arrives, Base, Outside
    <3>5. InWords(pos, to)
      BY <2>2, <3>3, ModesDiffer DEF InWords
    <3>6. QuotedPartBegins(to)'
      BY <3>1, ModesDiffer DEF QuotedPartBegins
    <3> QED BY <3>4, <3>5, <3>6
  <2> QED BY <1>2, <2>3, <2>4
<1> QED BY <1>1, <1>3, <1>4, ReaderPart

(* A part that is no quote.                                                *)
LEMMA ReaderOtherPart ==
  ASSUME LineInv, ReaderInv, InWord, phase' = "word", UNCHANGED <<input, quote_ctx, start, tokens>>,
         NEW to \in pos .. Len(input), pos' = to,
         NothingMisread /\ Arrives(pos) => Arrives(to) /\ InWords(pos, to) /\ QuotedPartBegins(to)
  PROVE  ReaderInv'
<1>1. Arrives(to)' = Arrives(to)
  BY SameReader DEF Arrives, Base
<1>2. QuotedPartBegins(to)' = QuotedPartBegins(to)
  BY DEF QuotedPartBegins, Char
<1> QED BY <1>1, <1>2, ReaderPart

(* A variable is read: it ends nobody's quotes.                            *)
LEMMA ReaderVariable ==
  ASSUME LineInv, ReaderInv, Variable
  PROVE  ReaderInv'
<1>1. /\ InWord /\ IsVariable /\ phase' = "word" /\ UNCHANGED <<input, quote_ctx, start, tokens>>
      /\ pos' = handle_variable_word_part.to
  BY DEF Variable, InWord
<1>2. /\ input \in Seq(Chars) /\ Len(input) \in Nat /\ pos \in 0 .. Len(input) - 1
      /\ pos \in 0 .. Len(input)
      /\ Char(pos) = input[pos + 1] /\ Char(pos) = "$"
      /\ quote_ctx \in (Quotes \cup {"none"}) \ {"'"}
  BY <1>1, WordGoesOn DEF IsVariable
<1>3. PICK to \in pos + 1 .. Len(input) :
             to = pos' /\ \A p \in pos .. to - 1 : Char(p) \in VariableChars
  BY <1>1, <1>2, VariableIsPlain
<1>4. to \in pos .. Len(input) /\ to \in Nat
  BY <1>2, <1>3
<1>5. ASSUME Arrives(pos) PROVE Arrives(to) /\ InWords(pos, to)
  BY <1>2, <1>3, <1>4, <1>5, NamesArePlain, PlainKeeps
<1>6. QuotedPartBegins(to)
  <2>1. pos + 1 \in 1 .. to /\ input[pos + 1] = "$"
    BY <1>2, <1>3
  <2> QED BY <2>1 DEF QuotedPartBegins
<1> QED BY <1>1, <1>3, <1>4, <1>5, <1>6, ReaderOtherPart

(* Tildes and globs are no parts of quotes.                                *)
LEMMA ReaderUnquoted ==
  ASSUME LineInv, ReaderInv, InWord, phase' = "word", UNCHANGED <<input, quote_ctx, start, tokens>>,
         quote_ctx = "none",
         NEW to \in pos .. Len(input), pos' = to,
         Arrives(pos) => Arrives(to) /\ InWords(pos, to)
  PROVE  ReaderInv'
<1>1. QuotedPartBegins(to)
  BY ModesDiffer DEF QuotedPartBegins
<1> QED BY <1>1, ReaderOtherPart

(* A tilde is read, outside of quotes.                                     *)
LEMMA ReaderTilde ==
  ASSUME LineInv, ReaderInv, Tilde
  PROVE  ReaderInv'
<1> DEFINE to == RunEnd(pos + 1, is_name_char \cup {"-"})
<1>1. /\ InWord /\ IsTilde /\ phase' = "word" /\ UNCHANGED <<input, quote_ctx, start, tokens>>
      /\ pos' = to
  BY DEF Tilde, InWord
<1>2. /\ input \in Seq(Chars) /\ Len(input) \in Nat /\ pos \in 0 .. Len(input) - 1
      /\ pos \in 0 .. Len(input) /\ pos + 1 \in 0 .. Len(input)
      /\ Char(pos) = "~" /\ quote_ctx = "none"
  BY <1>1, WordGoesOn DEF IsTilde
<1>3. /\ to \in pos + 1 .. Len(input)
      /\ \A p \in pos + 1 .. to - 1 : Char(p) \in is_name_char \cup {"-"}
  BY <1>2, NamesArePlain, RunIs
<1> HIDE DEF to
<1>4. ASSUME NEW p \in pos .. to - 1 PROVE Char(p) \in Plain
  <2>1. p = pos \/ p \in pos + 1 .. to - 1
    BY <1>2, <1>3
  <2> QED BY <1>2, <1>3, <2>1, NamesArePlain
<1>5. to \in pos .. Len(input)
  BY <1>2, <1>3
<1>6. Arrives(pos) => Arrives(to) /\ InWords(pos, to)
  <2>1. quote_ctx \in (Quotes \cup {"none"}) \ {"'"}
    BY <1>2
  <2> QED BY <1>2, <1>4, <1>5, <2>1, PlainKeeps
<1> QED BY <1>1, <1>2, <1>5, <1>6, ReaderUnquoted

(* A * or ?, or a bracket, is read, outside of quotes.                     *)
LEMMA ReaderGlob ==
  ASSUME LineInv, ReaderInv, Glob
  PROVE  ReaderInv'
<1>1. /\ InWord /\ IsGlob /\ phase' = "word" /\ UNCHANGED <<input, quote_ctx, start, tokens>>
      /\ pos' = handle_glob_word_part
  BY DEF Glob, InWord
<1>2. /\ input \in Seq(Chars) /\ Len(input) \in Nat /\ pos \in 0 .. Len(input) - 1
      /\ Char(pos) \in is_glob_char /\ quote_ctx = "none"
  BY <1>1, WordGoesOn DEF IsGlob
<1>3. PICK to : to = pos' /\ to \in pos .. Len(input)
  <2>1. pos' \in pos .. Len(input)
    BY <1>1, <1>2, PartEnds
  <2> QED BY <2>1
<1>4. ASSUME Arrives(pos) PROVE Arrives(to) /\ InWords(pos, to)
  <2>1. CASE Char(pos) = "["
    <3> DEFINE e == RunEnd(pos, Chars \ {"]"})
    <3>1. /\ e \in pos + 1 .. Len(input)
          /\ InWords(pos, e)
          /\ e # Len(input) => Arrives(e + 1) /\ InWords(pos, e + 1)
      BY <1>2, <1>4, <2>1, BracketRead
    <3>2. to = Min({e + 1, Len(input)})
      BY <1>1, <1>3, <2>1 DEF handle_glob_word_part
    <3> HIDE DEF e
    <3>3. {e + 1, Len(input)} \in SUBSET Nat
      BY <1>2, <3>1
    <3>4. CASE e = Len(input)
      <4>1. to = Len(input)
        BY <1>2, <3>2, <3>3, <3>4, MinIs
      <4> QED BY <3>1, <3>4, <4>1 DEF Arrives
    <3>5. CASE e # Len(input)
      <4>1. to = e + 1
        BY <1>2, <3>1, <3>2, <3>3, <3>5, MinIs
      <4> QED BY <3>1, <3>5, <4>1
    <3> QED BY <3>4, <3>5
  <2>2. CASE Char(pos) # "["
    <3>1. Char(pos) \in Plain /\ to = pos + 1
      BY <1>1, <1>2, <1>3, <2>2, NamesArePlain DEF is_glob_char, handle_glob_word_part
    <3>2. quote_ctx \in (Quotes \cup {"none"}) \ {"'"}
      BY <1>2
    <3> QED BY <1>2, <1>4, <3>1, <3>2, PlainStep
  <2> QED BY <2>1, <2>2
<1> QED BY <1>1, <1>2, <1>3, <1>4, ReaderUnquoted

(* A literal is read, up to where its quotes, or the word, may end.        *)
LEMMA ReaderLiteral ==
  ASSUME LineInv, ReaderInv, Literal
  PROVE  ReaderInv'
<1>1. /\ InWord /\ phase' = "word" /\ UNCHANGED <<input, quote_ctx, start, tokens>>
      /\ pos' = handle_literal.to
  BY DEF Literal, InWord
<1>2. /\ input \in Seq(Chars) /\ pos \in 0 .. Len(input) /\ quote_ctx \in Quotes \cup {"none"}
  BY <1>1, WordGoesOn DEF LineInv, WordsTypeOK
<1>3. PICK to \in pos .. Len(input) :
             /\ to = pos' /\ Char(to) \in LiteralEnds(quote_ctx)
             /\ Arrives(pos) => Arrives(to) /\ InWords(pos, to)
  BY <1>1, <1>2, LiteralIsSound DEF SoundLiteral
<1>4. QuotedPartBegins(to)
  <2>1. CASE quote_ctx = "'"
    BY <1>3, <2>1 DEF QuotedPartBegins, LiteralEnds
  <2>2. CASE quote_ctx = "\""
    BY <1>3, <2>2 DEF QuotedPartBegins, LiteralEnds
  <2>3. CASE quote_ctx \notin Quotes
    BY <2>3 DEF QuotedPartBegins
  <2> QED BY <2>1, <2>2, <2>3 DEF Quotes
<1> QED BY <1>1, <1>3, <1>4, ReaderOtherPart

-----------------------------------------------------------------------------

(* Every step keeps the lexer with the reader.                             *)
LEMMA ReaderStep == LineInv /\ ReaderInv /\ [Next]_vars => ReaderInv'
<1> SUFFICES ASSUME LineInv, ReaderInv, [Next]_vars PROVE ReaderInv'
  OBVIOUS
<1>1. ASSUME NEW line \in Lines, lexer_init(line) PROVE ReaderInv'
  <2>1. pos' = 0 /\ tokens' = <<>> /\ phase' = "next_token"
    BY <1>1 DEF lexer_init
  <2>2. TokensBehind(tokens, Covered)'
    <3>1. tokens' \in Seq(Range(tokens')) /\ DOMAIN tokens' = {}
      BY <2>1
    <3> QED BY <3>1 DEF TokensBehind
  <2>3. Covered' = 0 /\ \A i \in 1 .. 0 : FALSE
    BY <2>1 DEF Covered
  <2>4. (\A i \in 1 .. Covered : IsCutRight(i))'
    BY <2>3
  <2> QED BY <2>1, <2>2, <2>4 DEF ReaderInv, LineIsRead
<1>2. ASSUME VariableCrashes PROVE ReaderInv'
  <2>1. /\ UNCHANGED <<input, start, tokens>> /\ phase = "word" /\ phase' = "crashed"
    BY <1>2 DEF VariableCrashes, InWord
  <2>2. Covered = start /\ Covered' = start
    BY <2>1 DEF Covered
  <2>3. TokensBehind(tokens', start) /\ (NothingMisread => \A i \in 1 .. start : IsCutRight(i)')
    BY <2>1, <2>2, SameCut DEF ReaderInv
  <2> QED BY <2>1, <2>2, <2>3, ReaderKept DEF LineIsRead
<1>3. ASSUME \/ parse_command
             \/ MalformedRedirection
             \/ Expands
             \/ UNCHANGED vars
      PROVE  ReaderInv'
  <2>1. /\ UNCHANGED <<input, pos, start, tokens>>
        /\ \/ phase' = phase /\ quote_ctx' = quote_ctx
           \/ phase = "parsed" /\ phase' \in {"expand", "exited"}
    BY <1>3 DEF parse_command, MalformedRedirection, Expands, lexVars, vars
  <2>2. PICK covered : covered = Covered
    OBVIOUS
  <2>3. Covered' = covered
    BY <2>1, <2>2 DEF Covered
  <2>4. /\ TokensBehind(tokens', covered)
        /\ LineIsRead' => pos' = Len(input)
        /\ NothingMisread => \A i \in 1 .. covered : IsCutRight(i)'
    BY <2>1, <2>2, SameCut DEF ReaderInv, LineIsRead
  <2>5. CASE phase = "parsed" /\ phase' \in {"expand", "exited"}
    BY <2>1, <2>3, <2>4, <2>5, ReaderKept
  <2>6. CASE phase' = phase /\ quote_ctx' = quote_ctx
    <3>1. ReaderAt(pos)' = ReaderAt(pos)
      BY <2>1, ReaderThere
    <3>2. Arrives(pos)' = Arrives(pos) /\ QuotedPartBegins(pos)' = QuotedPartBegins(pos)
      BY <2>1, <2>6, <3>1 DEF Arrives, Base, QuotedPartBegins, Char
    <3>3. InWords(start, pos)' = InWords(start, pos)
      BY <2>1, SameReader DEF InWords
    <3>4. (\A i \in 1 .. Covered : IsCutRight(i))' <=> (\A i \in 1 .. covered : IsCutRight(i)')
      BY <2>3
    <3>5. TokensBehind(tokens, Covered)'
      BY <2>3, <2>4 DEF TokensBehind
    <3> QED BY <2>1, <2>4, <2>6, <3>1, <3>2, <3>3, <3>4, <3>5, SameReading DEF ReaderInv
  <2> QED BY <2>1, <2>5, <2>6
<1> QED BY <1>1, <1>2, <1>3, ReaderOperator, ReaderEndOfLine, ReaderStartWord, ReaderEndWord,
           ReaderQuote, ReaderVariable, ReaderTilde, ReaderGlob, ReaderLiteral
     DEF Next, LexNext, lexer_next_token, lex_next_word_part

(* The parts of a word, found by one function of the lexer each, together  *)
(* cut every line where a reader would cut it who minds quotes, escapes    *)
(* and brackets, unless it has quotes within quotes behind a quote or a    *)
(* variable: every character of a word is in one token that is a word,     *)
(* every operator in one that is none, and no blank between words in any.  *)
THEOREM LexerReadsRight == Spec => []LexerMeetsReader
<1>1. Init => ReaderInv
  <2> SUFFICES ASSUME Init PROVE ReaderInv
    OBVIOUS
  <2>1. /\ pos = 0 /\ tokens = <<>> /\ phase = "prompt"
    BY DEF Init, LexInit
  <2>2. TokensBehind(tokens, Covered)
    <3>1. tokens \in Seq(Range(tokens)) /\ DOMAIN tokens = {}
      BY <2>1
    <3> QED BY <3>1 DEF TokensBehind
  <2>3. Covered = 0 /\ \A i \in 1 .. 0 : FALSE
    BY <2>1 DEF Covered
  <2> QED BY <2>1, <2>2, <2>3 DEF ReaderInv, LineIsRead
<1>2. LineInv /\ ReaderInv => LexerMeetsReader
  <2> SUFFICES ASSUME LineInv, ReaderInv, LineIsRead, NothingMisread, NEW i \in DOMAIN input
               PROVE  IsCutRight(i)
    BY DEF LexerMeetsReader, NothingMisread
  <2>1. i \in 1 .. Len(input)
    BY DEF LineInv
  <2>2. Covered = Len(input)
    BY DEF ReaderInv, Covered, LineIsRead
  <2> QED BY <2>1, <2>2 DEF ReaderInv
<1> QED BY <1>1, <1>2, InitLine, LineStep, ReaderStep, PTL DEF Spec

-----------------------------------------------------------------------------
(* Patterns *)

(* What glob_matches says of place i of a pattern, by what it says behind. *)
MatchesFrom(match, pattern, name, i) ==
  IF i > Len(pattern) THEN {Len(name) + 1}
  ELSE IF pattern[i] = "*"
       THEN {j \in 1 .. Len(name) + 1 : \E k \in match[i + 1] : j <= k}
  ELSE LET e == element(pattern, i)
       IN  {j \in 1 .. Len(name) :
              (pattern[i] = "?" \/ name[j] \in e.chars) /\ j + 1 \in match[e.next]}

Matching(match, pattern, name, p) ==
  match = [i \in p .. Len(pattern) + 1 |-> MatchesFrom(match, pattern, name, i)]

(* An element of a pattern has a character, and ends in the pattern.       *)
LEMMA ElementEnds ==
  ASSUME NEW S, NEW pattern \in Seq(S), NEW i \in 1 .. Len(pattern)
  PROVE  element(pattern, i).next \in i + 1 .. Len(pattern) + 1
<1>1. Len(pattern) \in Nat
  OBVIOUS
<1>2. CASE pattern[i] = "\\" /\ i < Len(pattern)
  <2>1. element(pattern, i) = [chars |-> {pattern[i + 1]}, next |-> i + 2]
    <3>1. ~IsBracket(pattern, i)
      BY <1>2 DEF IsBracket
    <3> QED BY <1>2, <3>1, Zenon DEF element
  <2> QED BY <1>1, <1>2, <2>1
<1>3. CASE ~(pattern[i] = "\\" /\ i < Len(pattern)) /\ IsBracket(pattern, i)
  <2> DEFINE ends == BracketEnds(pattern, i)
  <2>1. ends # {} /\ ends \in SUBSET Nat /\ \A k \in ends : k \in i + 2 .. Len(pattern)
    BY <1>1, <1>3 DEF IsBracket, BracketEnds
  <2>2. element(pattern, i).next = Min(ends) + 1
    BY <1>3 DEF element
  <2> HIDE DEF ends
  <2>3. PICK k : k = Min(ends)
    OBVIOUS
  <2>4. k \in ends
    BY <2>1, <2>3, MinInSet
  <2>5. k \in i + 2 .. Len(pattern)
    BY <2>1, <2>4
  <2>6. element(pattern, i).next = k + 1
    BY <2>2, <2>3
  <2> QED BY <1>1, <2>5, <2>6
<1>4. CASE ~(pattern[i] = "\\" /\ i < Len(pattern)) /\ ~IsBracket(pattern, i)
  BY <1>1, <1>4 DEF element
<1> QED BY <1>2, <1>3, <1>4

(* What a pattern matches from i on depends on what is behind i only.      *)
LEMMA SameMatches ==
  ASSUME NEW S, NEW pattern \in Seq(S), NEW name, NEW i \in 1 .. Len(pattern) + 1, NEW f, NEW g,
         \A k \in i + 1 .. Len(pattern) + 1 : f[k] = g[k]
  PROVE  MatchesFrom(f, pattern, name, i) = MatchesFrom(g, pattern, name, i)
<1>1. CASE i > Len(pattern)
  BY <1>1, Zenon DEF MatchesFrom
<1>2. CASE ~(i > Len(pattern))
  <2>1. i \in 1 .. Len(pattern) /\ i + 1 \in i + 1 .. Len(pattern) + 1
    BY <1>2
  <2>2. element(pattern, i).next \in i + 1 .. Len(pattern) + 1
    BY <2>1, ElementEnds
  <2>3. f[i + 1] = g[i + 1] /\ f[element(pattern, i).next] = g[element(pattern, i).next]
    BY <2>1, <2>2
  <2> QED BY <1>2, <2>3, Zenon DEF MatchesFrom
<1> QED BY <1>1, <1>2

(* What is matched from p - 1 on is found from what is matched behind it,  *)
LEMMA MatchingOn ==
  ASSUME NEW S, NEW pattern \in Seq(S), NEW name, NEW p \in 2 .. Len(pattern) + 1,
         NEW match, Matching(match, pattern, name, p)
  PROVE  \E longer : Matching(longer, pattern, name, p - 1)
<1> DEFINE longer == [i \in p - 1 .. Len(pattern) + 1 |->
                        IF i >= p THEN match[i] ELSE MatchesFrom(match, pattern, name, i)]
<1>1. ASSUME NEW i \in p - 1 .. Len(pattern) + 1
      PROVE  longer[i] = MatchesFrom(longer, pattern, name, i)
  <2>1. \A k \in i + 1 .. Len(pattern) + 1 : longer[k] = match[k]
    OBVIOUS
  <2>2. MatchesFrom(longer, pattern, name, i) = MatchesFrom(match, pattern, name, i)
    <3>1. i \in 1 .. Len(pattern) + 1
      OBVIOUS
    <3> HIDE DEF longer
    <3> QED BY <2>1, <3>1, SameMatches
  <2>3. i >= p => match[i] = MatchesFrom(match, pattern, name, i)
    BY DEF Matching
  <2> QED BY <2>2, <2>3
<1>2. longer = [i \in p - 1 .. Len(pattern) + 1 |-> MatchesFrom(longer, pattern, name, i)]
  BY <1>1
<1> QED BY <1>2 DEF Matching

(* so the function exists, from the end of the pattern down to any p.      *)
LEMMA MatchingReads ==
  ASSUME NEW S, NEW pattern \in Seq(S), NEW name, NEW p \in 1 .. Len(pattern) + 1
  PROVE  \E match : Matching(match, pattern, name, p)
<1> DEFINE last == Len(pattern) + 1
           stuck == {n \in Nat : n < last /\ ~\E match : Matching(match, pattern, name, last - n)}
<1>1. Len(pattern) \in Nat
  OBVIOUS
<1>2. ASSUME stuck # {} PROVE FALSE
  <2>1. PICK n \in stuck : \A k \in stuck : n <= k
    BY <1>2, SmallestMember
  <2>2. CASE n = 0
    <3> DEFINE first == [i \in last .. last |-> {Len(name) + 1}]
    <3>1. ASSUME NEW i \in last .. last PROVE MatchesFrom(first, pattern, name, i) = {Len(name) + 1}
      <4>1. i > Len(pattern)
        BY <1>1
      <4> QED BY <4>1, Zenon DEF MatchesFrom
    <3>2. first = [i \in last .. last |-> MatchesFrom(first, pattern, name, i)]
      BY <3>1
    <3>3. last - n = last
      BY <1>1, <2>2
    <3> QED BY <2>1, <3>2, <3>3 DEF Matching
  <2>3. CASE n # 0
    <3>1. n - 1 \in Nat /\ n - 1 \notin stuck /\ n - 1 < last
      BY <1>1, <2>1, <2>3
    <3>2. PICK match : Matching(match, pattern, name, last - (n - 1))
      BY <3>1
    <3>3. last - (n - 1) \in 2 .. last /\ (last - (n - 1)) - 1 = last - n
      BY <1>1, <2>1, <2>3
    <3>4. \E longer : Matching(longer, pattern, name, last - n)
      BY <3>2, <3>3, MatchingOn
    <3> QED BY <2>1, <3>4
  <2> QED BY <2>2, <2>3
<1>3. last - p \in Nat /\ last - p < last /\ last - (last - p) = p
  BY <1>1
<1> HIDE DEF last
<1> QED BY <1>2, <1>3

(* glob_matches, one element at a time.                                    *)
LEMMA GlobUnfolds ==
  ASSUME NEW S, NEW pattern \in Seq(S), NEW name
  PROVE  \E match : /\ glob_matches(pattern, name) <=> 1 \in match[1]
                    /\ \A i \in 1 .. Len(pattern) + 1 :
                         match[i] = MatchesFrom(match, pattern, name, i)
<1> DEFINE match == CHOOSE f : Matching(f, pattern, name, 1)
<1>1. 1 \in 1 .. Len(pattern) + 1
  OBVIOUS
<1>2. Matching(match, pattern, name, 1)
  BY <1>1, MatchingReads
<1>3. glob_matches(pattern, name) <=> 1 \in match[1]
  BY Zenon DEF glob_matches, Matching, MatchesFrom
<1> HIDE DEF match
<1>4. \A i \in 1 .. Len(pattern) + 1 : match[i] = MatchesFrom(match, pattern, name, i)
  BY <1>2 DEF Matching
<1> QED BY <1>3, <1>4

(* Characters that mean something in a pattern; a backslash only says that *)
(* the next one is meant.                                                  *)
Special == {"*", "?", "["}

(* Without any of them each element is one character.                      *)
LEMMA PlainElement ==
  ASSUME NEW S, NEW pattern \in Seq(S), S \cap Special = {}, NEW i \in 1 .. Len(pattern)
  PROVE  /\ pattern[i] \notin Special
         /\ \E c : element(pattern, i).chars = {c}
<1>1. pattern[i] \notin Special
  OBVIOUS
<1>2. ~IsBracket(pattern, i)
  BY <1>1 DEF IsBracket, Special
<1>3. CASE pattern[i] = "\\" /\ i < Len(pattern)
  <2>1. element(pattern, i) = [chars |-> {pattern[i + 1]}, next |-> i + 2]
    BY <1>2, <1>3, Zenon DEF element
  <2>2. element(pattern, i).chars = {pattern[i + 1]}
    BY <2>1
  <2> QED BY <1>1, <2>2, Zenon
<1>4. CASE ~(pattern[i] = "\\" /\ i < Len(pattern))
  <2>1. element(pattern, i) = [chars |-> {pattern[i]}, next |-> i + 1]
    BY <1>2, <1>4, Zenon DEF element
  <2>2. element(pattern, i).chars = {pattern[i]}
    BY <2>1
  <2> QED BY <1>1, <2>2, Zenon
<1> QED BY <1>3, <1>4

(* Two names that end alike from j on.                                     *)
SameFrom(a, b, j) == Len(a) = Len(b) /\ \A k \in j .. Len(a) : a[k] = b[k]

(* A pattern without them matches one name at most: take the last element  *)
(* from which two names are matched that differ.                           *)
LEMMA OneName ==
  ASSUME NEW S, NEW pattern \in Seq(S), S \cap Special = {},
         NEW a, a \in Seq(Range(a)), NEW b, b \in Seq(Range(b)),
         glob_matches(pattern, a), glob_matches(pattern, b)
  PROVE  a = b
<1>1. PICK ma : /\ glob_matches(pattern, a) <=> 1 \in ma[1]
                /\ \A i \in 1 .. Len(pattern) + 1 : ma[i] = MatchesFrom(ma, pattern, a, i)
  BY GlobUnfolds
<1>2. PICK mb : /\ glob_matches(pattern, b) <=> 1 \in mb[1]
                /\ \A i \in 1 .. Len(pattern) + 1 : mb[i] = MatchesFrom(mb, pattern, b, i)
  BY GlobUnfolds
<1>3. Len(pattern) \in Nat /\ Len(a) \in Nat /\ Len(b) \in Nat
  OBVIOUS
<1> DEFINE Both(i, j) == j \in Nat /\ j \in ma[i] /\ j \in mb[i]
           last == Len(pattern) + 1
           wrong == {n \in Nat : n < last /\ \E j \in Nat : Both(last - n, j) /\ ~SameFrom(a, b, j)}
<1>4. ASSUME wrong # {} PROVE FALSE
  <2>1. PICK n \in wrong : \A k \in wrong : n <= k
    BY <1>4, SmallestMember
  <2>2. PICK i : i = last - n
    OBVIOUS
  <2>3. i \in 1 .. last /\ n < last /\ n = last - i
    BY <1>3, <2>1, <2>2
  <2>4. PICK j \in Nat : Both(i, j) /\ ~SameFrom(a, b, j)
    BY <2>1, <2>2
  <2>5. ASSUME NEW k \in i + 1 .. last, NEW x \in Nat, Both(k, x) PROVE SameFrom(a, b, x)
    <3>1. last - k \in Nat /\ last - k < last /\ last - k < n /\ last - (last - k) = k
      BY <1>3, <2>3
    <3>2. last - k \notin wrong
      BY <1>3, <2>1, <2>3, <3>1
    <3> QED BY <2>5, <3>1, <3>2
  <2> HIDE DEF wrong
  <2>6. ma[i] = MatchesFrom(ma, pattern, a, i) /\ mb[i] = MatchesFrom(mb, pattern, b, i)
    BY <1>1, <1>2, <2>3
  <2>7. CASE i > Len(pattern)
    <3>1. ma[i] = {Len(a) + 1} /\ mb[i] = {Len(b) + 1}
      BY <2>6, <2>7, Zenon DEF MatchesFrom
    <3>2. j = Len(a) + 1 /\ j = Len(b) + 1
      BY <2>4, <3>1
    <3> QED BY <1>3, <2>4, <3>2 DEF SameFrom
  <2>8. CASE ~(i > Len(pattern))
    <3>1. i \in 1 .. Len(pattern)
      BY <2>3, <2>8
    <3>2. PICK c : element(pattern, i).chars = {c}
      BY <3>1, PlainElement
    <3>3. pattern[i] # "*" /\ pattern[i] # "?"
      BY <3>1, PlainElement DEF Special
    <3>4. PICK e : e = element(pattern, i).next
      OBVIOUS
    <3>5. e \in i + 1 .. last
      BY <3>1, <3>4, ElementEnds
    <3>6. /\ ma[i] = {x \in 1 .. Len(a) : a[x] \in {c} /\ x + 1 \in ma[e]}
          /\ mb[i] = {x \in 1 .. Len(b) : b[x] \in {c} /\ x + 1 \in mb[e]}
      BY <2>6, <2>8, <3>2, <3>3, <3>4, Zenon DEF MatchesFrom
    <3>7. /\ j \in 1 .. Len(a) /\ j \in 1 .. Len(b) /\ a[j] = b[j]
          /\ j + 1 \in ma[e] /\ j + 1 \in mb[e]
      BY <2>4, <3>6
    <3>8. SameFrom(a, b, j + 1)
      BY <2>5, <3>5, <3>7
    <3> QED BY <1>3, <2>4, <3>7, <3>8 DEF SameFrom
  <2> QED BY <2>7, <2>8
<1>5. Both(1, 1)
  BY <1>1, <1>2
<1>6. last - 1 \in Nat /\ last - 1 < last /\ last - (last - 1) = 1
  BY <1>3
<1>7. SameFrom(a, b, 1)
  <2>1. last - 1 \notin wrong
    BY <1>4
  <2> QED BY <1>5, <1>6, <2>1
<1>8. Len(a) = Len(b) /\ \A k \in 1 .. Len(a) : a[k] = b[k]
  BY <1>7 DEF SameFrom
<1> QED BY <1>8, SeqEqual

-----------------------------------------------------------------------------
(* What becomes of a word *)

(* glob finds finitely many files. *)
LEMMA GlobFinds ==
  ASSUME NEW pattern
  PROVE  /\ IsFiniteSet(matches(pattern))
         /\ pass_glob(pattern) \in Seq(matches(pattern))
         /\ Len(pass_glob(pattern)) = Cardinality(matches(pattern))
<1>1. IsFiniteSet(Files) /\ matches(pattern) \in SUBSET Files
  BY ExpanderAssumption DEF matches
<1>2. IsFiniteSet(matches(pattern))
  BY <1>1, FS_Subset
<1> QED BY <1>2, SetToSeqIs DEF pass_glob

(* Without a pattern there is one file of the name at most.                *)
LEMMA GlobFindsOne ==
  ASSUME NEW S, NEW pattern \in Seq(S), S \cap Special = {}
  PROVE  Len(pass_glob(pattern)) <= 1
<1>1. ASSUME NEW a \in matches(pattern), NEW b \in matches(pattern) PROVE a = b
  <2>1. /\ a \in Seq(Range(a)) /\ b \in Seq(Range(b))
        /\ glob_matches(pattern, a) /\ glob_matches(pattern, b)
    BY ExpanderAssumption DEF matches
  <2> QED BY <2>1, OneName
<1>2. CASE matches(pattern) = {}
  BY <1>2, GlobFinds, FS_EmptySet
<1>3. CASE matches(pattern) # {}
  <2>1. PICK a : matches(pattern) = {a}
    BY <1>1, <1>3
  <2>2. Cardinality(matches(pattern)) = 1
    BY <2>1, FS_Singleton
  <2> QED BY <2>2, GlobFinds
<1> QED BY <1>2, <1>3

(* A word becomes a sequence of arguments. *)
LEMMA EntryIs ==
  ASSUME NEW word
  PROVE  argv_entry(word) \in Seq(Range(argv_entry(word)))
<1>1. ASSUME NEW v PROVE <<v>> \in Seq(Range(<<v>>))
  BY DEF Range
<1>2. ASSUME NEW pattern PROVE pass_glob(pattern) \in Seq(Range(pass_glob(pattern)))
  <2>1. pass_glob(pattern) \in Seq(matches(pattern))
    BY GlobFinds
  <2> QED BY <2>1 DEF Range
<1> QED BY <1>1, <1>2, Zenon DEF argv_entry

(* The passes before globbing leave literals alone.                        *)
LEMMA LiteralsStay ==
  ASSUME NEW word, word \in Seq(Range(word)), \A part \in Range(word) : part.type = "literal"
  PROVE  /\ pass_expand_tilde(pass_expand_params(word)) = word
         /\ ~pass_expand_tilde_Fails(word)
<1>1. \A i \in DOMAIN word : word[i].type = "literal"
  BY DEF Range
<1>2. word = [i \in DOMAIN word |-> word[i]]
  OBVIOUS
<1>3. pass_expand_params(word) = word
  <2>1. \A i \in DOMAIN word : word[i].type # "variable"
    BY <1>1
  <2> QED BY <1>2, <2>1 DEF pass_expand_params
<1>4. pass_expand_tilde(word) = word
  <2>1. \A i \in DOMAIN word : word[i].type # "tilde"
    BY <1>1
  <2> QED BY <1>2, <2>1 DEF pass_expand_tilde
<1>5. ~pass_expand_tilde_Fails(word)
  BY <1>1 DEF pass_expand_tilde_Fails
<1> QED BY <1>3, <1>4, <1>5

(* Literals without pattern characters become one argument at most.        *)
LEMMA PlainEntry ==
  ASSUME NEW S, S \cap Special = {}, NEW word, word \in Seq(Range(word)),
         \A part \in Range(word) : part.type = "literal" /\ part.value \in Seq(S)
  PROVE  Len(argv_entry(word)) <= 1
<1>1. pass_expand_tilde(pass_expand_params(word)) = word
  BY LiteralsStay
<1>2. CASE single_literal(word)
  <2>1. argv_entry(word) = <<word[1].value>>
    BY <1>1, <1>2 DEF argv_entry
  <2> QED BY <2>1
<1>3. CASE ~single_literal(word)
  <2> DEFINE values == [i \in DOMAIN word |-> word[i].value]
  <2>1. argv_entry(word) = pass_glob(FlattenSeq(values))
    BY <1>1, <1>3, Zenon DEF argv_entry, build_str_from_parts
  <2>2. values \in Seq(Seq(S))
    <3>1. \A i \in DOMAIN word : word[i].value \in Seq(S)
      BY DEF Range
    <3>2. DOMAIN word = 1 .. Len(word) /\ Len(word) \in Nat
      OBVIOUS
    <3> QED BY <3>1, <3>2
  <2> HIDE DEF values
  <2>3. FlattenSeq(values) \in Seq(S)
    BY <2>2, FlattenType
  <2> QED BY <2>1, <2>3, GlobFindsOne
<1> QED BY <1>2, <1>3

(* A single literal becomes what it is, without globbing.                  *)
LEMMA QuotedEntry ==
  ASSUME NEW v
  PROVE  argv_entry(<<literal(v)>>) = <<v>> /\ ~word_fails(<<literal(v)>>)
<1> DEFINE word == <<literal(v)>>
<1>1. /\ word \in Seq(Range(word)) /\ \A part \in Range(word) : part.type = "literal"
      /\ Len(word) = 1 /\ word[1].type = "literal" /\ word[1].value = v
  BY DEF Range, literal
<1> HIDE DEF word
<1>2. pass_expand_tilde(pass_expand_params(word)) = word /\ ~pass_expand_tilde_Fails(word)
  BY <1>1, LiteralsStay
<1>3. argv_entry(word) = <<v>>
  BY <1>1, <1>2 DEF argv_entry, single_literal
<1>4. <<v>> # <<>>
  OBVIOUS
<1>5. ~word_fails(word)
  BY <1>2, <1>3, <1>4, Zenon DEF word_fails
<1> QED BY <1>3, <1>5 DEF word

-----------------------------------------------------------------------------
(* What the parts of a word are *)

(* A literal takes a character at least. *)
LEMMA LiteralMoves ==
  ASSUME LineInv, InWord, Char(pos) \notin LiteralEnds(quote_ctx)
  PROVE  handle_literal.to > pos
<1>1. /\ input \in Seq(Chars) /\ pos \in 0 .. Len(input) /\ Len(input) \in Nat
      /\ quote_ctx \in Quotes \cup {"none"}
  BY WordGoesOn
<1>2. handle_literal.to \in pos .. Len(input) /\ Char(handle_literal.to) \in LiteralEnds(quote_ctx)
  BY <1>1, LiteralIsSound DEF SoundLiteral
<1> QED BY <1>1, <1>2

(* What is read from p on within single quotes, r, is what was typed.      *)
AsTyped(r, p) ==
  /\ r.to \in p .. Len(input)
  /\ r = [to |-> r.to, value |-> Text(p, r.to)]
  /\ Char(r.to) \in {"'", NUL}
  /\ \A q \in p .. r.to - 1 : Char(q) # "'"

(* One step of such a literal. *)
LEMMA TypedStep ==
  ASSUME input \in Seq(Chars), quote_ctx = "'", NEW p \in 0 .. Len(input), NEW rest,
         \A q \in p + 1 .. Len(input) : AsTyped(rest[q], q)
  PROVE  AsTyped(LiteralRest(rest, p), p)
<1>1. LiteralEnds(quote_ctx) = {"'", NUL} /\ ~Escapes(quote_ctx)
  BY DEF LiteralEnds, Escapes
<1>2. CASE Char(p) \in LiteralEnds(quote_ctx)
  <2>1. LiteralRest(rest, p) = [to |-> p, value |-> <<>>]
    BY <1>2 DEF LiteralRest
  <2>2. Text(p, p) = <<>>
    BY SubSeqEmpty DEF Text
  <2>3. \A q \in p .. p - 1 : Char(q) # "'"
    OBVIOUS
  <2> QED BY <1>1, <1>2, <2>1, <2>2, <2>3 DEF AsTyped
<1>3. CASE Char(p) \notin LiteralEnds(quote_ctx)
  <2>1. p < Len(input) /\ Len(input) \in Nat
    BY <1>3, LiteralGoesOn
  <2>2. LiteralNext(p) = p + 1 /\ LiteralText(p) = <<Char(p)>>
    BY <1>1 DEF LiteralNext, LiteralText
  <2>3. LiteralRest(rest, p) = [rest[p + 1] EXCEPT !.value = <<Char(p)>> \o @]
    BY <1>3, <2>2, Zenon DEF LiteralRest
  <2>4. PICK r : r = rest[p + 1]
    OBVIOUS
  <2>5. AsTyped(r, p + 1)
    BY <2>1, <2>4
  <2>6. PICK e \in p + 1 .. Len(input) : /\ r = [to |-> e, value |-> Text(p + 1, e)]
                                         /\ Char(e) \in {"'", NUL}
                                         /\ \A q \in p + 1 .. e - 1 : Char(q) # "'"
    BY <2>5 DEF AsTyped
  <2>7. Char(p) = input[p + 1]
    BY <2>1 DEF Char
  <2>8. <<Char(p)>> \o Text(p + 1, e) = Text(p, e)
    <3>1. p + 1 \in 1 .. Len(input) /\ e \in p + 1 .. Len(input)
      BY <2>1
    <3>2. SubSeq(input, p + 1, e) = <<input[p + 1]>> \o SubSeq(input, (p + 1) + 1, e)
      BY <3>1, SubSeqRecursiveFirst
    <3> QED BY <2>7, <3>2, Zenon DEF Text
  <2>9. PICK v, w : v = Text(p, e) /\ w = Text(p + 1, e) /\ v = <<Char(p)>> \o w
    BY <2>8
  <2>10. LiteralRest(rest, p) = [to |-> e, value |-> v]
    <3>1. LiteralRest(rest, p) = [r EXCEPT !.value = <<Char(p)>> \o r.value]
      BY <2>3, <2>4
    <3>2. r.value = w /\ r = [to |-> e, value |-> w]
      BY <2>6, <2>9
    <3>3. [r EXCEPT !.value = v] = [to |-> e, value |-> v]
      BY <3>2
    <3> QED BY <2>9, <3>1, <3>2, <3>3, Zenon
  <2>11. [to |-> e, value |-> v].to = e
    OBVIOUS
  <2>12. e \in p .. Len(input)
    BY <2>6
  <2>13. \A q \in p .. e - 1 : Char(q) # "'"
    <3>1. Char(p) # "'"
      BY <1>1, <1>3
    <3> QED BY <2>6, <3>1
  <2> QED BY <2>6, <2>9, <2>10, <2>11, <2>12, <2>13, Zenon DEF AsTyped
<1> QED BY <1>2, <1>3

(* Within single quotes a literal is what was typed. *)
LEMMA QuotedLiteral ==
  ASSUME input \in Seq(Chars), quote_ctx = "'", pos \in 0 .. Len(input)
  PROVE  AsTyped(handle_literal, pos)
<1>1. PICK rest : /\ handle_literal = rest[pos]
                  /\ \A q \in pos .. Len(input) : rest[q] = LiteralRest(rest, q)
  BY LiteralUnfolds
<1> DEFINE wrong == {n \in Nat : /\ n <= Len(input) - pos
                                 /\ ~AsTyped(rest[Len(input) - n], Len(input) - n)}
<1>2. ASSUME wrong # {} PROVE FALSE
  <2>1. PICK n \in wrong : \A k \in wrong : n <= k
    BY <1>2, SmallestMember
  <2> DEFINE p == Len(input) - n
  <2>2. p \in pos .. Len(input) /\ p \in 0 .. Len(input)
    BY <2>1
  <2>3. ASSUME NEW q \in p + 1 .. Len(input) PROVE AsTyped(rest[q], q)
    <3>1. /\ Len(input) - q \in Nat
          /\ Len(input) - q <= Len(input) - pos
          /\ Len(input) - q < n
          /\ Len(input) - (Len(input) - q) = q
      BY <2>1, <2>2
    <3> QED BY <2>1, <3>1
  <2>4. rest[p] = LiteralRest(rest, p)
    BY <1>1, <2>2
  <2>5. ~AsTyped(rest[p], p)
    BY <2>1
  <2> HIDE DEF p
  <2>6. AsTyped(LiteralRest(rest, p), p)
    BY <2>2, <2>3, TypedStep
  <2> QED BY <2>4, <2>5, <2>6
<1>3. /\ Len(input) - pos \in Nat
      /\ Len(input) - (Len(input) - pos) = pos
      /\ Len(input) - pos <= Len(input) - pos
  OBVIOUS
<1>4. Len(input) - pos \notin wrong
  BY <1>2
<1>5. AsTyped(rest[Len(input) - (Len(input) - pos)], Len(input) - (Len(input) - pos))
  BY <1>3, <1>4
<1> QED BY <1>1, <1>3, <1>5

(* A line with nothing to match or to substitute. *)
PlainLine == Range(input) \cap (is_glob_char \cup {"$", "~"}) = {}

PlainParts(word) ==
  /\ word \in Seq(Range(word))
  /\ \A part \in Range(word) : part.type = "literal" /\ part.value \in Seq(LiteralChars)

(* The parts of a word between from and to, as far as they are known.      *)
PartsAre(word, from, to) ==
  /\ PlainLine => PlainParts(word)
  /\ IsQuoted(Text(from, to)) =>
       word = <<literal(SubSeq(Text(from, to), 2, Len(Text(from, to)) - 1))>>

(* Of a word that begins with a single quote: nothing is read but the      *)
(* quote, or what it quotes, or also the quote that ends it; or else there *)
(* is some other quote in the word.                                        *)
Quoted(p, word) ==
  /\ \A q \in start + 1 .. p - 1 : Char(q) \notin Quotes
  /\ word = IF p = start + 1 THEN <<>> ELSE <<literal(Text(start + 1, p))>>

QuoteReadTo(p, ctx, word) ==
  \/ p = start /\ ctx = "none" /\ word = <<>>
  \/ /\ p > start /\ ctx = "'" /\ Quoted(p, word)
     /\ p = start + 1 \/ Char(p) \in {"'", NUL}
  \/ p > start + 1 /\ ctx = "none" /\ Char(p - 1) = "'" /\ Quoted(p - 1, word)
  \/ \E q \in start + 1 .. p - 1 : Char(q) \in Quotes /\ (q < p - 1 \/ Char(q) # "'")

QuoteRead == QuoteReadTo(pos, quote_ctx, parts)

PartsInv ==
  /\ phase = "prompt" => tokens = <<>>
  /\ \A t \in DOMAIN tokens :
       tokens[t].type = "word" => PartsAre(tokens[t].parts, tokens[t].from, tokens[t].to)
  /\ phase = "word" =>
       /\ PlainLine => PlainParts(parts)
       /\ Char(start) = "'" => QuoteRead

(* The lexer moves on, and what it has read of the word stays.             *)
LEMMA PartMoves ==
  ASSUME LineInv, lex_next_word_part, phase' = "word"
  PROVE  /\ InWord /\ UNCHANGED <<input, start, tokens>>
         /\ pos' \in pos + 1 .. Len(input)
         /\ start \in 0 .. pos /\ pos \in 0 .. Len(input) - 1 /\ Len(input) \in Nat
         /\ Char(pos) = input[pos + 1] /\ Char(pos) # NUL
         /\ quote_ctx = "none" => Char(pos) \notin Blank \cup is_meta_char
         /\ phase = "word"
<1>1. InWord /\ UNCHANGED <<input, start, tokens>> /\ ~VariableCrashes
  BY DEF lex_next_word_part, Quote, Variable, VariableCrashes, Tilde, Glob, Literal, InWord
<1>2. /\ start \in 0 .. pos /\ pos \in 0 .. Len(input) - 1 /\ Len(input) \in Nat
      /\ Char(pos) = input[pos + 1] /\ Char(pos) # NUL
      /\ quote_ctx = "none" => Char(pos) \notin Blank \cup is_meta_char
      /\ quote_ctx \in Quotes \cup {"none"}
      /\ phase = "word"
  BY <1>1, WordGoesOn DEF LineInv, WordsTypeOK, InWord, WordIsOver
<1>3. pos' \in pos + 1 .. Len(input)
  <2>1. CASE Quote
    BY <1>1, <2>1, PartEnds DEF Quote
  <2>2. CASE Variable
    BY <1>1, <2>2, PartEnds DEF Variable
  <2>3. CASE Tilde
    BY <1>1, <2>3, PartEnds DEF Tilde
  <2>4. CASE Glob
    BY <1>1, <2>4, PartEnds DEF Glob
  <2>5. CASE Literal
    <3>1. Char(pos) \notin LiteralEnds(quote_ctx)
      <4>1. CASE quote_ctx = "none"
        BY <1>2, <2>5, <4>1 DEF Literal, LiteralEnds, IsVariable, IsGlob
      <4>2. CASE quote_ctx = "'"
        BY <1>2, <2>5, <4>2 DEF Literal, LiteralEnds, Quotes
      <4>3. CASE quote_ctx = "\""
        BY <1>2, <2>5, <4>3 DEF Literal, LiteralEnds, Quotes, IsVariable
      <4> QED BY <1>2, <4>1, <4>2, <4>3 DEF Quotes
    <3>2. handle_literal.to > pos
      BY <1>1, <3>1, LiteralMoves
    <3>3. handle_literal.to \in pos .. Len(input)
      BY <1>1, PartEnds
    <3> QED BY <1>2, <2>5, <3>2, <3>3 DEF Literal
  <2> QED BY <1>1, <2>1, <2>2, <2>3, <2>4, <2>5 DEF lex_next_word_part
<1> QED BY <1>1, <1>2, <1>3

(* In a word that begins with a quote. *)
LEMMA QuoteReadStep ==
  ASSUME LineInv, lex_next_word_part, phase' = "word", Char(start) = "'", QuoteRead
  PROVE  QuoteRead'
<1>1. /\ InWord /\ UNCHANGED <<input, start, tokens>>
      /\ pos' \in pos + 1 .. Len(input)
      /\ start \in 0 .. pos /\ pos \in 0 .. Len(input) - 1 /\ Len(input) \in Nat
      /\ Char(pos) = input[pos + 1] /\ Char(pos) # NUL
  BY PartMoves
<1>2. SUFFICES QuoteReadTo(pos', quote_ctx', parts')
  <2>1. \A q : Char(q)' = Char(q)
    BY <1>1 DEF Char
  <2>2. \A from, to : Text(from, to)' = Text(from, to)
    BY <1>1 DEF Text
  <2>3. \A p, word : Quoted(p, word)' <=> Quoted(p, word)
    BY <1>1, <2>1, <2>2 DEF Quoted
  <2>4. \A p, ctx, word : QuoteReadTo(p, ctx, word)' <=> QuoteReadTo(p, ctx, word)
    BY <1>1, <2>1, <2>3 DEF QuoteReadTo
  <2> QED BY <2>4 DEF QuoteRead
<1>3. CASE pos = start /\ quote_ctx = "none" /\ parts = <<>>
  <2>1. Quote
    BY <1>3 DEF lex_next_word_part, Quotes, Variable, VariableCrashes, IsVariable, Tilde, IsTilde,
                Glob, IsGlob, is_glob_char, Literal
  <2>2. quote_ctx' = "'" /\ pos' = start + 1 /\ parts' = <<>>
    BY <1>3, <2>1 DEF Quote, after_quote
  <2>3. Quoted(start + 1, <<>>)
    BY <1>1 DEF Quoted
  <2> QED BY <1>1, <2>2, <2>3 DEF QuoteReadTo
<1>4. CASE /\ pos > start /\ quote_ctx = "'" /\ Quoted(pos, parts)
           /\ pos = start + 1 \/ Char(pos) \in {"'", NUL}
  <2>1. CASE Char(pos) \in Quotes
    <3>1. Quote
      BY <1>4, <2>1 DEF lex_next_word_part, Variable, VariableCrashes, IsVariable, Tilde,
                        IsTilde, Glob, IsGlob, Literal
    <3>2. quote_ctx' = "none" /\ pos' = pos + 1 /\ parts' = parts
      BY <1>4, <3>1 DEF Quote, after_quote
    <3>3. (pos + 1) - 1 = pos /\ pos + 1 > start + 1 /\ pos \in start + 1 .. pos
      BY <1>1, <1>4
    <3> QED BY <1>4, <2>1, <3>2, <3>3, Zenon DEF QuoteReadTo
  <2>2. CASE Char(pos) \notin Quotes
    <3>1. pos = start + 1 /\ parts = <<>>
      BY <1>1, <1>4, <2>2 DEF Quotes, Quoted
    <3>2. Literal
      BY <1>4, <2>2 DEF lex_next_word_part, Quote, Variable, VariableCrashes, IsVariable, Tilde,
                        IsTilde, Glob, IsGlob
    <3>3. input \in Seq(Chars) /\ pos \in 0 .. Len(input)
      BY <1>1 DEF LineInv
    <3>4. AsTyped(handle_literal, pos)
      BY <1>4, <3>3, QuotedLiteral
    <3>5. PICK e : e = pos'
      OBVIOUS
    <3>6. /\ e \in pos + 1 .. Len(input) /\ Char(e) \in {"'", NUL}
          /\ quote_ctx' = "'" /\ AddPart("literal", Text(start + 1, e))
      BY <1>1, <1>4, <3>1, <3>2, <3>4, <3>5 DEF Literal, AsTyped
    <3>7. parts' = <<literal(Text(start + 1, e))>>
      <4>1. Text(start + 1, e) # <<>>
        <5>1. Len(Text(start + 1, e)) = e - (start + 1)
          <6>1. /\ start + 2 \in Int /\ e \in Int
                /\ \A k \in start + 2 .. e : input[k] \in Chars
            BY <1>1, <3>1, <3>3, <3>6
          <6>2. Len(SubSeq(input, start + 2, e)) = IF start + 2 <= e THEN e - (start + 2) + 1 ELSE 0
            BY <6>1, SubSeqProperties
          <6>3. (start + 1) + 1 = start + 2 /\ start + 2 <= e /\ e - (start + 2) + 1 = e - (start + 1)
            BY <1>1, <3>1, <3>6
          <6> QED BY <6>2, <6>3 DEF Text
        <5>2. e - (start + 1) # 0
          BY <1>1, <3>1, <3>6
        <5>3. Text(start + 1, e) = <<>> => Len(Text(start + 1, e)) = 0
          OBVIOUS
        <5> QED BY <5>1, <5>2, <5>3
      <4> HIDE DEF Text
      <4>2. parts' = Append(<<>>, literal(Text(start + 1, e)))
        BY <3>1, <3>6, <4>1 DEF AddPart, literal
      <4> QED BY <4>2
    <3>8. \A q \in pos .. e - 1 : Char(q) # "'"
      BY <1>1, <1>4, <3>1, <3>2, <3>4, <3>5 DEF Literal, AsTyped
    <3>9. CASE \E q \in start + 1 .. e - 1 : Char(q) \in Quotes
      <4>1. PICK q \in start + 1 .. e - 1 : Char(q) \in Quotes
        BY <3>9
      <4>2. Char(q) # "'"
        BY <3>1, <3>8, <4>1
      <4> QED BY <3>5, <4>1, <4>2, Zenon DEF QuoteReadTo
    <3>10. CASE \A q \in start + 1 .. e - 1 : Char(q) \notin Quotes
      <4>1. e > start /\ e # start + 1
        BY <1>1, <3>1, <3>6
      <4>2. Quoted(e, parts')
        BY <3>7, <3>10, <4>1, Zenon DEF Quoted
      <4> QED BY <3>5, <3>6, <4>1, <4>2, Zenon DEF QuoteReadTo
    <3> QED BY <3>9, <3>10, Zenon
  <2> QED BY <2>1, <2>2
<1>5. CASE pos > start + 1 /\ quote_ctx = "none" /\ Char(pos - 1) = "'" /\ Quoted(pos - 1, parts)
  <2>1. pos - 1 \in start + 1 .. pos' - 1 /\ pos - 1 < pos' - 1
    <3>1. PICK s, p, n : s = start /\ p = pos /\ n = pos'
      OBVIOUS
    <3>2. s \in Nat /\ p \in Nat /\ n \in Nat /\ p < n /\ p > s + 1
      BY <1>1, <1>5, <3>1
    <3>3. p - 1 \in s + 1 .. n - 1 /\ p - 1 < n - 1
      BY <3>2
    <3> QED BY <3>1, <3>3, Zenon
  <2>2. Char(pos - 1) \in Quotes
    BY <1>5 DEF Quotes
  <2> QED BY <2>1, <2>2, Zenon DEF QuoteReadTo
<1>6. CASE \E q \in start + 1 .. pos - 1 : Char(q) \in Quotes /\ (q < pos - 1 \/ Char(q) # "'")
  <2>1. PICK q \in start + 1 .. pos - 1 : Char(q) \in Quotes /\ (q < pos - 1 \/ Char(q) # "'")
    BY <1>6
  <2>2. q \in start + 1 .. pos' - 1 /\ q < pos' - 1
    <3>1. PICK s, p, n : s = start /\ p = pos /\ n = pos'
      OBVIOUS
    <3>2. s \in Nat /\ p \in Nat /\ n \in Nat /\ p < n /\ q \in s + 1 .. p - 1
      BY <1>1, <2>1, <3>1
    <3>3. q \in s + 1 .. n - 1 /\ q < n - 1
      BY <3>2
    <3> QED BY <3>1, <3>3, Zenon
  <2> QED BY <2>1, <2>2, Zenon DEF QuoteReadTo
<1> QED BY <1>3, <1>4, <1>5, <1>6 DEF QuoteRead, QuoteReadTo

(* On a plain line a word has literals only. *)
LEMMA PlainPartsStep ==
  ASSUME LineInv, lex_next_word_part, phase' = "word", PlainLine, PlainParts(parts)
  PROVE  PlainParts(parts')
<1>1. /\ InWord /\ pos \in 0 .. Len(input) - 1 /\ Len(input) \in Nat /\ Char(pos) = input[pos + 1]
      /\ input \in Seq(Chars) /\ quote_ctx \in Quotes \cup {"none"}
  BY PartMoves, WordGoesOn
<1>2. Char(pos) \notin is_glob_char \cup {"$", "~"}
  <2>1. Char(pos) \in Range(input)
    BY <1>1 DEF Range
  <2> QED BY <2>1 DEF PlainLine
<1>3. Quote \/ Literal
  <2>1. ~IsVariable /\ ~IsTilde /\ ~IsGlob
    BY <1>2 DEF IsVariable, IsTilde, IsGlob
  <2> QED BY <2>1 DEF lex_next_word_part, Variable, VariableCrashes, Tilde, Glob
<1>4. CASE Quote
  BY <1>4 DEF Quote
<1>5. CASE Literal
  <2>1. PICK v : v = handle_literal.value /\ AddPart("literal", v)
    BY <1>5 DEF Literal
  <2>2. v \in Seq(LiteralChars)
    BY <1>1, <2>1, LiteralIsSound DEF SoundLiteral
  <2>3. CASE v = <<>>
    BY <2>1, <2>3 DEF AddPart
  <2>4. CASE v # <<>>
    <3>1. PICK part : /\ parts' = Append(parts, part)
                      /\ part.type = "literal" /\ part.value = v
      BY <2>1, <2>4 DEF AddPart
    <3>2. parts \in Seq(Range(parts))
      BY DEF PlainParts
    <3>3. /\ parts' \in Seq(Range(parts'))
          /\ DOMAIN parts' = 1 .. Len(parts) + 1
          /\ \A i \in 1 .. Len(parts) : parts'[i] = parts[i]
          /\ parts'[Len(parts) + 1] = part
      BY <3>1, <3>2, AppendedToken
    <3>4. Len(parts) \in Nat /\ DOMAIN parts = 1 .. Len(parts)
      BY <3>2
    <3>5. ASSUME NEW i \in DOMAIN parts'
          PROVE  parts'[i].type = "literal" /\ parts'[i].value \in Seq(LiteralChars)
      <4>1. CASE i \in 1 .. Len(parts)
        <5>1. parts'[i] \in Range(parts)
          BY <3>3, <3>4, <4>1 DEF Range
        <5> QED BY <5>1 DEF PlainParts
      <4>2. CASE i = Len(parts) + 1
        BY <2>2, <3>1, <3>3, <4>2
      <4> QED BY <3>3, <3>4, <4>1, <4>2
    <3> QED BY <3>3, <3>5 DEF PlainParts, Range
  <2> QED BY <2>3, <2>4
<1> QED BY <1>3, <1>4, <1>5

(* The characters of a word, by their places on the line. *)
LEMMA TextIs ==
  ASSUME input \in Seq(Chars), NEW from \in Nat, NEW to \in from .. Len(input)
  PROVE  /\ Len(Text(from, to)) = to - from
         /\ \A i \in 1 .. to - from : Text(from, to)[i] = Char(from + i - 1)
<1>1. Len(input) \in Nat /\ to \in Nat
  OBVIOUS
<1>2. from + 1 \in Int /\ to \in Int /\ \A k \in from + 1 .. to : input[k] \in Chars
  BY <1>1
<1>3. /\ Len(SubSeq(input, from + 1, to)) = IF from + 1 <= to THEN to - (from + 1) + 1 ELSE 0
      /\ \A i \in 1 .. to - (from + 1) + 1 :
           SubSeq(input, from + 1, to)[i] = input[(from + 1) + i - 1]
  <2>1. /\ Len(SubSeq(input, from + 1, to)) = IF from + 1 <= to THEN to - (from + 1) + 1 ELSE 0
        /\ \A i \in 1 .. to - (from + 1) + 1 :
             SubSeq(input, from + 1, to)[i] = input[(from + 1) + i - 1]
    BY <1>2, SubSeqProperties
  <2> QED BY <2>1
<1>4. Len(Text(from, to)) = to - from
  <2>1. (IF from + 1 <= to THEN to - (from + 1) + 1 ELSE 0) = to - from
    BY <1>1
  <2> QED BY <1>3, <2>1 DEF Text
<1>5. ASSUME NEW i \in 1 .. to - from PROVE Text(from, to)[i] = Char(from + i - 1)
  <2>1. /\ i \in 1 .. to - (from + 1) + 1 /\ (from + 1) + i - 1 = (from + i - 1) + 1
        /\ from + i - 1 \in 0 .. Len(input) - 1
    BY <1>1
  <2>2. Char(from + i - 1) = input[(from + i - 1) + 1]
    BY <2>1 DEF Char
  <2> QED BY <1>3, <2>1, <2>2 DEF Text
<1> QED BY <1>4, <1>5

(* A word that is quoted as a whole has one part, what is quoted. *)
LEMMA QuotedWordIs ==
  ASSUME LineInv, phase = "word", Char(start) = "'" => QuoteRead, IsQuoted(Text(start, pos))
  PROVE  parts = <<literal(SubSeq(Text(start, pos), 2, Len(Text(start, pos)) - 1))>>
<1>1. /\ input \in Seq(Chars) /\ Len(input) \in Nat
      /\ pos \in 0 .. Len(input) /\ start \in 0 .. pos /\ start \in Nat /\ pos \in Nat
      /\ pos \in start .. Len(input)
  BY DEF LineInv, WordsTypeOK
<1>2. PICK word : word = Text(start, pos)
  OBVIOUS
<1>3. /\ Len(word) = pos - start
      /\ \A i \in 1 .. pos - start : word[i] = Char(start + i - 1)
  BY <1>1, <1>2, TextIs
<1>4. pos - start > 2 /\ word[1] = "'" /\ word[pos - start] = "'"
      /\ \A i \in 2 .. (pos - start) - 1 : word[i] \notin Quotes
  BY <1>2, <1>3 DEF IsQuoted, Last
<1>5. Char(start) = "'" /\ Char(pos - 1) = "'"
  <2>1. /\ 1 \in 1 .. pos - start /\ start + 1 - 1 = start
        /\ pos - start \in 1 .. pos - start /\ start + (pos - start) - 1 = pos - 1
    BY <1>1, <1>4
  <2> QED BY <1>3, <1>4, <2>1
<1>6. ASSUME NEW q \in start + 1 .. pos - 2 PROVE Char(q) \notin Quotes
  <2>1. /\ q - start + 1 \in 1 .. pos - start /\ q - start + 1 \in 2 .. (pos - start) - 1
        /\ start + (q - start + 1) - 1 = q
    BY <1>1
  <2> QED BY <1>3, <1>4, <2>1
<1>7. pos > start + 1 /\ quote_ctx = "none" /\ Quoted(pos - 1, parts)
  <2>1. ~(pos = start)
    BY <1>1, <1>4
  <2>2. ~(pos > start /\ quote_ctx = "'" /\ Quoted(pos, parts))
    <3>1. pos - 1 \in start + 1 .. pos - 1
      BY <1>1, <1>4
    <3>2. Char(pos - 1) \in Quotes
      BY <1>5, Zenon DEF Quotes
    <3> QED BY <3>1, <3>2 DEF Quoted
  <2>3. ~\E q \in start + 1 .. pos - 1 : Char(q) \in Quotes /\ (q < pos - 1 \/ Char(q) # "'")
    <3>1. SUFFICES ASSUME NEW q \in start + 1 .. pos - 1,
                          Char(q) \in Quotes, q < pos - 1 \/ Char(q) # "'"
                   PROVE  FALSE
      OBVIOUS
    <3>2. q < pos - 1 => q \in start + 1 .. pos - 2
      BY <1>1
    <3>3. q = pos - 1
      BY <1>1, <1>6, <3>1, <3>2
    <3> QED BY <1>1, <1>5, <3>1, <3>3
  <2> QED BY <1>5, <2>1, <2>2, <2>3 DEF QuoteRead, QuoteReadTo
<1>8. parts = <<literal(Text(start + 1, pos - 1))>>
  <2>1. pos - 1 # start + 1
    BY <1>1, <1>4
  <2> QED BY <1>7, <2>1, Zenon DEF Quoted
<1>9. SubSeq(word, 2, Len(word) - 1) = Text(start + 1, pos - 1)
  <2>1. /\ start + 1 \in 1 .. Len(input) /\ pos \in 1 .. Len(input)
        /\ 2 \in 1 .. pos - (start + 1) + 1 /\ (pos - start) - 1 \in 1 .. pos - (start + 1) + 1
        /\ (start + 1) + 2 - 1 = (start + 1) + 1
        /\ (start + 1) + ((pos - start) - 1) - 1 = pos - 1
    BY <1>1, <1>4
  <2>2. SubSeq(SubSeq(input, start + 1, pos), 2, (pos - start) - 1)
          = SubSeq(input, (start + 1) + 2 - 1, (start + 1) + ((pos - start) - 1) - 1)
    BY <1>1, <2>1, SubSeqOfSubSeq
  <2> QED BY <1>2, <1>3, <2>1, <2>2, Zenon DEF Text
<1> QED BY <1>2, <1>8, <1>9, Zenon

(* What is known of parts depends on the line only. *)
LEMMA SameParts ==
  ASSUME input' = input
  PROVE  /\ PlainLine' <=> PlainLine
         /\ \A word : PlainParts(word)' <=> PlainParts(word)
         /\ \A word, from, to : PartsAre(word, from, to)' <=> PartsAre(word, from, to)
<1>1. PlainLine' <=> PlainLine
  BY DEF PlainLine, Range
<1>2. LiteralChars' = LiteralChars
  BY DEF LiteralChars, Range
<1>3. \A word : PlainParts(word)' <=> PlainParts(word)
  BY <1>2 DEF PlainParts
<1>4. \A from, to : Text(from, to)' = Text(from, to)
  BY DEF Text
<1>5. \A word, from, to : PartsAre(word, from, to)' <=> PartsAre(word, from, to)
  BY <1>1, <1>3, <1>4 DEF PartsAre
<1> QED BY <1>1, <1>3, <1>5

WordsRead ==
  \A t \in DOMAIN tokens :
    tokens[t].type = "word" => PartsAre(tokens[t].parts, tokens[t].from, tokens[t].to)

(* A token is returned, with its parts. *)
LEMMA PartsToken ==
  ASSUME TokensInv, WordsRead, input' = input,
         NEW token, tokens' = Append(tokens, token),
         token.type = "word" => PartsAre(token.parts, token.from, token.to)
  PROVE  WordsRead'
<1>1. tokens \in Seq(Range(tokens))
  BY DEF TokensInv
<1>2. /\ DOMAIN tokens' = 1 .. Len(tokens) + 1
      /\ \A i \in 1 .. Len(tokens) : tokens'[i] = tokens[i]
      /\ tokens'[Len(tokens) + 1] = token
  BY <1>1, AppendedToken
<1>3. Len(tokens) \in Nat /\ DOMAIN tokens = 1 .. Len(tokens)
  BY <1>1
<1>4. ASSUME NEW t \in 1 .. Len(tokens) + 1, tokens'[t].type = "word"
      PROVE  PartsAre(tokens'[t].parts, tokens'[t].from, tokens'[t].to)
  <2>1. CASE t \in 1 .. Len(tokens)
    BY <1>2, <1>3, <1>4, <2>1 DEF WordsRead
  <2>2. CASE t = Len(tokens) + 1
    BY <1>2, <1>4, <2>2
  <2> QED BY <1>3, <2>1, <2>2
<1>5. \A word, from, to : PartsAre(word, from, to)' <=> PartsAre(word, from, to)
  BY SameParts
<1> QED BY <1>2, <1>4, <1>5 DEF WordsRead

(* No token is returned. *)
LEMMA PartsStay ==
  ASSUME WordsRead, input' = input, tokens' = tokens
  PROVE  WordsRead'
<1>1. \A word, from, to : PartsAre(word, from, to)' <=> PartsAre(word, from, to)
  BY SameParts
<1> QED BY <1>1 DEF WordsRead

(* Every step keeps what is said of the parts.                             *)
LEMMA PartsStep == LineInv /\ TokensInv /\ PartsInv /\ [Next]_vars => PartsInv'
<1> SUFFICES ASSUME LineInv, TokensInv, PartsInv, [Next]_vars PROVE PartsInv'
  OBVIOUS
<1>1. WordsRead /\ (phase = "prompt" => tokens = <<>>)
  BY DEF PartsInv, WordsRead
<1>2. ASSUME input' = input, tokens' = tokens, phase' \notin {"prompt", "word"} PROVE PartsInv'
  <2>1. WordsRead'
    BY <1>1, <1>2, PartsStay
  <2> QED BY <1>2, <2>1 DEF PartsInv, WordsRead
<1>3. ASSUME NEW token, input' = input, tokens' = Append(tokens, token),
             token.type = "word" => PartsAre(token.parts, token.from, token.to),
             phase' \in {"next_token", "parsed"}
      PROVE  PartsInv'
  <2>1. WordsRead'
    BY <1>1, <1>3, PartsToken
  <2> QED BY <1>3, <2>1 DEF PartsInv, WordsRead
<1>4. CASE phase = "prompt" /\ \E line \in Lines : lexer_init(line)
  <2>1. tokens' = <<>> /\ phase' = "next_token"
    BY <1>4 DEF lexer_init
  <2>2. DOMAIN tokens' = {}
    BY <2>1
  <2> QED BY <2>1, <2>2 DEF PartsInv
<1>5. CASE OperatorToken
  <2>1. /\ phase' = "next_token" /\ input' = input /\ Char(TokenStart) \in is_meta_char
        /\ \E token : /\ token.type = operator_type(Char(TokenStart), DoublesAt(TokenStart))
                      /\ tokens' = Append(tokens, token)
    BY <1>5 DEF OperatorToken, Returns
  <2>2. operator_type(Char(TokenStart), DoublesAt(TokenStart)) # "word"
    BY <2>1 DEF operator_type, is_meta_char
  <2> QED BY <1>3, <2>1, <2>2
<1>6. CASE EndOfLine
  <2>1. /\ phase' = "parsed" /\ input' = input
        /\ \E token : token.type = "eof" /\ tokens' = Append(tokens, token)
    BY <1>6 DEF EndOfLine, Returns
  <2> QED BY <1>3, <2>1
<1>7. CASE StartWord
  <2>1. /\ phase' = "word" /\ input' = input /\ tokens' = tokens
        /\ pos' = start' /\ quote_ctx' = "none" /\ parts' = <<>>
    BY <1>7 DEF StartWord
  <2>2. WordsRead'
    BY <1>1, <2>1, PartsStay
  <2>3. PlainParts(parts)'
    BY <2>1 DEF PlainParts, Range
  <2>4. QuoteRead'
    BY <2>1 DEF QuoteRead, QuoteReadTo
  <2> QED BY <2>1, <2>2, <2>3, <2>4 DEF PartsInv, WordsRead
<1>8. CASE EndWord
  <2>1. /\ phase = "word" /\ phase' = "next_token" /\ input' = input
        /\ \E token : /\ token.from = start /\ token.to = pos /\ token.parts = parts
                      /\ tokens' = Append(tokens, token)
    BY <1>8 DEF EndWord, Returns
  <2>2. PartsAre(parts, start, pos)
    <3>1. (PlainLine => PlainParts(parts)) /\ (Char(start) = "'" => QuoteRead)
      BY <2>1 DEF PartsInv
    <3> QED BY <2>1, <3>1, QuotedWordIs DEF PartsAre
  <2> QED BY <1>3, <2>1, <2>2
<1>9. CASE lex_next_word_part
  <2>1. phase' \in {"word", "crashed"} /\ UNCHANGED <<input, start, tokens>>
    BY <1>9 DEF lex_next_word_part, Quote, Variable, VariableCrashes, Tilde, Glob, Literal, InWord
  <2>2. CASE phase' = "crashed"
    BY <1>2, <2>1, <2>2
  <2>3. CASE phase' = "word"
    <3>1. phase = "word"
      BY <1>9, <2>3, PartMoves
    <3>2. PlainLine => PlainParts(parts')
      BY <1>9, <2>3, <3>1, PlainPartsStep DEF PartsInv
    <3>3. PlainLine' => PlainParts(parts)'
      <4>1. (PlainLine' <=> PlainLine) /\ \A word : PlainParts(word)' <=> PlainParts(word)
        BY <2>1, SameParts
      <4>2. LiteralChars' = LiteralChars
        BY <2>1 DEF LiteralChars, Range
      <4> QED BY <3>2, <4>1, <4>2 DEF PlainParts
    <3>4. Char(start)' = "'" => QuoteRead'
      <4>1. Char(start)' = Char(start)
        BY <2>1 DEF Char
      <4> QED BY <1>9, <2>3, <3>1, <4>1, QuoteReadStep DEF PartsInv
    <3>5. WordsRead'
      BY <1>1, <2>1, PartsStay
    <3> QED BY <2>3, <3>3, <3>4, <3>5 DEF PartsInv, WordsRead
  <2> QED BY <2>1, <2>2, <2>3
<1>10. CASE parse_command \/ MalformedRedirection
  <2>1. phase' \in {"expand", "exited"} /\ UNCHANGED <<input, tokens>>
    BY <1>10 DEF parse_command, MalformedRedirection
  <2> QED BY <1>2, <2>1
<1>11. CASE Expands
  <2>1. phase' = "expand" /\ UNCHANGED <<input, tokens>>
    BY <1>11 DEF Expands, lexVars
  <2> QED BY <1>2, <2>1
<1>12. CASE UNCHANGED vars
  <2>1. UNCHANGED <<input, tokens, phase, start, pos, quote_ctx, parts>>
    BY <1>12 DEF vars, lexVars
  <2>2. WordsRead'
    BY <1>1, <2>1, PartsStay
  <2>3. (PlainLine' => PlainParts(parts)') <=> (PlainLine => PlainParts(parts))
    BY <2>1 DEF PlainLine, PlainParts, LiteralChars, Range
  <2>4. (Char(start)' = "'" => QuoteRead') <=> (Char(start) = "'" => QuoteRead)
    BY <2>1 DEF Char, QuoteRead, QuoteReadTo, Quoted, Text
  <2> QED BY <1>1, <2>1, <2>2, <2>3, <2>4 DEF PartsInv, WordsRead
<1> QED BY <1>4, <1>5, <1>6, <1>7, <1>8, <1>9, <1>10, <1>11, <1>12
     DEF Next, LexNext, lexer_next_token

LEMMA PartsInit == Init => PartsInv
<1> SUFFICES ASSUME Init PROVE PartsInv
  OBVIOUS
<1>1. tokens = <<>> /\ phase = "prompt"
  BY DEF Init, LexInit
<1>2. DOMAIN tokens = {}
  BY <1>1
<1> QED BY <1>1, <1>2 DEF PartsInv

-----------------------------------------------------------------------------
(* The words of the command and its arguments *)

(* Tokens among which is one that is no word: the words before it.         *)
LEMMA FirstWordsAre ==
  ASSUME NEW toks, toks \in Seq(Range(toks)), NEW eof \in DOMAIN toks, toks[eof].type # "word"
  PROVE  /\ FirstWords(toks) \in Seq(Range(toks))
         /\ Len(FirstWords(toks)) \in 0 .. Len(toks)
         /\ \A i \in 1 .. Len(FirstWords(toks)) :
              i \in DOMAIN toks /\ FirstWords(toks)[i] = toks[i] /\ toks[i].type = "word"
<1> DEFINE others == {i \in DOMAIN toks : toks[i].type # "word"}
<1>1. DOMAIN toks = 1 .. Len(toks) /\ Len(toks) \in Nat /\ \A i \in DOMAIN toks : toks[i] \in Range(toks)
  BY DEF Range
<1>2. others \in SUBSET Nat /\ eof \in others
  BY <1>1
<1>3. PICK m \in others : \A k \in others : m <= k
  BY <1>2, SmallestMember
<1>4. Min(others) = m
  BY <1>2, <1>3, MinIs
<1>5. FirstWords(toks) = SubSeq(toks, 1, m - 1)
  BY <1>4, Zenon DEF FirstWords
<1>6. /\ m \in 1 .. Len(toks) /\ 1 \in Int /\ m - 1 \in Int
      /\ \A i \in 1 .. m - 1 : toks[i] \in Range(toks)
  BY <1>1, <1>3
<1>7. ASSUME NEW i \in 1 .. m - 1 PROVE i \in DOMAIN toks /\ toks[i].type = "word"
  <2>1. i \in DOMAIN toks /\ i \notin others
    BY <1>1, <1>3, <1>6
  <2> QED BY <2>1
<1> DEFINE words == SubSeq(toks, 1, m - 1)
<1>8. /\ words \in Seq(Range(toks))
      /\ Len(words) = IF 1 <= m - 1 THEN (m - 1) - 1 + 1 ELSE 0
      /\ \A i \in 1 .. (m - 1) - 1 + 1 : words[i] = toks[1 + i - 1]
  <2>1. /\ SubSeq(toks, 1, m - 1) \in Seq(Range(toks))
        /\ Len(SubSeq(toks, 1, m - 1)) = IF 1 <= m - 1 THEN (m - 1) - 1 + 1 ELSE 0
        /\ \A i \in 1 .. (m - 1) - 1 + 1 : SubSeq(toks, 1, m - 1)[i] = toks[1 + i - 1]
    BY <1>6, SubSeqProperties
  <2> QED BY <2>1
<1> HIDE DEF words
<1>9. Len(words) = m - 1
  BY <1>6, <1>8
<1>10. ASSUME NEW i \in 1 .. m - 1 PROVE words[i] = toks[i]
  <2>1. i \in 1 .. (m - 1) - 1 + 1 /\ 1 + i - 1 = i
    BY <1>6
  <2> QED BY <1>8, <2>1
<1>11. FirstWords(toks) = words
  BY <1>5 DEF words
<1> QED BY <1>6, <1>7, <1>8, <1>9, <1>10, <1>11

(* The parts of the last n words of the command. *)
LastWords(n) ==
  [i \in 1 .. n |-> FirstWords(tokens)[Len(FirstWords(tokens)) - n + i].parts]

Expanded == Len(FirstWords(tokens)) - Len(node.argv_parts)

(* What is left to expand are the last words of the command, and those     *)
(* before have each become an argument.                                    *)
ArgumentsInv ==
  /\ phase \in {"parsed", "expand"} => \E eof \in DOMAIN tokens : tokens[eof].type # "word"
  /\ phase # "expand" => node.argv_parts = <<>> /\ argv = <<>>
  /\ phase = "expand" =>
       /\ \E n \in 0 .. Len(FirstWords(tokens)) : node.argv_parts = LastWords(n)
       /\ ~node.invalid =>
            /\ argv \in Seq(Range(argv))
            /\ Len(argv) >= Expanded
            /\ PlainLine => Len(argv) = Expanded

(* The words there are, wherever they are looked at.                       *)
LEMMA CommandWords ==
  ASSUME TokensInv, ArgumentsInv, phase \in {"parsed", "expand"}
  PROVE  /\ FirstWords(tokens) \in Seq(Range(tokens))
         /\ Len(FirstWords(tokens)) \in Nat
         /\ \A i \in 1 .. Len(FirstWords(tokens)) :
              i \in DOMAIN tokens /\ FirstWords(tokens)[i] = tokens[i] /\ tokens[i].type = "word"
<1>1. tokens \in Seq(Range(tokens))
  BY DEF TokensInv
<1>2. PICK eof \in DOMAIN tokens : tokens[eof].type # "word"
  BY DEF ArgumentsInv
<1> QED BY <1>1, <1>2, FirstWordsAre

(* The last n words are n. *)
LEMMA LastWordsAre ==
  ASSUME NEW n \in Nat
  PROVE  /\ LastWords(n) \in Seq(Range(LastWords(n)))
         /\ Len(LastWords(n)) = n
         /\ \A i \in 1 .. n :
              LastWords(n)[i] = FirstWords(tokens)[Len(FirstWords(tokens)) - n + i].parts
<1> DEFINE Words(i) == FirstWords(tokens)[Len(FirstWords(tokens)) - n + i].parts
           last == [i \in 1 .. n |-> Words(i)]
<1> HIDE DEF Words
<1>1. /\ last \in Seq(Range(last)) /\ Len(last) = n
      /\ \A i \in 1 .. n : last[i] = Words(i)
  BY DEF Range
<1>2. LastWords(n) = last
  BY Zenon DEF LastWords, Words
<1> QED BY <1>1, <1>2 DEF Words

(* When the first of them is taken the others are left. *)
LEMMA OneWordLess ==
  ASSUME NEW n \in Nat, n # 0, Len(FirstWords(tokens)) \in Nat
  PROVE  /\ LastWords(n) # <<>>
         /\ Head(LastWords(n)) = FirstWords(tokens)[Len(FirstWords(tokens)) - n + 1].parts
         /\ Tail(LastWords(n)) = LastWords(n - 1)
<1> DEFINE m == Len(FirstWords(tokens))
           S == Range(LastWords(n)) \cup Range(LastWords(n - 1))
<1>1. n - 1 \in Nat /\ 1 \in 1 .. n
  OBVIOUS
<1>2. PICK s : s = LastWords(n)
  OBVIOUS
<1>3. /\ s \in Seq(Range(s)) /\ Len(s) = n
      /\ \A i \in 1 .. n : s[i] = FirstWords(tokens)[m - n + i].parts
  BY <1>2, LastWordsAre
<1>4. PICK t : t = LastWords(n - 1)
  OBVIOUS
<1>5. /\ t \in Seq(Range(t)) /\ Len(t) = n - 1
      /\ \A i \in 1 .. n - 1 : t[i] = FirstWords(tokens)[m - (n - 1) + i].parts
  BY <1>1, <1>4, LastWordsAre
<1>6. s # <<>>
  BY <1>3
<1>7. /\ Tail(s) \in Seq(Range(s)) /\ Len(Tail(s)) = Len(s) - 1
      /\ \A i \in 1 .. Len(Tail(s)) : Tail(s)[i] = s[i + 1]
      /\ Head(s) = s[1]
  <2>1. /\ Tail(s) \in Seq(Range(s)) /\ Len(Tail(s)) = Len(s) - 1
        /\ \A i \in 1 .. Len(Tail(s)) : Tail(s)[i] = s[i + 1]
    BY <1>3, <1>6, HeadTailProperties
  <2> QED BY <1>3, <1>6, <2>1
<1>8. ASSUME NEW i \in 1 .. n - 1 PROVE Tail(s)[i] = t[i]
  <2>1. i + 1 \in 1 .. n /\ m - n + (i + 1) = m - (n - 1) + i /\ i \in 1 .. Len(Tail(s))
    BY <1>3, <1>7
  <2> QED BY <1>3, <1>5, <1>7, <2>1
<1>9. Tail(s) = t
  <2>1. PICK u : u = Tail(s)
    OBVIOUS
  <2>2. u \in Seq(Range(s)) /\ Len(u) = n - 1 /\ \A i \in 1 .. n - 1 : u[i] = t[i]
    BY <1>3, <1>7, <1>8, <2>1
  <2>3. u = t
    BY <1>5, <2>2
  <2> QED BY <2>1, <2>3
<1>10. Head(s) = FirstWords(tokens)[m - n + 1].parts
  BY <1>1, <1>3, <1>7
<1> QED BY <1>2, <1>4, <1>6, <1>9, <1>10, Zenon

(* The word that is expanded next is a word of the line. *)
LEMMA WordIsInHand ==
  ASSUME TokensInv, ArgumentsInv, phase = "expand", node.argv_parts # <<>>
  PROVE  LET t == Len(FirstWords(tokens)) - Len(node.argv_parts) + 1 IN
         \E n \in 1 .. Len(FirstWords(tokens)) :
           /\ node.argv_parts = LastWords(n) /\ Len(node.argv_parts) = n
           /\ t \in DOMAIN tokens /\ tokens[t].type = "word"
           /\ Head(node.argv_parts) = tokens[t].parts
           /\ Tail(node.argv_parts) = LastWords(n - 1)
<1>1. /\ Len(FirstWords(tokens)) \in Nat
      /\ \A i \in 1 .. Len(FirstWords(tokens)) :
           i \in DOMAIN tokens /\ FirstWords(tokens)[i] = tokens[i] /\ tokens[i].type = "word"
  BY CommandWords
<1>2. PICK n \in 0 .. Len(FirstWords(tokens)) : node.argv_parts = LastWords(n)
  BY DEF ArgumentsInv
<1>3. n # 0
  <2>1. n = 0 => Len(LastWords(n)) = 0 /\ LastWords(n) \in Seq(Range(LastWords(n)))
    BY LastWordsAre
  <2> QED BY <1>2, <2>1
<1>4. n \in Nat /\ Len(LastWords(n)) = n
  BY <1>1, LastWordsAre
<1>5. /\ Head(LastWords(n)) = FirstWords(tokens)[Len(FirstWords(tokens)) - n + 1].parts
      /\ Tail(LastWords(n)) = LastWords(n - 1)
  BY <1>1, <1>3, <1>4, OneWordLess
<1>6. PICK t : t = Len(FirstWords(tokens)) - n + 1
  OBVIOUS
<1>7. t \in 1 .. Len(FirstWords(tokens)) /\ n \in 1 .. Len(FirstWords(tokens))
  BY <1>1, <1>3, <1>6
<1>8. /\ t \in DOMAIN tokens /\ tokens[t].type = "word"
      /\ FirstWords(tokens)[t] = tokens[t]
  BY <1>1, <1>7
<1> QED BY <1>2, <1>4, <1>5, <1>6, <1>7, <1>8, Zenon

(* A command is made of the words: all of them are left.                   *)
LEMMA ArgumentsCommand ==
  ASSUME TokensInv, ArgumentsInv, parse_command
  PROVE  ArgumentsInv'
<1>1. /\ phase = "parsed" /\ phase' = "expand" /\ tokens' = tokens /\ argv' = argv /\ input' = input
      /\ node'.argv_parts = [i \in DOMAIN FirstWords(tokens) |-> FirstWords(tokens)[i].parts]
  BY DEF parse_command
<1>2. FirstWords(tokens) \in Seq(Range(tokens)) /\ Len(FirstWords(tokens)) \in Nat
  BY <1>1, CommandWords
<1>3. PICK words : words = FirstWords(tokens)
  OBVIOUS
<1>4. PICK m : m = Len(words)
  OBVIOUS
<1>5. DOMAIN words = 1 .. m /\ m \in Nat
  BY <1>2, <1>3, <1>4
<1>6. FirstWords(tokens)' = words
  BY <1>1, <1>3 DEF FirstWords
<1>7. node'.argv_parts = [i \in 1 .. m |-> words[m - m + i].parts]
  <2>1. \A i \in 1 .. m : m - m + i = i
    BY <1>5
  <2> QED BY <1>1, <1>3, <1>5, <2>1
<1>8. node'.argv_parts = LastWords(m)'
  BY <1>4, <1>6, <1>7, Zenon DEF LastWords
<1>9. Len(node'.argv_parts) = m
  BY <1>5, <1>7
<1>10. argv' = <<>>
  BY <1>1 DEF ArgumentsInv
<1>11. argv' \in Seq(Range(argv')) /\ Len(argv') = 0
  BY <1>10 DEF Range
<1>12. Expanded' = 0
  BY <1>4, <1>5, <1>6, <1>9 DEF Expanded
<1>13. (\E eof \in DOMAIN tokens : tokens[eof].type # "word")'
  BY <1>1 DEF ArgumentsInv
<1>14. m \in 0 .. Len(FirstWords(tokens)')
  BY <1>4, <1>5, <1>6
<1> QED BY <1>1, <1>8, <1>11, <1>12, <1>13, <1>14 DEF ArgumentsInv

(* A word becomes at least one argument, and one of a plain line no more.  *)
LEMMA ArgumentsWord ==
  ASSUME LineInv, TokensInv, PartsInv, ArgumentsInv, phase = "expand", ExpandWord, UNCHANGED lexVars
  PROVE  ArgumentsInv'
<1>1. UNCHANGED <<phase, tokens, input>> /\ node.argv_parts # <<>>
  BY DEF lexVars, ExpandWord
<1>2. DOMAIN node = {"argv_parts", "redir", "invalid"}
  BY DEF LineInv
<1>3. FirstWords(tokens)' = FirstWords(tokens) /\ (PlainLine' <=> PlainLine)
  BY <1>1 DEF FirstWords, PlainLine, Range
<1>4. \A n : LastWords(n)' = LastWords(n)
  BY <1>3, Zenon DEF LastWords
<1>5. (\E eof \in DOMAIN tokens : tokens[eof].type # "word")'
  BY <1>1 DEF ArgumentsInv
<1>6. PICK m, t : /\ m = Len(FirstWords(tokens))
                  /\ t = Len(FirstWords(tokens)) - Len(node.argv_parts) + 1
  OBVIOUS
<1>7. PICK n \in 1 .. m :
        /\ Len(node.argv_parts) = n
        /\ t \in DOMAIN tokens /\ tokens[t].type = "word"
        /\ Head(node.argv_parts) = tokens[t].parts
        /\ Tail(node.argv_parts) = LastWords(n - 1)
  BY <1>1, <1>6, WordIsInHand
<1>8. m \in Nat
  BY <1>1, <1>6, CommandWords
<1>9. PICK word : word = Head(node.argv_parts)
  OBVIOUS
<1>10. CASE word_fails(word)
  <2>1. node'.argv_parts = <<>> /\ node'.invalid = TRUE
    BY <1>2, <1>9, <1>10 DEF ExpandWord
  <2>2. LastWords(0) = <<>>
    <3>1. LastWords(0) \in Seq(Range(LastWords(0))) /\ Len(LastWords(0)) = 0
      BY LastWordsAre
    <3> QED BY <3>1
  <2>3. 0 \in 0 .. Len(FirstWords(tokens)') /\ node'.argv_parts = LastWords(0)'
    BY <1>3, <1>4, <1>6, <1>8, <2>1, <2>2
  <2> QED BY <1>1, <1>5, <2>1, <2>3 DEF ArgumentsInv
<1>11. CASE ~word_fails(word)
  <2>1. PICK entry : entry = argv_entry(word)
    OBVIOUS
  <2>2. /\ node'.argv_parts = LastWords(n - 1) /\ node'.invalid = node.invalid
        /\ argv' = argv \o entry
    BY <1>2, <1>7, <1>9, <1>11, <2>1 DEF ExpandWord
  <2>3. n - 1 \in 0 .. Len(FirstWords(tokens)') /\ node'.argv_parts = LastWords(n - 1)'
    BY <1>3, <1>4, <1>6, <1>8, <2>2
  <2>4. /\ entry # <<>> /\ entry \in Seq(Range(entry))
        /\ PlainLine => Len(entry) <= 1
    <3>1. entry # <<>>
      BY <1>11, <2>1 DEF word_fails
    <3>2. entry \in Seq(Range(entry))
      BY <2>1, EntryIs
    <3>3. ASSUME PlainLine PROVE Len(entry) <= 1
      <4>1. PlainParts(word)
        BY <1>7, <1>9, <3>3 DEF PartsInv, PartsAre
      <4>2. LiteralChars \cap Special = {}
        BY <3>3 DEF PlainLine, LiteralChars, Special, is_glob_char
      <4>3. Len(argv_entry(word)) <= 1
        BY <4>1, <4>2, PlainEntry DEF PlainParts
      <4> QED BY <2>1, <4>3
    <3> QED BY <3>1, <3>2, <3>3
  <2>5. Len(entry) \in Nat /\ Len(entry) >= 1
    BY <2>4
  <2>6. ASSUME ~node.invalid
        PROVE  /\ argv' \in Seq(Range(argv')) /\ Len(argv') = Len(argv) + Len(entry)
               /\ Len(argv) \in Nat /\ Len(argv) >= m - n
               /\ PlainLine => Len(argv) = m - n
    <3>1. /\ argv \in Seq(Range(argv)) /\ Len(argv) >= Expanded
          /\ PlainLine => Len(argv) = Expanded
      BY <1>1, <2>6 DEF ArgumentsInv
    <3>2. Expanded = m - n
      BY <1>6, <1>7 DEF Expanded
    <3>3. PICK S : argv \in Seq(S) /\ entry \in Seq(S)
      <4>1. argv \in Seq(Range(argv) \cup Range(entry)) /\ entry \in Seq(Range(argv) \cup Range(entry))
        BY <2>4, <3>1
      <4> QED BY <4>1
    <3>4. argv \o entry \in Seq(S) /\ Len(argv \o entry) = Len(argv) + Len(entry)
      BY <3>3, ConcatProperties
    <3>5. PICK longer : longer = argv'
      OBVIOUS
    <3>6. longer \in Seq(S) /\ Len(longer) = Len(argv) + Len(entry)
      BY <2>2, <3>4, <3>5
    <3>7. longer \in Seq(Range(longer))
      BY <3>6 DEF Range
    <3>8. Len(argv) \in Nat
      BY <3>1
    <3> QED BY <3>1, <3>2, <3>5, <3>6, <3>7, <3>8
  <2>7. Expanded' = m - n + 1
    <3>1. Len(LastWords(n - 1)) = n - 1
      <4>1. n - 1 \in Nat
        BY <1>8
      <4> QED BY <4>1, LastWordsAre
    <3>2. Expanded' = Len(FirstWords(tokens)) - Len(LastWords(n - 1))
      BY <1>3, <2>2, Zenon DEF Expanded
    <3>3. Expanded' = m - (n - 1)
      BY <1>6, <3>1, <3>2, Zenon
    <3> QED BY <1>8, <3>3
  <2>8. ~node'.invalid =>
          /\ argv' \in Seq(Range(argv'))
          /\ Len(argv') >= Expanded'
          /\ PlainLine' => Len(argv') = Expanded'
    <3>1. SUFFICES ASSUME ~node.invalid
                   PROVE  /\ argv' \in Seq(Range(argv'))
                          /\ Len(argv') >= Expanded'
                          /\ PlainLine' => Len(argv') = Expanded'
      BY <2>2
    <3>2. PICK a, b, c, d : a = Len(argv) /\ b = Len(entry) /\ c = Len(argv') /\ d = Expanded'
      OBVIOUS
    <3>3. /\ c = a + b /\ a \in Nat /\ b \in Nat /\ b >= 1 /\ d = m - n + 1 /\ a >= m - n
          /\ PlainLine => a = m - n /\ b <= 1
      BY <2>4, <2>5, <2>6, <2>7, <3>1, <3>2
    <3>4. c >= d /\ (PlainLine => c = d)
      BY <1>8, <3>3
    <3> QED BY <1>3, <2>6, <3>1, <3>2, <3>4
  <2> QED BY <1>1, <1>5, <2>3, <2>8 DEF ArgumentsInv
<1> QED BY <1>10, <1>11

(* A redirection changes no argument. *)
LEMMA ArgumentsTarget ==
  ASSUME LineInv, ArgumentsInv, phase = "expand", ExpandTarget, UNCHANGED lexVars
  PROVE  ArgumentsInv'
<1>1. UNCHANGED <<phase, tokens, input, argv>> /\ node'.argv_parts = node.argv_parts
      /\ (node.invalid => node'.invalid)
  BY DEF lexVars, ExpandTarget, LineInv
<1>2. FirstWords(tokens)' = FirstWords(tokens) /\ (PlainLine' <=> PlainLine)
  BY <1>1 DEF FirstWords, PlainLine, Range
<1>3. (\A n : LastWords(n)' = LastWords(n)) /\ Expanded' = Expanded
  BY <1>1, <1>2, Zenon DEF LastWords, Expanded
<1>4. (\E eof \in DOMAIN tokens : tokens[eof].type # "word")'
  BY <1>1 DEF ArgumentsInv
<1>5. \E n \in 0 .. Len(FirstWords(tokens)) : node.argv_parts = LastWords(n)
  BY DEF ArgumentsInv
<1>6. (\E n \in 0 .. Len(FirstWords(tokens)) : node.argv_parts = LastWords(n))'
  BY <1>1, <1>2, <1>3, <1>5
<1>7. ~node'.invalid =>
        argv \in Seq(Range(argv)) /\ Len(argv) >= Expanded /\ (PlainLine => Len(argv) = Expanded)
  BY <1>1 DEF ArgumentsInv
<1>8. (~node.invalid =>
         argv \in Seq(Range(argv)) /\ Len(argv) >= Expanded /\ (PlainLine => Len(argv) = Expanded))'
  BY <1>1, <1>2, <1>3, <1>7
<1> QED BY <1>1, <1>4, <1>6, <1>8 DEF ArgumentsInv

(* Every step keeps what is said of the arguments.                         *)
LEMMA ArgumentsStep ==
  LineInv /\ TokensInv /\ PartsInv /\ ArgumentsInv /\ [Next]_vars => ArgumentsInv'
<1> SUFFICES ASSUME LineInv, TokensInv, PartsInv, ArgumentsInv, [Next]_vars PROVE ArgumentsInv'
  OBVIOUS
<1>1. ASSUME UNCHANGED expandVars, phase # "expand", phase' \notin {"parsed", "expand"}
      PROVE  ArgumentsInv'
  BY <1>1 DEF ArgumentsInv, expandVars
<1>2. CASE EndOfLine /\ UNCHANGED expandVars
  <2>1. /\ phase = "next_token" /\ phase' = "parsed" /\ UNCHANGED <<node, argv>>
        /\ \E token : token.type = "eof" /\ tokens' = Append(tokens, token)
    BY <1>2 DEF EndOfLine, Returns, expandVars
  <2>2. PICK token : token.type = "eof" /\ tokens' = Append(tokens, token)
    BY <2>1
  <2>3. tokens \in Seq(Range(tokens))
    BY DEF TokensInv
  <2>4. DOMAIN tokens' = 1 .. Len(tokens) + 1 /\ tokens'[Len(tokens) + 1] = token
    BY <2>2, <2>3, AppendedToken
  <2>5. Len(tokens) + 1 \in DOMAIN tokens' /\ tokens'[Len(tokens) + 1].type # "word"
    BY <2>2, <2>3, <2>4
  <2> QED BY <2>1, <2>5 DEF ArgumentsInv
<1>3. CASE LexNext /\ ~EndOfLine /\ UNCHANGED expandVars
  <2>1. phase # "expand" /\ phase' \notin {"parsed", "expand"}
    BY <1>3 DEF LexNext, lexer_init, lexer_next_token, OperatorToken, StartWord, EndWord,
                lex_next_word_part, Quote, Variable, VariableCrashes, Tilde, Glob, Literal, InWord
  <2> QED BY <1>1, <1>3, <2>1
<1>4. CASE parse_command
  BY <1>4, ArgumentsCommand
<1>7. CASE MalformedRedirection
  <2>1. phase = "parsed" /\ phase' = "exited" /\ UNCHANGED expandVars
    BY <1>7 DEF MalformedRedirection
  <2> QED BY <1>1, <2>1
<1>5. CASE Expands
  BY <1>5, ArgumentsWord, ArgumentsTarget DEF Expands, expander_expand_cmd
<1>6. CASE UNCHANGED vars
  <2>1. UNCHANGED <<phase, tokens, input, argv, node>>
    BY <1>6 DEF vars, lexVars, expandVars
  <2>2. FirstWords(tokens)' = FirstWords(tokens) /\ (PlainLine' <=> PlainLine)
    BY <2>1 DEF FirstWords, PlainLine, Range
  <2>3. (\A n : LastWords(n)' = LastWords(n)) /\ Expanded' = Expanded
    BY <2>1, <2>2, Zenon DEF LastWords, Expanded
  <2> QED BY <2>1, <2>2, <2>3 DEF ArgumentsInv
<1> QED BY <1>2, <1>3, <1>4, <1>5, <1>6, <1>7 DEF Next

LEMMA ArgumentsInit == Init => ArgumentsInv
BY DEF Init, LexInit, ExpandInit, ArgumentsInv, no_node

(* At the end no word is left, *)
LEMMA AllWordsCount == TokensInv /\ ArgumentsInv => EachWordCounts
<1> SUFFICES ASSUME TokensInv, ArgumentsInv, Done, ~node.invalid
             PROVE  LET n == Len(FirstWords(tokens)) IN
                    /\ Len(argv) >= n
                    /\ Range(input) \cap (is_glob_char \cup {"$", "~"}) = {} => Len(argv) = n
  BY DEF EachWordCounts
<1>1. phase = "expand" /\ node.argv_parts = <<>>
  BY DEF Done
<1>2. Len(FirstWords(tokens)) \in Nat
  BY <1>1, CommandWords
<1>3. Len(node.argv_parts) = 0
  BY <1>1
<1>4. Expanded = Len(FirstWords(tokens))
  BY <1>2, <1>3 DEF Expanded
<1>5. Len(argv) >= Expanded /\ (PlainLine => Len(argv) = Expanded)
  BY <1>1 DEF ArgumentsInv
<1> QED BY <1>4, <1>5 DEF PlainLine

(* so whatever line is typed, whatever files there are and whatever the    *)
(* variables hold, a command that may run has an argument for each of its  *)
(* words, and no more than that if there is nothing to match.              *)
THEOREM EveryWordCounts == Spec => []EachWordCounts
<1> DEFINE Inv == LineInv /\ TokensInv /\ PartsInv /\ ArgumentsInv
<1>1. Init => Inv
  BY InitLine, TokensInit, PartsInit, ArgumentsInit
<1>2. Inv /\ [Next]_vars => Inv'
  BY LineStep, TokensStep, PartsStep, ArgumentsStep
<1>3. Inv => EachWordCounts
  BY AllWordsCount
<1> QED BY <1>1, <1>2, <1>3, PTL DEF Spec

(* A quoted word is one argument. *)
LEMMA QuotedStep ==
  ASSUME TokensInv, PartsInv, ArgumentsInv, ExpandWord, IsQuoted(WordInHand)
  PROVE  argv' = Append(argv, SubSeq(WordInHand, 2, Len(WordInHand) - 1))
<1>1. node.argv_parts # <<>>
  BY DEF ExpandWord
<1>2. phase = "expand"
  BY <1>1 DEF ArgumentsInv
<1>3. PICK t : t = Len(FirstWords(tokens)) - Len(node.argv_parts) + 1
  OBVIOUS
<1>4. /\ t \in DOMAIN tokens /\ tokens[t].type = "word"
      /\ Head(node.argv_parts) = tokens[t].parts
  BY <1>1, <1>2, <1>3, WordIsInHand
<1>5. PICK text : text = WordInHand
  OBVIOUS
<1>6. text = Text(tokens[t].from, tokens[t].to)
  BY <1>3, <1>5, Zenon DEF WordInHand
<1>7. PartsAre(tokens[t].parts, tokens[t].from, tokens[t].to)
  BY <1>4 DEF PartsInv
<1>8. PICK v : v = SubSeq(text, 2, Len(text) - 1)
  OBVIOUS
<1>9. Head(node.argv_parts) = <<literal(v)>>
  BY <1>4, <1>5, <1>6, <1>7, <1>8, Zenon DEF PartsAre
<1>10. ~word_fails(Head(node.argv_parts)) /\ argv_entry(Head(node.argv_parts)) = <<v>>
  BY <1>9, QuotedEntry, Zenon
<1>11. argv' = argv \o argv_entry(Head(node.argv_parts))
  BY <1>10, Zenon DEF ExpandWord
<1>12. argv' = argv \o <<v>>
  BY <1>10, <1>11, Zenon
<1> QED BY <1>5, <1>8, <1>12

(* Whatever stands in single quotes, on a line of any length, reaches the  *)
(* program as it was typed, as one argument, whatever files there are.     *)
THEOREM QuotesAreVerbatim == Spec => QuotedIsVerbatim
<1> DEFINE Inv == LineInv /\ TokensInv /\ PartsInv /\ ArgumentsInv
           Step == ExpandWord /\ IsQuoted(WordInHand)
                     => argv' = Append(argv, SubSeq(WordInHand, 2, Len(WordInHand) - 1))
<1>1. Init => Inv
  BY InitLine, TokensInit, PartsInit, ArgumentsInit
<1>2. Inv /\ [Next]_vars => Inv'
  BY LineStep, TokensStep, PartsStep, ArgumentsStep
<1>3. Inv /\ [Next]_vars => [Step]_vars
  BY QuotedStep
<1> QED BY <1>1, <1>2, <1>3, PTL DEF Spec, QuotedIsVerbatim
=============================================================================
