-------------------------- MODULE WordsProperties --------------------------
(***************************************************************************)
(* What the lexer and the expander must make of a line.                    *)
(***************************************************************************)
EXTENDS Words

Parsing == INSTANCE Syntax

(* Type correctness: the lexer stays on its line, and a word is in front   *)
(* of what has been read of it.                                            *)
WordsTypeOK ==
  /\ phase \in {"prompt", "next_token", "word", "parsed", "expand", "crashed", "exited"}
  /\ pos \in 0 .. Len(input)
  /\ start \in 0 .. pos
  /\ quote_ctx \in Quotes \cup {"none"}
  /\ \A part \in Range(parts) :
       part.type \in {"literal", "variable", "tilde", "glob"} /\ part.value # <<>>
  /\ node.invalid \in BOOLEAN

(* A description of the words of a line that knows nothing of parts: where *)
(* each character leaves a reader who minds quotes, backslashes and        *)
(* brackets.                                                               *)
Reader(mode, c) ==
  CASE mode = "'" -> IF c = "'" THEN "word" ELSE "'"
    [] mode = "\"" -> IF c = "\"" THEN "word" ELSE IF c = "\\" THEN "quoted escape" ELSE "\""
    [] mode = "quoted escape" -> "\""
    [] mode = "[" -> IF c = "]" THEN "word" ELSE "["
    [] mode = "escape" -> "word"
    [] OTHER -> CASE c \in Blank -> "blank"
                  [] c \in is_meta_char -> "operator"
                  [] c = "\\" -> "escape"
                  [] c \in Quotes \cup {"["} -> c
                  [] OTHER -> "word"

(* What character number i belongs to. *)
ReaderAt(i) ==
  LET mode[k \in 0 .. Len(input)] == IF k = 0 THEN "blank" ELSE Reader(mode[k - 1], input[k])
  IN  mode[i]

OfToken(i) == {t \in DOMAIN tokens : i \in tokens[t].from + 1 .. tokens[t].to}
IsWord(token) == token.type \in {"word", "fd"}

LineIsRead == phase \in {"parsed", "expand", "exited"}

(* Where the lexer takes a quote for the end of one of the other kind: at   *)
(* the start of a part, that is behind a quote or a variable.              *)
Misread(i) ==
  /\ input[i] \in Quotes
  /\ ReaderAt(i - 1) \in Quotes \ {input[i]}
  /\ input[i - 1] \in Quotes \/ "$" \in Range(SubSeq(input, 1, i - 1))

(* Whether the tokens have character number i where a reader would.        *)
IsCutRight(i) ==
  CASE ReaderAt(i) = "blank" -> OfToken(i) = {}
    [] ReaderAt(i) = "operator" ->
         \E t \in DOMAIN tokens : OfToken(i) = {t} /\ ~IsWord(tokens[t])
    [] OTHER -> \E t \in DOMAIN tokens : OfToken(i) = {t} /\ IsWord(tokens[t])

(* The parts of a word are found one after the other, each with its own    *)
(* rule for where it ends.  Together they must cut the line where a reader *)
(* would: every character but the blanks between words is in one token,    *)
(* and in a word exactly if it should be.                                  *)
LexerMeetsReader ==
  LineIsRead /\ (\A i \in DOMAIN input : ~Misread(i)) => \A i \in DOMAIN input : IsCutRight(i)

(* The parser exits the shell on a number that no redirection follows, and *)
(* stops at the end of the line: the tokens of every line are of the kind  *)
(* that CommandLine assumes.                                               *)
TokensSuitParser ==
  \A k \in DOMAIN tokens :
    tokens[k].type \in Parsing!TokensAfter([i \in 1 .. k - 1 |-> tokens[i].type])

(* The length of a name is a difference of sizes: only a ${ without its }  *)
(* brings it below 0.                                                      *)
IsClosed(brace) ==
  \E e \in brace + 1 .. Len(input) :
    /\ input[e] = CloseBrace
    /\ \/ \A i \in brace + 1 .. e - 1 : input[i] \in is_name_char
       \/ e = brace + 2 /\ input[brace + 1] \in is_special_parameter_char

CrashNeedsOpenBrace ==
  phase = "crashed" =>
    \E i \in 2 .. Len(input) : input[i - 1] = "$" /\ input[i] = OpenBrace /\ ~IsClosed(i)

(* The word that is expanded next, as it was typed. *)
WordInHand ==
  LET t == tokens[Len(FirstWords(tokens)) - Len(node.argv_parts) + 1]
  IN  Text(t.from, t.to)

IsQuoted(word) ==
  /\ Len(word) > 2
  /\ word[1] = "'" /\ Last(word) = "'"
  /\ \A i \in 2 .. Len(word) - 1 : word[i] \notin Quotes

(* What stands in single quotes reaches the program as it was typed, as    *)
(* one argument, whatever characters it has and whatever files there are.  *)
QuotedIsVerbatim ==
  [][ExpandWord /\ IsQuoted(WordInHand)
       => argv' = Append(argv, SubSeq(WordInHand, 2, Len(WordInHand) - 1))]_vars

(* No word is lost on the way to the program: a command that may run has   *)
(* an argument for each of its words, and as many as words if there is     *)
(* nothing to match.                                                       *)
EachWordCounts ==
  Done /\ ~node.invalid =>
    LET n == Len(FirstWords(tokens)) IN
    /\ Len(argv) >= n
    /\ Range(input) \cap (is_glob_char \cup {"$", "~"}) = {} => Len(argv) = n

(* The lexer gets to the end of every line, unless it crashes, and the     *)
(* expander to the end of the command, unless the parser exits.            *)
LineIsExpanded ==
  phase = "next_token" ~>
    Done \/ phase \in {"crashed", "exited"} \/ (phase = "parsed" /\ FirstWords(tokens) = <<>>)
=============================================================================
