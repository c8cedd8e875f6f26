-------------------------------- MODULE Lexer --------------------------------
(***************************************************************************)
(* The lexer (lexer.cc), with the files it reads (io.cc, env.cc) and the   *)
(* numbers it parses (format.cc).                                          *)
(*                                                                         *)
(* A file is a sequence of bytes: an ASCII character is a string of length *)
(* 1, any other byte is written "<e6>", and "" is the 0 that Peek gives    *)
(* behind the end.  A state of the lexer is a record that every operator   *)
(* gives back changed; its buffer is filled as soon as it is used up, which *)
(* every user of a state would do first.  A kind of token is named by its  *)
(* spelling where it has one; where a token ends is left out.              *)
(***************************************************************************)
EXTENDS Integers, Sequences, SequencesExt

CONSTANT BufferSize     \* kBufferSize, at least 1

Backquote == "<60>"     \* which a string of TLA+ cannot hold, and Printable has as \f

Chars(text) == [i \in 1..Len(text) |-> SubSeq(text, i, i)]

-----------------------------------------------------------------------------
(* Files.  A read gives nothing with the status Eof.                       *)

Min2(m, n) == IF m < n THEN m ELSE n

MemoryRead(rest, n) == [eof |-> rest = <<>>, got |-> SubSeq(rest, 1, Min2(n, Len(rest)))]

\* feof says that the end was met, also when fread has got something.
PosixRead(rest, n) == [eof |-> Len(rest) < n, got |-> SubSeq(rest, 1, Min2(n, Len(rest)))]

Read(s, n) ==
  LET r == IF s.source = "memory" THEN MemoryRead(s.rest, n) ELSE PosixRead(s.rest, n)
      left == SubSeq(s.rest, Len(r.got) + 1, Len(s.rest))
  IN  [eof |-> r.eof,
       s |-> IF r.eof THEN [s EXCEPT !.rest = left]
                      ELSE [s EXCEPT !.rest = left, !.buffered = r.got, !.position = 1]]

\* What Peek does before it looks.
Filled(s) ==
  IF s.position <= Len(s.buffered) \/ s.available = 0 THEN s
  ELSE LET wanted == Min2(s.available, BufferSize)
           r == Read(s, wanted)
       IN  IF r.eof THEN r.s ELSE [r.s EXCEPT !.available = @ - wanted]

Peek(s) == IF s.position <= Len(s.buffered) THEN s.buffered[s.position] ELSE ""

MoveNext(s) == Filled([s EXCEPT !.position = @ + 1, !.column = @ + 1])

\* Mutant: the column goes on.
NewLine_Column(s) == [MoveNext(s) EXCEPT !.line = @ + 1]

NewLine(s) == [MoveNext(s) EXCEPT !.line = @ + 1, !.column = 1]

\* What is available is not less after the first buffer has been read.
SwitchInputFile(source, file) ==
  Read([source |-> source, rest |-> file, buffered |-> <<>>, position |-> 1,
        available |-> Len(file), line |-> 1, column |-> 1, templates |-> <<"none">>],
       Min2(Len(file), BufferSize))

-----------------------------------------------------------------------------
(* Characters and tokens.                                                  *)

Decimal == ToSet(Chars("0123456789"))
HexLetters == ToSet(Chars("abcdefABCDEF"))

IsTermChar(ch) == ch \in ToSet(Chars("+-*/()[]{}.;:%'\"#!^~&<>=,?\\|$@ \t\r\n")) \cup {Backquote, ""}

HexCharToInt(ch) ==
  CHOOSE n \in 0..15 : ch \in {SubSeq("0123456789abcdef", n + 1, n + 1), SubSeq("0123456789ABCDEF", n + 1, n + 1)}

Printable == " !\"#$%&'()*+,-./0123456789:;<=>?@ABCDEFGHIJKLMNOPQRSTUVWXYZ[\\]^_\fabcdefghijklmnopqrstuvwxyz{|}~"

Byte(ch) ==
  IF Len(ch) = 1 THEN 31 + CHOOSE i \in 1..Len(Printable) : ch = SubSeq(Printable, i, i)
  ELSE 16 * HexCharToInt(SubSeq(ch, 2, 2)) + HexCharToInt(SubSeq(ch, 3, 3))

OfByte(high, low) ==
  LET n == 16 * HexCharToInt(high) + HexCharToInt(low) - 31
      ascii == n \in 1..Len(Printable) /\ SubSeq(Printable, n, n) # "\f"
  IN  IF ascii THEN SubSeq(Printable, n, n) ELSE "<" \o high \o low \o ">"

\* How many bytes the character has that starts with this one, or 0.
IsUtf8Prefix(ch) ==
  IF Len(ch) <= 1 THEN 1
  ELSE LET n == Byte(ch)
       IN  CASE n < 128 -> 1          [] n \in 128..191 -> 0  [] n \in 192..223 -> 2
             [] n \in 224..239 -> 3   [] n \in 240..247 -> 4  [] n \in 248..251 -> 5
             [] n \in 252..253 -> 6   [] OTHER -> 0

Keywords ==
  {"true", "false", "Empty", "Unit", "val", "var", "volatile", "native", "struct", "class",
   "enum", "object", "interface", "annotation", "fun", "chan", "in", "out", "run", "spwan",
   "import", "package", "export", "public", "protected", "private", "override", "abstract",
   "is", "as", "if", "else", "when", "do", "while", "unless", "until", "for", "return",
   "break", "continue", "throw", "try", "catch", "finally", "default", "none", "some",
   "unit", "bool", "char", "i8", "u8", "i16", "u16", "i32", "u32", "i64", "u64", "int",
   "uint", "intptr", "f32", "f64", "any", "string"}

IsKeyword(text) == text \in Keywords

\* A token that starts where the lexer was at `from', and the lexer behind it.
Token(s, from, kind) == [s |-> s, kind |-> kind, value |-> <<>>, line |-> from.line, column |-> from.column]
With(t, value) == [t EXCEPT !.value = value]
Error(s) == Token(s, s, "Error")

\* An assertion fails or UNREACHABLE is reached; the lexer never comes back.
Abort(s) == Token(s, s, "Abort")
Never(s) == Token(s, s, "Never")

MatchOne(s, kind) == Token(MoveNext(s), s, kind)

-----------------------------------------------------------------------------
(* Numbers.  A word is eight bytes, the lowest first.                      *)

Zero == <<0, 0, 0, 0, 0, 0, 0, 0>>

\* w * b + e, modulo 2^64.
MulAdd(w, b, e) ==
  LET add(acc, byte) == [w |-> Append(acc.w, (byte * b + acc.carry) % 256),
                         carry |-> (byte * b + acc.carry) \div 256]
  IN  FoldLeft(add, [w |-> <<>>, carry |-> e], w).w

Not(w) == FoldLeft(LAMBDA acc, byte : Append(acc, 255 - byte), <<>>, w)
Negated(w) == MulAdd(Not(w), 1, 1)
HasBit(w, i) == (w[1 + i \div 8] \div 2 ^ (i % 8)) % 2 = 1

\* e > limit - w, modulo 2^64, for a digit e and the limits 2^64 - 1 and 2^63 - 1.
TooMuch(w, e, limit) ==
  LET d == [Not(w) EXCEPT ![8] = IF limit = "signed" THEN (@ + 128) % 256 ELSE @]
  IN  limit # "none" /\ d[1] < e /\ \A i \in 2..8 : d[i] = 0

\* The result is -1 if there are no digits and 1 if there are too many.
Parsed(digits, most, base, limit) ==
  LET add(r, ch) ==
        IF r.rv # 0 \/ TooMuch(MulAdd(r.w, base, 0), HexCharToInt(ch), limit) THEN [r EXCEPT !.rv = 1]
        ELSE [r EXCEPT !.w = MulAdd(@, base, HexCharToInt(ch))]
  IN  CASE Len(digits) = 0 -> [rv |-> -1, w |-> Zero]
        [] Len(digits) > most -> [rv |-> 1, w |-> Zero]
        [] OTHER -> FoldLeft(add, [rv |-> 0, w |-> Zero], digits)

ParseI64(digits) == Parsed(digits, 19, 10, "signed")
ParseU64(digits) == Parsed(digits, 20, 10, "unsigned")
ParseO64(digits) == Parsed(digits, 22, 8, "unsigned")
ParseH64(digits) == Parsed(digits, 16, 16, "none")

is_intn(w, n) == \A i \in n..63 : HasBit(w, i) = HasBit(w, n - 1)
is_uintn(w, n) == \A i \in n..63 : ~HasBit(w, i)

BitWidth(type) ==
  CASE type \in {"I8Val", "U8Val"} -> 8                [] type \in {"I16Val", "U16Val"} -> 16
    [] type \in {"I32Val", "U32Val", "IntVal"} -> 32   [] type \in {"I64Val", "U64Val"} -> 64

Signed == {"I8Val", "I16Val", "I32Val", "IntVal", "I64Val"}

Fits(type, w) ==
  CASE type = "I8Val" -> is_intn(w, 7)               [] type = "I16Val" -> is_intn(w, 16)
    [] type \in {"I32Val", "IntVal"} -> is_intn(w, 31)
    [] type \in {"U8Val", "U16Val", "U32Val"} -> is_uintn(w, BitWidth(type))
    [] type \in {"I64Val", "U64Val"} -> TRUE

\* The value of the token: the bytes of an integer, the text of a float.
Number(n, from, sign) ==
  LET parsed == CASE n.base = 8 -> ParseO64(n.buf)
                  [] n.base = 16 -> ParseH64(n.buf)
                  [] OTHER -> IF n.type \in Signed THEN ParseI64(n.buf) ELSE ParseU64(n.buf)
      value == IF sign < 0 THEN Negated(parsed.w) ELSE parsed.w
      token == Token(n.s, from, n.type)
  IN  CASE n.type \in {"F32Val", "F64Val"} -> With(token, (IF sign < 0 THEN <<"-">> ELSE <<>>) \o n.buf)
        [] n.type \notin {"F32Val", "F64Val"} /\ parsed.rv < 0 -> Abort(n.s)
        [] OTHER -> IF parsed.rv > 0 \/ ~Fits(n.type, parsed.w) THEN Error(n.s)
                    ELSE With(token, SubSeq(value, 1, BitWidth(n.type) \div 8))

\* What follows the i or u of a suffix, if that is a width: the second digit
\* and the types.
Widths ==
  [w \in {"8", "1", "3", "6"} |->
     CASE w = "8" -> [second |-> "", i |-> "I8Val", u |-> "U8Val"]
       [] w = "1" -> [second |-> "6", i |-> "I16Val", u |-> "U16Val"]
       [] w = "3" -> [second |-> "2", i |-> "I32Val", u |-> "U32Val"]
       [] w = "6" -> [second |-> "4", i |-> "I64Val", u |-> "U64Val"]]

\* The digits and the suffix of a number: n has what has been read of it.
RECURSIVE MatchDigits(_, _, _)
MatchDigits(n, from, sign) ==
  LET ch == Peek(n.s)
      next == MoveNext(n.s)
      floating == n.type \in {"F32Val", "F64Val"}
      go(m) == MatchDigits(m, from, sign)
      taken == [n EXCEPT !.buf = Append(@, ch), !.s = next]
      suffix(type) == IF IsTermChar(Peek(next)) THEN go([n EXCEPT !.s = next, !.type = type])
                                                ELSE Error(next)
      integral == LET w == Widths[Peek(next)]
                      last == IF w.second = "" THEN next ELSE MoveNext(next)
                  IN  IF w.second # "" /\ Peek(last) # w.second THEN Error(last)
                      ELSE Number([n EXCEPT !.s = MoveNext(last), !.type = IF ch = "i" THEN w.i ELSE w.u],
                                  from, sign)
  IN  CASE ch \in Decimal -> IF n.base = 8 /\ ch \in {"8", "9"} THEN Error(n.s) ELSE go(taken)
        [] ch \in HexLetters /\ ~floating -> IF n.base # 16 THEN Error(n.s) ELSE go(taken)
        [] ch = "e" /\ floating -> IF n.e THEN Error(n.s) ELSE go([taken EXCEPT !.e = TRUE])
        [] ch = "." -> IF floating \/ n.base # 10 THEN Error(n.s)
                       ELSE go([taken EXCEPT !.type = "F32Val"])
        [] ch = "f" /\ floating -> suffix("F32Val")
        [] ch = "d" /\ floating -> suffix("F64Val")
        [] ch \in {"i", "u"} ->
             IF floating THEN Error(n.s)
             ELSE IF Peek(next) \in DOMAIN Widths THEN integral ELSE go([n EXCEPT !.s = next])
        [] ch # "." /\ IsTermChar(ch) -> Number(n, from, sign)
        [] OTHER -> Error(n.s)

\* The prefixes 0x and 0 are not kept, a 0 that is the whole number is.
MatchNumber(s, sign) ==
  LET zero == Peek(s) = "0"
      next == MoveNext(s)
      start(at, base, buf) ==
        MatchDigits([s |-> at, base |-> base, buf |-> buf, type |-> "IntVal", e |-> FALSE], s, sign)
  IN  CASE zero /\ Peek(next) \in {"x", "X"} -> start(MoveNext(next), 16, <<>>)
        [] zero /\ Peek(next) \in Decimal -> start(next, 8, <<>>)
        [] zero /\ Peek(next) \notin Decimal \cup {"x", "X"} -> start(next, 10, <<"0">>)
        [] OTHER -> start(s, 10, <<>>)

-----------------------------------------------------------------------------
(* Names, characters and strings.                                          *)

\* What is left of a character of UTF-8: got has been read of it.
RECURSIVE Continued(_, _, _)
Continued(s, got, n) ==
  IF n = 0 THEN [ok |-> TRUE, s |-> s, got |-> got]
  ELSE IF Len(Peek(s)) > 1 /\ Byte(Peek(s)) \in 128..191
         THEN Continued(MoveNext(s), Append(got, Peek(s)), n - 1)
  ELSE [ok |-> FALSE, s |-> s, got |-> got]

MatchUtf8Character(s) ==
  LET n == IsUtf8Prefix(Peek(s))
  IN  IF n = 0 THEN [ok |-> FALSE, s |-> s, got |-> <<>>]
      ELSE Continued(MoveNext(s), <<Peek(s)>>, n - 1)

\* A name up to the next terminator, the empty one included.
RECURSIVE Name(_, _, _)
Name(s, from, buf) ==
  LET text == FoldLeft(LAMBDA x, ch : x \o ch, "", buf)
      c == MatchUtf8Character(s)
  IN  IF IsTermChar(Peek(s))
        THEN IF IsKeyword(text) THEN Token(s, from, text) ELSE With(Token(s, from, "Identifier"), buf)
      ELSE IF c.ok THEN Name(c.s, from, buf \o c.got) ELSE Error(c.s)

MatchIdentifier(s) == Name(s, s, <<>>)

\* Six bits of each byte behind the first, and what the first has left.
CodePoint(bytes) ==
  LET n == Len(bytes)
      first == IF n = 1 THEN Byte(bytes[1]) ELSE Byte(bytes[1]) % 2 ^ (7 - n)
  IN  FoldLeft(LAMBDA value, ch : (value * 64) + (Byte(ch) % 64), first, Tail(bytes))

MatchChar(s) ==
  LET c == MatchUtf8Character(MoveNext(s))
  IN  IF c.ok /\ Peek(c.s) = "'" THEN With(Token(MoveNext(c.s), s, "CharVal"), <<CodePoint(c.got)>>)
                                 ELSE Error(c.s)

\* A backslash in front of anything else is dropped.
MatchEscapeCharacter(s) ==
  LET at == MoveNext(s)
      ch == Peek(at)
      high == MoveNext(at)
      low == MoveNext(high)
      IsHexChar(c) == c \in Decimal \cup HexLetters
      gives(x, behind) == [result |-> "ok", s |-> behind, got |-> <<x>>]
      fails(result, behind) == [result |-> result, s |-> behind, got |-> <<>>]
  IN  CASE ch = "$" -> gives("$", high)
        [] ch = "r" -> gives("\r", high)
        [] ch = "n" -> gives("\n", high)
        [] ch = "t" -> gives("\t", high)
        [] ch = "b" -> gives("<08>", high)
        [] ch \in {"x", "X"} -> IF IsHexChar(Peek(high)) /\ IsHexChar(Peek(low))
                                 THEN gives(OfByte(Peek(high), Peek(low)), MoveNext(low))
                               ELSE fails("error", high)
        [] ch \in {"u", "U"} -> fails("abort", at)
        [] OTHER -> fails("ok", at)

\* Where a template ends is looked for without a limit: behind the end of the
\* file 0 is read for ever.
RECURSIVE TemplateText(_, _, _)
TemplateText(s, from, buf) ==
  LET ch == Peek(s)
      escape == MatchEscapeCharacter(s)
      c == MatchUtf8Character(s)
      pushed == [MoveNext(MoveNext(s)) EXCEPT !.templates = Append(@, "expression")]
  IN  CASE ch = "\"" -> With(Token([MoveNext(s) EXCEPT !.templates = Front(@)], from, "StringTempleteSuffix"), buf)
        [] ch = "$" -> IF buf # <<>> THEN With(Token(s, from, "StringTempletePart"), buf)
                       ELSE IF Peek(MoveNext(s)) = "{" THEN Token(pushed, from, "StringTempleteExpressBegin")
                       ELSE MatchIdentifier(MoveNext(s))
        [] ch = "\\" -> IF escape.result = "ok" THEN TemplateText(escape.s, from, buf \o escape.got)
                        ELSE IF escape.result = "error" THEN Error(escape.s) ELSE Abort(escape.s)
        [] ch \in {"\r", "\n"} -> Error(s)
        [] ch = "" -> Never(s)
        [] OTHER -> IF c.ok THEN TemplateText(c.s, from, buf \o c.got) ELSE Error(c.s)

MatchSimpleTemplateString(s) == TemplateText(s, s, <<>>)

RECURSIVE StringText(_, _, _, _)
StringText(s, from, buf, mode) ==
  LET ch == Peek(s)
      escape == MatchEscapeCharacter(s)
      c == MatchUtf8Character(s)
      go(behind, got) == StringText(behind, from, buf \o got, mode)
      pushed == [s EXCEPT !.templates = Append(@, "simple")]
  IN  CASE ch = mode.quote -> With(Token(MoveNext(s), from, "StringLine"), buf)
        [] ch = "$" /\ mode.escape -> With(Token(pushed, from, "StringTempletePrefix"), buf)
        [] ch = "\\" /\ mode.escape -> IF escape.result = "ok" THEN go(escape.s, escape.got)
                                       ELSE IF escape.result = "error" THEN Error(escape.s) ELSE Abort(escape.s)
        [] ch \in {"$", "\\"} /\ ~mode.escape -> go(MoveNext(s), <<ch>>)
        [] ch \in {"\r", "\n"} -> IF mode.block THEN go(NewLine(s), <<ch>>) ELSE Error(s)
        [] ch = "" -> Error(s)
        [] ch \notin {mode.quote, "$", "\\", "\r", "\n", ""} -> IF c.ok THEN go(c.s, c.got) ELSE Error(c.s)

MatchString(s, quote, escape, block) ==
  StringText(MoveNext(s), s, <<>>, [quote |-> quote, escape |-> escape, block |-> block])

-----------------------------------------------------------------------------
(* Next.                                                                   *)

Singles == ToSet(Chars("()[]{}*%~^,;$@?"))

Pairs ==
  {"!=", "!!", "||", "&&", "::", "<=", "<<", "<>", "<-", ">=", ">>", "==", "+=", "++", "-=", "--", "->"}

Firsts == {SubSeq(p, 1, 1) : p \in Pairs}

\* A token of two characters if there is one, or else of one; a sign in front
\* of a digit belongs to the number.
MatchPair(s) ==
  LET ch == Peek(s)
      next == MoveNext(s)
      kind == ch \o Peek(next)
  IN  CASE kind \in Pairs -> Token(MoveNext(next), s, IF kind = "<>" THEN "!=" ELSE kind)
        [] ch = "!" /\ Peek(next) = "\"" -> MatchString(next, "\"", FALSE, FALSE)
        [] ch = "+" /\ Peek(next) \in Decimal -> MatchNumber(next, 1)
        [] ch = "-" /\ Peek(next) \in Decimal -> MatchNumber(next, -1)
        [] OTHER -> Token(next, s, ch)

\* One, two, or three and more dots.
MatchDots(s) ==
  LET second == MoveNext(s)
      third == MoveNext(second)
      fourth == MoveNext(third)
  IN  CASE Peek(second) # "." -> Token(second, s, ".")
        [] Peek(second) = "." /\ Peek(third) # "." -> Token(third, s, "..")
        [] OTHER -> IF Peek(fourth) = "." THEN Token(fourth, s, "..") ELSE Token(fourth, s, "...")

RECURSIVE SkipComment(_)
SkipComment(s) == IF Peek(s) \in {"\n", "\r", ""} THEN s ELSE SkipComment(MoveNext(s))

RECURSIVE Next(_)
Next(s) ==
  LET ch == Peek(s)
      next == MoveNext(s)
      template == s.templates[Len(s.templates)]
  IN  CASE template = "simple" -> MatchSimpleTemplateString(s)
        [] template = "expression" /\ ch = "}" ->
             Token([next EXCEPT !.templates = Front(@)], s, "StringTempleteExpressEnd")
        [] template # "simple" /\ ~(template = "expression" /\ ch = "}") ->
             CASE ch = "" -> Token(s, s, "EOF")
               [] ch \in {" ", "\t"} -> Next(next)
               [] ch = "\r" -> Next(IF Peek(next) = "\n" THEN NewLine(next) ELSE next)
               [] ch = "\n" -> Next(NewLine(s))
               [] ch = "\"" -> MatchString(s, ch, TRUE, FALSE)
               [] ch = "'" -> MatchChar(s)
               [] ch = Backquote -> MatchString(s, ch, FALSE, TRUE)
               [] ch \in Singles -> MatchOne(s, ch)
               [] ch = "/" -> IF Peek(next) = "/" THEN Next(SkipComment(next)) ELSE MatchOne(s, ch)
               [] ch = "." -> MatchDots(s)
               [] ch \in Firsts -> MatchPair(s)
               [] ch \in Decimal -> MatchNumber(s, 0)
               [] OTHER -> IF IsUtf8Prefix(ch) > 0 /\ ~IsTermChar(ch) THEN MatchIdentifier(s) ELSE Error(s)

\* All tokens of a file, the first that is an error or the end included.
RECURSIVE Tokens(_)
Tokens(s) ==
  LET t == Next(s)
      token == [kind |-> t.kind, value |-> t.value, line |-> t.line, column |-> t.column]
  IN  <<token>> \o (IF t.kind \in {"EOF", "Error", "Abort", "Never"} THEN <<>> ELSE Tokens(t.s))

\* A file that cannot be read at first has no tokens.
Scan(source, file) ==
  LET opened == SwitchInputFile(source, file)
  IN  IF opened.eof THEN <<>> ELSE Tokens(Filled(opened.s))
=============================================================================
