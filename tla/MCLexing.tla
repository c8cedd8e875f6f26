------------------------------- MODULE MCLexing -------------------------------
(* Files for the lexer, with the tokens they are written from: numbers at    *)
(* the ends of their types, strings and templates piece by piece, tokens     *)
(* beside each other, and files of every length around the buffer's.         *)
EXTENDS Lexer, FiniteSets

\* A token expected at an offset of the file, from 1.
At(offset, kind, value) == [at |-> offset, kind |-> kind, value |-> value]

\* Line and column of an offset; "\r\n" and "\n" end a line.
Place(file, at) ==
  LET ends == {i \in 1..(at - 1) : file[i] = "\n"}
      last == IF ends = {} THEN 0 ELSE CHOOSE i \in ends : \A j \in ends : j <= i
  IN  [line |-> 1 + Cardinality(ends), column |-> at - last]

\* The file is read as these tokens up to the first that is an error.
ReadsAs(source, file, expected) ==
  LET got == Scan(source, file)
  IN  /\ Len(got) = Len(expected)
      /\ \A i \in DOMAIN got :
           /\ got[i].kind = expected[i].kind
           /\ got[i].kind # "Error" =>
                /\ got[i].value = expected[i].value
                /\ [line |-> got[i].line, column |-> got[i].column] = Place(file, expected[i].at)

\* The end of the file is the last token if there is no error.
Ended(file, tokens) ==
  IF tokens # <<>> /\ Last(tokens).kind = "Error" THEN tokens
  ELSE Append(tokens, At(Len(file) + 1, "EOF", <<>>))

-----------------------------------------------------------------------------
(* Numbers.  A magnitude has nine bytes.                                   *)

Power(n) == [i \in 1..9 |-> IF i = 1 + n \div 8 THEN 2 ^ (n % 8) ELSE 0]
Minus1(m) == FoldLeft(LAMBDA acc, b : [m |-> Append(acc.m, (b - acc.borrow) % 256),
                                       borrow |-> IF b < acc.borrow THEN 1 ELSE 0],
                      [m |-> <<>>, borrow |-> 1], m).m

\* 10^19 - 1 and 10^20 - 1.
Nines == {<<255, 255, 231, 137, 4, 35, 199, 138, 0>>, <<255, 255, 15, 99, 45, 94, 199, 107, 5>>}

Magnitudes ==
  {Power(n) : n \in {0, 6, 7, 8, 15, 16, 30, 31, 32, 63, 64}}
    \cup {Minus1(Power(n)) : n \in {0, 6, 7, 8, 15, 16, 30, 31, 32, 63, 64}} \cup Nines

Below(m, n) == \A i \in n..71 : ~HasBit(m, i)

Digit(d) == SubSeq("0123456789abcdef", d + 1, d + 1)

\* One digit after the other, divided off from the highest byte on.
RECURSIVE Digits(_, _)
Digits(m, base) ==
  LET d == FoldRight(LAMBDA b, acc : [q |-> <<(acc.r * 256 + b) \div base>> \o acc.q,
                                      r |-> (acc.r * 256 + b) % base],
                     m, [q |-> <<>>, r |-> 0])
  IN  (IF \A i \in DOMAIN d.q : d.q[i] = 0 THEN <<>> ELSE Digits(d.q, base)) \o <<Digit(d.r)>>

Numbers ==
  [family : {"numbers"}, sign : {"", "+", "-"}, base : {8, 10, 16}, m : Magnitudes,
   suffix : {"", "u", "i8", "u8", "i16", "u16", "i32", "u32", "i64", "u64"}]

Floats ==
  {f \in [family : {"floats"}, sign : {"", "+", "-"}, frac : {"", ".5"}, exp : {"", "e3", "e+3", "e-3"},
          suffix : {"", "f", "d"}] : f.frac \o f.exp \o f.suffix # ""}

Type(suffix) ==
  CASE suffix = "" -> "IntVal"      [] suffix = "u" -> "UIntVal"
    [] suffix = "i8" -> "I8Val"     [] suffix = "u8" -> "U8Val"
    [] suffix = "i16" -> "I16Val"   [] suffix = "u16" -> "U16Val"
    [] suffix = "i32" -> "I32Val"   [] suffix = "u32" -> "U32Val"
    [] suffix = "i64" -> "I64Val"   [] suffix = "u64" -> "U64Val"

Bits(x) == IF x.suffix = "u" THEN 32 ELSE BitWidth(Type(x.suffix))
IsSigned(x) == Type(x.suffix) \in Signed
Negative(x) == x.sign = "-"

\* The number is one of its type.
InType(x) ==
  IF IsSigned(x) THEN Below(x.m, Bits(x) - 1) \/ (Negative(x) /\ x.m = Power(Bits(x) - 1))
  ELSE Below(x.m, Bits(x)) /\ (Negative(x) => x.m = Minus1(Power(0)))

NumberFile(x) ==
  Chars(x.sign) \o (CASE x.base = 8 -> <<"0">> [] x.base = 16 -> <<"0", "x">> [] OTHER -> <<>>)
    \o Digits(x.m, x.base) \o Chars(x.suffix)

\* Where a number starts is where its digits do.
NumberTokens(x) ==
  LET low == SubSeq(x.m, 1, 8)
      value == SubSeq(IF Negative(x) THEN Negated(low) ELSE low, 1, Bits(x) \div 8)
  IN  IF InType(x) THEN <<At(1 + Len(x.sign), Type(x.suffix), value)>> ELSE <<At(1, "Error", <<>>)>>

\* Of I8 and I32 only the lower half is taken and of no type of a sign the
\* least number (in decimals), unsigned numbers may have a minus, nothing is
\* checked of an I64 that is not decimal, 64 bits that are all set (not in
\* decimals) are a -1 for every type with a sign, u alone is no type, and the
\* checks of overflow in ParseI64, ParseU64 and ParseO64 overflow themselves.
MisreadNumber(x) ==
  LET refused ==
        CASE Type(x.suffix) \in {"I8Val", "I32Val", "IntVal"} -> ~Below(x.m, Bits(x) - 2)
          [] Type(x.suffix) = "I16Val" -> ~Below(x.m, 15)
          [] Type(x.suffix) = "I64Val" -> ~Below(x.m, 63) /\ x.base = 10
          [] OTHER -> x.suffix = "u"
      taken ==
        \/ ~IsSigned(x) /\ x.suffix # "u" /\ Below(x.m, Bits(x))
        \/ x.suffix = "u" /\ Below(x.m, 30)
        \/ x.suffix = "i64" /\ x.base # 10 /\ Below(x.m, 64)
        \/ /\ IsSigned(x) \/ x.suffix = "u"
           /\ x.base # 10 /\ x.m = Minus1(Power(64))
      overflows ==
        \/ x.base = 8 /\ x.m = Power(64)
        \/ x.base = 10 /\ x.m \in Nines /\ x.suffix = IF Below(x.m, 64) THEN "i64" ELSE "u64"
  IN  IF InType(x) THEN refused ELSE taken \/ overflows

FloatFile(x) == Chars(x.sign \o "1" \o x.frac \o x.exp \o x.suffix)

FloatTokens(x) ==
  <<At(1 + Len(x.sign), IF x.suffix = "d" THEN "F64Val" ELSE "F32Val",
       (IF x.sign = "-" THEN <<"-">> ELSE <<>>) \o Chars("1" \o x.frac \o x.exp))>>

\* Without a dot e, f and d are digits, and an exponent has no sign.
MisreadFloat(x) == x.frac = "" \/ x.exp \in {"e+3", "e-3"}

-----------------------------------------------------------------------------
(* Strings.  A piece is what stands in the file and what it means.         *)

Literal(text, value) == [part |-> "text", chars |-> text, value |-> value]
Plain(chars) == Literal(chars, chars)
Embedded(part, chars, tokens) == [part |-> part, chars |-> chars, tokens |-> tokens]

Good ==
  {Plain(<<" ">>), Plain(<<"'">>), Plain(<<"<e6>", "<b1>", "<89>">>), Literal(Chars("\\n"), <<"\n">>),
   Literal(Chars("\\$"), <<"$">>), Literal(Chars("\\x4a"), <<"J">>)}
    \cup {Embedded("name", Chars("$b"), <<At(2, "Identifier", <<"b">>)>>),
          Embedded("expr", Chars("${b}"),
                   <<At(1, "StringTempleteExpressBegin", <<>>), At(3, "Identifier", <<"b">>),
                     At(4, "StringTempleteExpressEnd", <<>>)>>),
          Embedded("expr", Chars("${\"$if\"}"),
                   <<At(1, "StringTempleteExpressBegin", <<>>), At(3, "StringTempletePrefix", <<>>),
                     At(5, "if", <<>>), At(7, "StringTempleteSuffix", <<>>),
                     At(8, "StringTempleteExpressEnd", <<>>)>>)}

\* What is read as something else: a quote or backslash behind a backslash,
\* \u, and braces within the braces of an expression.
Bad ==
  {Literal(Chars("\\\""), <<"\"">>), Literal(Chars("\\\\"), <<"\\">>), Literal(Chars("\\u0041"), <<"A">>),
   Embedded("expr", Chars("${{b}}"),
            <<At(1, "StringTempleteExpressBegin", <<>>), At(3, "{", <<>>), At(4, "Identifier", <<"b">>),
              At(5, "}", <<>>), At(6, "StringTempleteExpressEnd", <<>>)>>)}

UpTo(n, S) == UNION {[1..k -> S] : k \in 0..n}

\* A name goes on with the next character unless that ends it.
Separate(parts) ==
  \A i \in 1..(Len(parts) - 1) : parts[i].part = "name" => ~(Len(parts[i + 1].chars[1]) > 1)

Lines == {Plain(<<"\n">>), Plain(<<"\r", "\n">>)}

\* A string ends where it should, before a new line or with the file, or has
\* an escape that is none.
Strings ==
  {x \in [family : {"strings"}, quote : {"\""}, parts : UpTo(3, Good), end : {"closed", "open", "line", "hex"}]
           \cup [family : {"strings"}, quote : {"\""}, parts : UpTo(2, Good \cup Bad), end : {"closed"}]
           \cup [family : {"strings"}, quote : {"!"}, parts : UpTo(2, {p \in Good : "\"" \notin ToSet(p.chars)}),
                 end : {"closed", "open", "line"}]
           \cup [family : {"strings"}, quote : {Backquote}, parts : UpTo(2, Good \cup Bad \cup Lines),
                 end : {"closed", "open"}] : Separate(x.parts)}

Opening(x) == IF x.quote = "!" THEN <<"!", "\"">> ELSE <<x.quote>>

Inner(parts) == FoldLeft(LAMBDA acc, p : acc \o p.chars, <<>>, parts)

StringFile(x) ==
  Opening(x) \o Inner(x.parts)
    \o (CASE x.end = "closed" -> <<IF x.quote = "!" THEN "\"" ELSE x.quote>>
          [] x.end = "open" -> <<>>   [] x.end = "line" -> <<"\n">>   [] x.end = "hex" -> Chars("\\x8"))

\* The tokens of the pieces: `run' is the text since `from', `at' the offset
\* of the next piece.
Pieces(x) ==
  LET text(acc, last) == At(acc.from, IF acc.tokens = <<>> THEN "StringTempletePrefix" ELSE last, acc.run)
      flushed(acc) == acc.tokens \o (IF acc.tokens # <<>> /\ acc.run = <<>> THEN <<>>
                                     ELSE <<text(acc, "StringTempletePart")>>)
      moved(p, at) == [i \in DOMAIN p.tokens |-> [p.tokens[i] EXCEPT !.at = @ + at - 1]]
      add(acc, p) ==
        LET next == acc.at + Len(p.chars)
        IN  IF p.part = "text" THEN [acc EXCEPT !.run = @ \o p.value, !.at = next]
            ELSE [tokens |-> flushed(acc) \o moved(p, acc.at), run |-> <<>>, at |-> next, from |-> next]
  IN  FoldLeft(add, [tokens |-> <<>>, run |-> <<>>, at |-> 2, from |-> 1], x.parts)

StringTokens(x) ==
  LET acc == Pieces(x)
  IN  CASE x.end # "closed" ->
             (IF x.quote = "\"" THEN acc.tokens ELSE <<>>) \o <<At(1, "Error", <<>>)>>
        [] x.end = "closed" /\ x.quote = "\"" ->
             IF acc.tokens = <<>> THEN <<At(1, "StringLine", acc.run)>>
             ELSE Append(acc.tokens, At(acc.from, "StringTempleteSuffix", acc.run))
        [] OTHER -> <<At(Len(Opening(x)), "StringLine", Inner(x.parts))>>

\* Besides Bad: a template that the file ends in is looked through for ever,
\* and the end of a line in a block string counts as two if it is "\r\n".
MisreadString(x) ==
  CASE x.quote = "\"" -> \/ \E p \in ToSet(x.parts) : p \in Bad
                         \/ x.end = "open" /\ \E p \in ToSet(x.parts) : p.part # "text"
    [] x.quote = "!" -> FALSE
    [] x.quote = Backquote -> x.end = "closed" /\ Plain(<<"\r", "\n">>) \in ToSet(x.parts)

-----------------------------------------------------------------------------
(* Tokens beside each other.                                               *)

Item(chars, kind, value) == [chars |-> chars, kind |-> kind, value |-> value]

Names == {Item(<<"a">>, "Identifier", <<"a">>), Item(<<"_", "1">>, "Identifier", <<"_", "1">>),
          Item(<<"<c3>", "<a9>">>, "Identifier", <<"<c3>", "<a9>">>), Item(Chars("when"), "when", <<>>)}

Literals == {Item(<<"7">>, "IntVal", <<7, 0, 0, 0>>), Item(Chars("1.5"), "F32Val", Chars("1.5")),
             Item(Chars("0x1f"), "IntVal", <<31, 0, 0, 0>>), Item(Chars("3u8"), "U8Val", <<3>>)}

SignedLiterals == {Item(<<"-", "7">>, "IntVal", <<249, 255, 255, 255>>), Item(<<"+", "7">>, "IntVal", <<7, 0, 0, 0>>)}

Quoted == {Item(Chars("\"s\""), "StringLine", <<"s">>), Item(Chars("'c'"), "CharVal", <<99>>),
           Item(<<"'", "<e6>", "<b1>", "<89>", "'">>, "CharVal", <<27721>>),
           Item(<<"'", "<f0>", "<9f>", "<98>", "<a4>", "'">>, "CharVal", <<128548>>),
           Item(<<Backquote, "s", Backquote>>, "StringLine", <<"s">>)}

Spellings == Singles \cup Pairs \cup Firsts \cup {"/", ".", "..", "..."}

Punctuation == {Item(Chars(p), IF p = "<>" THEN "!=" ELSE p, <<>>) : p \in Spellings}

Dots == {i \in Punctuation : i.chars[1] = "."}
Slash == Item(<<"/">>, "/", <<>>)
Bang == Item(<<"!">>, "!", <<>>)

\* What a value may end with: a sign behind it is an operator.
Operands ==
  {n \in Names : n.kind = "Identifier"} \cup Literals \cup SignedLiterals \cup Quoted
    \cup {Item(<<")">>, ")", <<>>), Item(<<"]">>, "]", <<>>)}

AllItems == Names \cup Literals \cup Quoted \cup Punctuation

\* Names and numbers beside each other are one, and //, !" and +7 are others.
Beside ==
  {p \in AllItems \X AllItems :
     /\ ~(p[1] \in Names \cup Literals /\ p[2] \in Names \cup Literals)
     /\ p # <<Slash, Slash>> /\ ~(p[1] = Bang /\ p[2].chars[1] = "\"")
     /\ ~(p[1].chars \in {<<"+">>, <<"-">>} /\ p[2] \in Literals)}

Couples ==
  {[family |-> "couples", a |-> p[1], b |-> p[2], between |-> <<>>] : p \in Beside}
    \cup [family : {"couples"}, a : AllItems, b : AllItems \cup SignedLiterals, between : {<<" ">>}]
    \cup [family : {"couples"}, a : Operands, b : SignedLiterals, between : {<<>>}]
    \cup [family : {"couples"}, a : Names \cup {Slash}, b : Names \cup SignedLiterals,
          between : {<<"\n">>, <<"\r", "\n">>, <<"\t">>, Chars(" //x$\n"), Chars(" //\r\n")}]

CoupleFile(x) == x.a.chars \o x.between \o x.b.chars

\* The longest spelling comes first.
RECURSIVE Munched(_, _)
Munched(chars, at) ==
  LET fits == {p \in Spellings : Len(p) <= Len(chars) /\ Chars(p) = SubSeq(chars, 1, Len(p))}
      p == CHOOSE q \in fits : \A r \in fits : Len(r) <= Len(q)
  IN  IF chars = <<>> THEN <<>>
      ELSE <<At(at, IF p = "<>" THEN "!=" ELSE p, <<>>)>> \o Munched(SubSeq(chars, Len(p) + 1, Len(chars)), at + Len(p))

SignedPair(i, at) ==
  LET unsigned == <<7, 0, 0, 0>> IN <<At(at, i.chars[1], <<>>), At(at + 1, "IntVal", unsigned)>>

CoupleTokens(x) ==
  LET at == 1 + Len(x.a.chars) + Len(x.between)
      one(i, from) == <<At(from + (IF i \in SignedLiterals THEN 1 ELSE 0), i.kind, i.value)>>
  IN  IF x.between = <<>> /\ x.a \in Punctuation /\ x.b \in Punctuation THEN Munched(CoupleFile(x), 1)
      ELSE one(x.a, 1) \o (IF x.a \in Operands /\ x.b \in SignedLiterals THEN SignedPair(x.b, at) ELSE one(x.b, at))

\* A sign behind a value is read as part of the number, a dot behind a number
\* without a suffix too, and of four dots and more three are read as two.
MisreadCouple(x) ==
  \/ x.a \in Operands /\ x.b \in SignedLiterals
  \/ x.between = <<>> /\ x.a \in Literals /\ x.a.kind # "U8Val" /\ x.b \in Dots
  \/ x.between = <<>> /\ x.a \in Dots /\ x.b \in Dots /\ Len(x.a.chars) + Len(x.b.chars) > 3

-----------------------------------------------------------------------------
(* Files of n characters.                                                  *)

Lengths == [family : {"lengths"}, source : {"memory", "posix"}, n : 0..(3 * BufferSize + 1)]

LengthFile(x) == [i \in 1..x.n |-> IF i % 2 = 1 THEN "(" ELSE "\n"]

LengthTokens(x) == [i \in 1..((x.n + 1) \div 2) |-> At(2 * i - 1, "(", <<>>)]

\* The file reader of env.cc gives nothing for a read that meets the end, so
\* that what does not fill a buffer behind the first is lost; the file in
\* memory does so for the first read of an empty file.
MisreadLength(x) ==
  IF x.source = "memory" THEN x.n = 0 ELSE x.n > BufferSize /\ x.n % BufferSize # 0

-----------------------------------------------------------------------------
ScanFamilies == {"numbers", "floats", "strings", "couples", "lengths"}

ScanInputs(family) ==
  CASE family = "numbers" -> Numbers   [] family = "floats" -> Floats
    [] family = "strings" -> Strings   [] family = "couples" -> Couples
    [] family = "lengths" -> Lengths

Scans(x) ==
  LET f == x.family
      file == CASE f = "numbers" -> NumberFile(x)  [] f = "floats" -> FloatFile(x)
                [] f = "strings" -> StringFile(x)  [] f = "couples" -> CoupleFile(x)
                [] f = "lengths" -> LengthFile(x)
      tokens == CASE f = "numbers" -> NumberTokens(x)  [] f = "floats" -> FloatTokens(x)
                  [] f = "strings" -> StringTokens(x)  [] f = "couples" -> CoupleTokens(x)
                  [] f = "lengths" -> LengthTokens(x)
      source == IF f = "lengths" THEN x.source ELSE "memory"
  IN  ReadsAs(source, file, Ended(file, tokens))

Misscanned(x) ==
  CASE x.family = "numbers" -> MisreadNumber(x)  [] x.family = "floats" -> MisreadFloat(x)
    [] x.family = "strings" -> MisreadString(x)  [] x.family = "couples" -> MisreadCouple(x)
    [] x.family = "lengths" -> MisreadLength(x)
=============================================================================
