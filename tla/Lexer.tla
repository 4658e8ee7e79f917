-------------------------------- MODULE Lexer --------------------------------
(* The table-driven recogniser under the lexer of the text format: a regular expression    *)
(* is parsed (Regexp.cpp), added to a nondeterministic automaton, which becomes a           *)
(* deterministic one whose transitions are kept per class of characters (NFA.cpp).          *)
(* A character is a string of length 1, "NUL" the character 0; a text is a sequence.        *)
EXTENDS Integers, Sequences, SequencesExt, FiniteSetsExt

(* The characters in the order of their codes, NUL first.                                  *)
CONSTANT Chars
(* The largest number of states that may follow a state of the deterministic automaton.    *)
CONSTANT numSupportedLocalStates

Char   == Range(Chars)
ord(c) == CHOOSE i \in DOMAIN Chars : Chars[i] = c
peek(input, i) == IF i \in DOMAIN input THEN input[i] ELSE "NUL"

-----------------------------------------------------------------------------
(* Sets of characters (DenseStaticIntSet)                                                 *)

(* Fault: the last character of the range is left out.                                    *)
addRangeFault(c, d) == {Chars[i] : i \in ord(c)..(ord(d) - 1)}

addRange(c, d) == {Chars[i] : i \in ord(c)..ord(d)}
complement(set) == Char \ set

-----------------------------------------------------------------------------
(* The parser.  A parse is the value and the position after it, or fatal.                   *)

fatal == [node |-> [type |-> "fatal"], next |-> 0]
parsed(node, next) == [node |-> node, next |-> next]
failed(p) == p.node.type = "fatal"

Lit(set)          == [type |-> "lit", set |-> set]
Unary(type, child) == [type |-> type, child |-> child]
Binary(type, first, second) == [type |-> type, first |-> first, second |-> second]

isMetachar(inSet, c) ==
    \/ c \in {"^", "\\"}
    \/ c \in {"-", "]"} /\ inSet
    \/ c \in {"$", ".", "|", "*", "+", "?", "(", ")", "[", "{"} /\ ~inSet

(* A character that is no metacharacter, or one that is after a backslash.                  *)
oneChar(c, isLiteral, next) == IF isLiteral THEN parsed(Lit({c}), next) ELSE fatal
parseChar(inSet, r, i) ==
    IF peek(r, i) = "\\" THEN oneChar(peek(r, i + 1), isMetachar(inSet, peek(r, i + 1)), i + 2)
    ELSE oneChar(peek(r, i), ~isMetachar(inSet, peek(r, i)) /\ peek(r, i) # "NUL", i + 1)

(* The range from the literal c to the literal d, or c alone.                               *)
only(p) == CHOOSE x \in p.node.set : TRUE
parseRange(c, d) == IF failed(d) THEN fatal ELSE parsed(Lit(addRange(only(c), only(d))), d.next)
parseLitFrom(inSet, r, c) ==
    IF failed(c) \/ ~(inSet /\ peek(r, c.next) = "-") THEN c
    ELSE parseRange(c, parseChar(inSet, r, c.next + 1))
parseLit(inSet, r, i) == parseLitFrom(inSet, r, parseChar(inSet, r, i))

classes == [d |-> addRange("0", "9"),
            w |-> addRange("a", "z") \cup addRange("A", "Z") \cup addRange("0", "9") \cup {"_"},
            s |-> {" ", "\t", "\f", "\r", "\n"}]

parseEscape(inSet, c, next) ==
    IF c \in {"d", "w", "s"} THEN parsed(Lit(classes[c]), next) ELSE oneChar(c, isMetachar(inSet, c), next)
parseCharClass(inSet, r, i) ==
    IF peek(r, i) = "\\" THEN parseEscape(inSet, peek(r, i + 1), i + 2) ELSE parseLit(inSet, r, i)

(* c is the member just read, set those before it.                                        *)
RECURSIVE parseMembers(_, _, _)
parseMembers(r, c, set) ==
    IF failed(c) THEN fatal
    ELSE IF peek(r, c.next) \in {"NUL", "]"} THEN parsed(Lit(set \cup c.node.set), c.next + 1)
    ELSE parseMembers(r, parseCharClass(TRUE, r, c.next), set \cup c.node.set)

negated(p) == IF failed(p) THEN fatal ELSE parsed(Lit(complement(p.node.set) \ {"NUL"}), p.next)
parseSet(r, i) ==
    IF peek(r, i + 1) = "^" THEN negated(parseMembers(r, parsed(Lit({}), i + 2), {}))
    ELSE parseMembers(r, parsed(Lit({}), i + 1), {})

parseElementary(r, i) ==
    CASE peek(r, i) = "[" -> parseSet(r, i)
      [] peek(r, i) = "." -> parsed(Lit(complement({"NUL"})), i + 1)
      [] peek(r, i) = "$" -> parsed(Lit({"\n"}), i + 1)
      [] peek(r, i) \notin {"[", ".", "$"} -> parseCharClass(FALSE, r, i)

(* Where a sequence or a union may end.                                                    *)
ends(r, p, groupDepth) ==
    \/ peek(r, p.next) = ")" /\ groupDepth > 0
    \/ peek(r, p.next) = "NUL" /\ groupDepth = 0

RECURSIVE parseUnion(_, _, _), parseAlternatives(_, _, _, _), parseSeq(_, _, _), parseElements(_, _, _, _)

closed(inner) == IF failed(inner) THEN fatal ELSE parsed(inner.node, inner.next + 1)
parseGroup(r, i, groupDepth) ==
    IF peek(r, i) = "(" THEN closed(parseUnion(r, i + 1, groupDepth + 1)) ELSE parseElementary(r, i)

quantifiers == ("+" :> "oneOrMore") @@ ("*" :> "zeroOrMore") @@ ("?" :> "optional")

quantified(r, p) ==
    IF ~failed(p) /\ peek(r, p.next) \in DOMAIN quantifiers
    THEN parsed(Unary(quantifiers[peek(r, p.next)], p.node), p.next + 1) ELSE p
parseQuantifier(r, i, groupDepth) == quantified(r, parseGroup(r, i, groupDepth))

parseElements(r, p, groupDepth, result) ==
    LET node == IF result = <<>> THEN p.node ELSE Binary("seq", result[1], p.node)
    IN  IF failed(p) THEN fatal
        ELSE IF ends(r, p, groupDepth) \/ peek(r, p.next) = "|" THEN parsed(node, p.next)
        ELSE IF peek(r, p.next) \in {")", "NUL"} THEN fatal
        ELSE parseElements(r, parseQuantifier(r, p.next, groupDepth), groupDepth, <<node>>)
parseSeq(r, i, groupDepth) == parseElements(r, parseQuantifier(r, i, groupDepth), groupDepth, <<>>)

parseAlternatives(r, p, groupDepth, result) ==
    LET node == IF result = <<>> THEN p.node ELSE Binary("alt", result[1], p.node)
    IN  IF failed(p) THEN fatal
        ELSE IF ends(r, p, groupDepth) THEN parsed(node, p.next)
        ELSE IF peek(r, p.next) # "|" THEN fatal
        ELSE parseAlternatives(r, parseSeq(r, p.next + 1, groupDepth), groupDepth, <<node>>)
parseUnion(r, i, groupDepth) == parseAlternatives(r, parseSeq(r, i, groupDepth), groupDepth, <<>>)

parse(r) == parseUnion(r, 1, 0).node

-----------------------------------------------------------------------------
(* The nondeterministic automaton.  States are numbered from 0; a negative one is terminal, *)
(* and says whether the edge that leads to it consumes its character.                       *)

edgeDoesntConsumeInputFlag == 2^14
unmatchedCharacterTerminal == -(2^15)
maximumTerminalStateIndex  == -(2^14) - 1
consumes(state) == state <= maximumTerminalStateIndex
withoutConsuming(state) == IF consumes(state) THEN state + edgeDoesntConsumeInputFlag ELSE state

(* An edge leads from a state to another over a set of characters, an epsilon edge over none. *)
createBuilder == [size |-> 1, edges |-> {}, epsilon |-> {}]

INT16_MAX == 2^15 - 1
hasRoom(builder) == builder.size < INT16_MAX
addState(builder) == [builder EXCEPT !.size = @ + 1]
addEdge(builder, initialState, predicate, nextState) ==
    [builder EXCEPT !.edges = @ \cup {<<initialState, predicate, nextState>>}]
addEpsilonEdge(builder, initialState, nextState) ==
    [builder EXCEPT !.epsilon = @ \cup {<<initialState, nextState>>}]
getNonTerminalEdge(builder, initialState, c) ==
    LET after == {e[3] : e \in {f \in builder.edges : f[1] = initialState /\ c \in f[2] /\ f[3] >= 0}}
    IN  IF after = {} THEN unmatchedCharacterTerminal ELSE Min(after)

(* What a node adds to an automaton of size states.  Repetition uses the state it starts from. *)
RECURSIVE createNFA(_, _, _, _)
createNFA(size, node, initialState, finalState) ==
    LET none  == [createBuilder EXCEPT !.size = size]
        both(a, b) == [size |-> b.size, edges |-> a.edges \cup b.edges, epsilon |-> a.epsilon \cup b.epsilon]
    IN  CASE node.type = "lit" -> addEdge(none, initialState, node.set, finalState)
          [] node.type = "zeroOrMore" ->
                 addEpsilonEdge(createNFA(size, node.child, initialState, initialState), initialState, finalState)
          [] node.type = "oneOrMore" ->
                 LET once == createNFA(size + 1, node.child, initialState, size)
                 IN  addEpsilonEdge(both(once, createNFA(once.size, node.child, size, size)), size, finalState)
          [] node.type = "optional" ->
                 addEpsilonEdge(createNFA(size, node.child, initialState, finalState), initialState, finalState)
          [] node.type = "alt" ->
                 LET first == createNFA(size, node.first, initialState, finalState)
                 IN  both(first, createNFA(first.size, node.second, initialState, finalState))
          [] node.type = "seq" ->
                 LET first == createNFA(size + 1, node.first, initialState, size)
                 IN  both(first, createNFA(first.size, node.second, size, finalState))

addToNFA(r, builder, initialState, finalState) ==
    LET added == createNFA(builder.size, parse(r), initialState, finalState)
    IN  [size |-> added.size, edges |-> builder.edges \cup added.edges, epsilon |-> builder.epsilon \cup added.epsilon]

-----------------------------------------------------------------------------
(* The deterministic automaton: its states are the sets of states the other one may be in   *)

RECURSIVE epsilonClosure(_, _)
epsilonClosure(builder, states) ==
    LET more == states \cup {e[2] : e \in {f \in builder.epsilon : f[1] \in states}}
    IN  IF more = states THEN states ELSE epsilonClosure(builder, more)

terminals(states) == {s \in states : s < 0}

currentTerminal(closure) ==
    IF terminals(closure) = {} THEN withoutConsuming(unmatchedCharacterTerminal)
    ELSE withoutConsuming(CHOOSE s \in terminals(closure) : TRUE)

(* What follows a set of states on each character: without a transition, the token that     *)
(* ended before the character, if one did.                                                 *)
transitions(builder, states) ==
    LET closure == epsilonClosure(builder, states)
        leaving  == {e \in builder.edges : e[1] \in closure}
        after(c) == {e[3] : e \in {f \in leaving : c \in f[2]}}
    IN  [c \in {d \in Char : after(d) # {}} |-> after(c)] @@ [c \in Char |-> {currentTerminal(closure)}]

isTerminal(states) == Cardinality(states) = 1 /\ terminals(states) = states

RECURSIVE convertPending(_, _, _)
convertPending(builder, pending, dfa) ==
    IF pending = {} THEN dfa
    ELSE LET more  == [states \in pending |-> transitions(builder, states)]
             found == UNION {Range(more[states]) : states \in pending}
             done  == dfa @@ more
         IN  convertPending(builder, {s \in found : ~isTerminal(s)} \ DOMAIN done, done)
convertToDFA(builder) == convertPending(builder, {{0}}, <<>>)

(* The program stops if two tokens end at the same place, or if there is no room.           *)
localStates(builder, states) ==
    LET closure == epsilonClosure(builder, states)
    IN  {e[3] : e \in {f \in builder.edges : f[1] \in closure}} \cup {currentTerminal(closure)}
dfaFails(builder, dfa) ==
    \/ ~hasRoom(builder)
    \/ \E states \in DOMAIN dfa :
           \/ Cardinality(terminals(epsilonClosure(builder, states))) > 1
           \/ Cardinality(localStates(builder, states)) > numSupportedLocalStates
    \/ Cardinality(DOMAIN dfa) > INT16_MAX

(* Machine: characters that no state tells apart share a class and a row of the table.      *)
characterClasses(dfa) ==
    {{d \in Char : \A states \in DOMAIN dfa : dfa[states][d] = dfa[states][c]} : c \in Char}
Machine(dfa) == [classes |-> characterClasses(dfa), next |-> dfa]

RECURSIVE feedFrom(_, _, _, _)
feedFrom(machine, states, input, i) ==
    LET class == CHOOSE cs \in machine.classes : peek(input, i) \in cs
        after == machine.next[states][CHOOSE c \in class : TRUE]
        state == CHOOSE s \in after : TRUE
    IN  IF ~isTerminal(after) THEN feedFrom(machine, after, input, i + 1)
        ELSE IF consumes(state) THEN [state |-> state, next |-> i + 1]
        ELSE [state |-> state - edgeDoesntConsumeInputFlag, next |-> i]
feed(machine, input, i) == feedFrom(machine, {0}, input, i)

-----------------------------------------------------------------------------
(* The lexer of the WebAssembly text format (Lexer.cpp): the tokens of a text, and the     *)
(* starts of its lines from which the place of an error is computed.  Positions are         *)
(* offsets from 0, as in the code.                                                         *)
CONSTANTS Keywords,      \* the literal tokens, in the order of ENUM_LITERAL_TOKENS and ENUM_OPERATORS
          Texts          \* the texts to lex

(* A text file ends with a newline: the recovery from an unrecognized token looks for one   *)
(* without regard to the end of the text.                                                  *)
ASSUME TextsAssumption == \A t \in Texts : t # <<>> /\ Last(t) = "\n"

VARIABLES text, nextChar, tokens, lineStarts
vars == <<text, nextChar, tokens, lineStarts>>

-----------------------------------------------------------------------------
(* The tokens and their automaton                                                         *)

sign      == <<"[", "+", "\\", "-", "]", "?">>
digits    == <<"\\", "d", "+", "(", "_", "\\", "d", "+", ")", "*">>
hexDigit  == <<"[", "\\", "d", "a", "-", "f", "A", "-", "F", "]">>
hexDigits == hexDigit \o <<"+", "(", "_">> \o hexDigit \o <<"+", ")", "*">>
hexPrefix == <<"0", "[", "x", "X", "]">>
exponent  == <<"[", "e", "E", "]">> \o sign \o digits
hexExponent == <<"[", "p", "P", "]">> \o sign \o digits
group(r, quantifier) == <<"(">> \o r \o <<")", quantifier>>
hexInSet  == <<"[", "0", "-", "9", "a", "-", "f", "A", "-", "F", "]">>

string ==
    <<"\"", "(", "[", "^", "\"", "\n", "\\", "\\", "]", "*", "(", "\\", "\\", "(", "[", "^", "0", "-", "9", "a", "-",
      "f", "A", "-", "F", "u", "]", "|">> \o hexInSet \o hexInSet \o <<"|", "u", "\\", "{">> \o hexInSet
    \o <<"+", "}", ")", ")", ")", "*", "\"">>

(* Without the backquote, which TLA+ does not have in a string.                            *)
name ==
    <<"\\", "$", "[", "a", "-", "z", "A", "-", "Z", "0", "-", "9", "'", "_", "+", "*", "/", "~", "=", "<", ">", "!",
      "?", "@", "#", "$", "%", "&", "|", ":", ".", "\\", "-", "\\", "^", "\\", "\\", "]", "+">>

regexpTokenPairs == <<
    <<"decimalInt",   sign \o digits>>,
    <<"decimalFloat", sign \o digits \o <<"\\", ".">> \o group(digits, "*") \o group(exponent, "?")>>,
    <<"decimalFloat", sign \o digits \o exponent>>,
    <<"hexInt",       sign \o hexPrefix \o hexDigits>>,
    <<"hexFloat",     sign \o hexPrefix \o hexDigits \o <<"\\", ".">> \o group(hexDigits, "*")
                           \o group(hexExponent, "?")>>,
    <<"hexFloat",     sign \o hexPrefix \o hexDigits \o hexExponent>>,
    <<"floatNaN",     sign \o <<"n", "a", "n">> \o group(<<":">> \o hexPrefix \o hexDigits, "?")>>,
    <<"floatInf",     sign \o <<"i", "n", "f">>>>,
    <<"string",       string>>,
    <<"name",         name>> >>

literalTokenTuples ==
    << [type |-> "leftParenthesis",  literal |-> <<"(">>, isTokenSeparator |-> TRUE],
       [type |-> "rightParenthesis", literal |-> <<")">>, isTokenSeparator |-> TRUE],
       [type |-> "equals",           literal |-> <<"=">>, isTokenSeparator |-> TRUE] >>
    \o [i \in DOMAIN Keywords |-> [type |-> Keywords[i][1], literal |-> Keywords[i][2], isTokenSeparator |-> FALSE]]

TokenTypes ==
    <<"eof", "unterminatedComment", "unrecognized", "decimalFloat", "decimalInt", "hexFloat", "hexInt", "floatNaN",
      "floatInf", "string", "name", "leftParenthesis", "rightParenthesis", "equals">>
    \o [i \in DOMAIN Keywords |-> Keywords[i][1]]
terminalOf(type) == maximumTerminalStateIndex - ((CHOOSE i \in DOMAIN TokenTypes : TokenTypes[i] = type) - 1)
typeOf(terminal) == TokenTypes[maximumTerminalStateIndex - terminal + 1]

tokenSeparators == {" ", "\t", "\r", "\n", "=", "(", ")", ";", "NUL"}

(* The new state is the last one of the builder.                                           *)
createTokenSeparatorPeekState(builder, finalState) ==
    addEdge(addState(builder), builder.size, tokenSeparators, withoutConsuming(finalState))

RECURSIVE addLiteralToNFA(_, _, _, _)
addLiteralToNFA(literal, builder, initialState, finalState) ==
    LET known == getNonTerminalEdge(builder, initialState, Head(literal))
        last  == Len(literal) = 1
        fresh == addState(builder)
    IN  CASE last -> addEdge(builder, initialState, {Head(literal)}, finalState)
          [] ~last /\ known >= 0 -> addLiteralToNFA(Tail(literal), builder, known, finalState)
          [] ~last /\ known < 0 ->
                 addLiteralToNFA(Tail(literal), addEdge(fresh, initialState, {Head(literal)}, builder.size),
                                 builder.size, finalState)

nfa ==
    LET addRegexp(builder, pair) ==
            IF ~hasRoom(builder) THEN builder
            ELSE addToNFA(pair[2], createTokenSeparatorPeekState(builder, terminalOf(pair[1])), 0, builder.size)
        addLiteral(builder, tuple) ==
            CASE ~hasRoom(builder) -> builder
              [] hasRoom(builder) /\ tuple.isTokenSeparator ->
                     addLiteralToNFA(tuple.literal, builder, 0, terminalOf(tuple.type))
              [] hasRoom(builder) /\ ~tuple.isTokenSeparator ->
                     addLiteralToNFA(tuple.literal, createTokenSeparatorPeekState(builder, terminalOf(tuple.type)),
                                     0, builder.size)
    IN  FoldLeft(addLiteral, FoldLeft(addRegexp, createBuilder, regexpTokenPairs), literalTokenTuples)

nfaMachine == Machine(convertToDFA(nfa))

-----------------------------------------------------------------------------
(* Lexing                                                                                *)

char(i) == peek(text, i + 1)
stringLength == Len(text)

isRecoveryPointChar(c) == c \in {" ", "\t", "\r", "\n", "\f", "(", ")"}

Token(type, begin) == [type |-> type, begin |-> begin]
reading == IF tokens = <<>> THEN TRUE ELSE Last(tokens).type # "eof"

Init ==
    /\ text \in Texts
    /\ nextChar = 0
    /\ tokens = <<>>
    /\ lineStarts = <<0>>

SkipWhitespace ==
    /\ reading
    /\ char(nextChar) \in {" ", "\t", "\r", "\f", "\n"}
    /\ nextChar' = nextChar + 1
    /\ lineStarts' = IF char(nextChar) = "\n" THEN Append(lineStarts, nextChar + 1) ELSE lineStarts
    /\ UNCHANGED <<text, tokens>>

startsLineComment  == char(nextChar) = ";" /\ char(nextChar + 1) = ";"
startsBlockComment == char(nextChar) = "(" /\ char(nextChar + 1) = ";"

(* Fault: the newline that ends the comment begins no line.                               *)
SkipLineCommentFault ==
    /\ reading
    /\ startsLineComment
    /\ nextChar' = Min({i \in (nextChar + 2)..(stringLength - 1) : char(i) = "\n"}) + 1
    /\ UNCHANGED <<text, tokens, lineStarts>>

SkipLineComment ==
    /\ reading
    /\ startsLineComment
    /\ LET newlines == {i \in (nextChar + 2)..(stringLength - 1) : char(i) = "\n"}
       IN  IF newlines = {} THEN nextChar' = stringLength /\ UNCHANGED lineStarts
           ELSE nextChar' = Min(newlines) + 1 /\ lineStarts' = Append(lineStarts, Min(newlines) + 1)
    /\ UNCHANGED <<text, tokens>>

(* The comment from i on, with depth delimiters open: where it ends, the line starts in it  *)
(* (those of the newlines themselves) and whether it does end.                              *)
RECURSIVE blockComment(_, _, _)
blockComment(i, commentDepth, starts) ==
    CASE commentDepth = 0 -> [next |-> i, starts |-> starts, closed |-> TRUE]
      [] commentDepth > 0 /\ char(i) = ";" /\ char(i + 1) = ")" -> blockComment(i + 2, commentDepth - 1, starts)
      [] commentDepth > 0 /\ char(i) = "(" /\ char(i + 1) = ";" -> blockComment(i + 2, commentDepth + 1, starts)
      [] commentDepth > 0 /\ i = stringLength -> [next |-> i, starts |-> starts, closed |-> FALSE]
      [] OTHER -> blockComment(i + 1, commentDepth, IF char(i) = "\n" THEN Append(starts, i) ELSE starts)

SkipBlockComment ==
    /\ reading
    /\ startsBlockComment
    /\ LET comment == blockComment(nextChar + 2, 1, <<>>)
       IN  /\ nextChar' = comment.next
           /\ lineStarts' = lineStarts \o comment.starts
           /\ tokens' = IF comment.closed THEN tokens ELSE Append(tokens, Token("unterminatedComment", nextChar))
    /\ UNCHANGED text

atToken ==
    /\ reading
    /\ char(nextChar) \notin {" ", "\t", "\r", "\f", "\n"}
    /\ ~startsLineComment
    /\ ~startsBlockComment

fed == LET r == feed(nfaMachine, text, nextChar + 1) IN [r EXCEPT !.next = @ - 1]

Recognize ==
    /\ atToken
    /\ fed.state # unmatchedCharacterTerminal
    /\ tokens' = Append(tokens, Token(typeOf(fed.state), nextChar))
    /\ nextChar' = fed.next
    /\ UNCHANGED <<text, lineStarts>>

recovery(i) == Min({j \in i..(stringLength - 1) : isRecoveryPointChar(char(j))})

Recover ==
    /\ atToken
    /\ fed.state = unmatchedCharacterTerminal
    /\ nextChar < stringLength
    /\ tokens' = Append(tokens, Token("unrecognized", nextChar))
    /\ nextChar' = recovery(fed.next)
    /\ UNCHANGED <<text, lineStarts>>

Finish ==
    /\ atToken
    /\ fed.state = unmatchedCharacterTerminal
    /\ nextChar >= stringLength
    /\ tokens' = Append(tokens, Token("eof", nextChar))
    /\ lineStarts' = Append(lineStarts, nextChar + 1)
    /\ UNCHANGED <<text, nextChar>>

Next == SkipWhitespace \/ SkipLineComment \/ SkipBlockComment \/ Recognize \/ Recover \/ Finish

Spec == Init /\ [][Next]_vars

(* The last line start that is not after the offset, by bisection.                         *)
RECURSIVE bisect(_, _, _)
bisect(charOffset, minLineIndex, maxLineIndex) ==
    LET median == (minLineIndex + maxLineIndex + 1) \div 2
    IN  CASE maxLineIndex <= minLineIndex -> minLineIndex
          [] maxLineIndex > minLineIndex /\ charOffset < lineStarts[median + 1] ->
                 bisect(charOffset, minLineIndex, median - 1)
          [] maxLineIndex > minLineIndex /\ charOffset > lineStarts[median + 1] ->
                 bisect(charOffset, median, maxLineIndex)
          [] maxLineIndex > minLineIndex /\ charOffset = lineStarts[median + 1] -> median

calcLocusFromOffset(charOffset) ==
    LET line   == bisect(charOffset, 0, Len(lineStarts) - 1)
        before == {i \in 0..(charOffset - 1) : i >= lineStarts[line + 1]}
        tabs   == {i \in before : char(i) = "\t"}
    IN  [newlines |-> line, tabs |-> Cardinality(tabs), characters |-> Cardinality(before \ tabs)]

-----------------------------------------------------------------------------
(* What the tokens are: definitions that know nothing of the automaton                    *)

slice(i, j) == SubSeq(text, i + 1, j)          \* the characters i to j - 1
Between(c, d) == {e \in Char : ord(e) \in ord(c)..ord(d)}
Dec == Between("0", "9")
Hex == Dec \cup Between("a", "f") \cup Between("A", "F")

(* Digits, with single underscores between them.                                          *)
Digits(s, D) ==
    /\ s # <<>>
    /\ Range(s) \subseteq D \cup {"_"}
    /\ Head(s) # "_" /\ Last(s) # "_"
    /\ \A i \in 2..Len(s) : ~(s[i - 1] = "_" /\ s[i] = "_")
Unsigned(s) == IF s # <<>> /\ Head(s) \in {"+", "-"} THEN Tail(s) ELSE s
Prefixed(s) == Len(s) > 2 /\ s[1] = "0" /\ s[2] \in {"x", "X"}
Exponent(s, marks) == s # <<>> /\ Head(s) \in marks /\ Digits(Unsigned(Tail(s)), Dec)

(* An integer part with a point, an exponent or both.                                     *)
Fractional(s, D, marks) ==
    \E i \in 1..(Len(s) - 1) :
        /\ Digits(SubSeq(s, 1, i), D)
        /\ \/ Exponent(SubSeq(s, i + 1, Len(s)), marks)
           \/ /\ s[i + 1] = "."
              /\ \E j \in (i + 1)..Len(s) :
                     /\ j = i + 1 \/ Digits(SubSeq(s, i + 2, j), D)
                     /\ j = Len(s) \/ Exponent(SubSeq(s, j + 1, Len(s)), marks)

(* The characters of a string, or escapes: of two digits, of u{digits}, of anything else.   *)
RECURSIVE StringBody(_)
StringBody(s) ==
    \/ s = <<>>
    \/ s[1] \notin {"\"", "\n", "\\"} /\ StringBody(Tail(s))
    \/ /\ s[1] = "\\" /\ Len(s) > 1
       /\ \/ s[2] \notin Hex \cup {"u"} /\ StringBody(SubSeq(s, 3, Len(s)))
          \/ Len(s) > 2 /\ s[2] \in Hex /\ s[3] \in Hex /\ StringBody(SubSeq(s, 4, Len(s)))
          \/ /\ Len(s) > 4 /\ s[2] = "u" /\ s[3] = "{"
             /\ \E j \in 5..Len(s) : /\ s[j] = "}" /\ Range(SubSeq(s, 4, j - 1)) \subseteq Hex
                                     /\ StringBody(SubSeq(s, j + 1, Len(s)))

NameChar == Between("a", "z") \cup Between("A", "Z") \cup Dec
            \cup (Char \cap {"'", "_", "+", "*", "/", "~", "=", "<", ">", "!", "?", "@", "#", "$", "%", "&", "|", ":",
                             ".", "-", "^", "\\"})

TypesOf(s) ==
    LET u == Unsigned(s)
        h == SubSeq(u, 3, Len(u))
        is(type, holds) == IF holds THEN {type} ELSE {}
    IN  is("decimalInt", Digits(u, Dec))
        \cup is("decimalFloat", Fractional(u, Dec, {"e", "E"}))
        \cup is("hexInt", Prefixed(u) /\ Digits(h, Hex))
        \cup is("hexFloat", Prefixed(u) /\ Fractional(h, Hex, {"p", "P"}))
        \cup is("floatInf", u = <<"i", "n", "f">>)
        \cup is("floatNaN", \/ u = <<"n", "a", "n">>
                            \/ /\ Len(u) > 4 /\ SubSeq(u, 1, 4) = <<"n", "a", "n", ":">>
                               /\ LET v == SubSeq(u, 5, Len(u)) IN Prefixed(v) /\ Digits(SubSeq(v, 3, Len(v)), Hex))
        \cup is("string", Len(s) > 1 /\ s[1] = "\"" /\ Last(s) = "\"" /\ StringBody(SubSeq(s, 2, Len(s) - 1)))
        \cup is("name", Len(s) > 1 /\ s[1] = "$" /\ Range(Tail(s)) \subseteq NameChar)
        \cup {t.type : t \in {u2 \in Range(literalTokenTuples) : u2.literal = s}}

(* The tokens that begin at i: the character after one separates it, unless it is a         *)
(* separator itself.  A name that goes on to a last "=", itself a separator, needs no other. *)
Separated(type, i, j) ==
    \/ char(j) \in tokenSeparators
    \/ type \in {"leftParenthesis", "rightParenthesis", "equals"}
    \/ type = "name" /\ j > i + 2 /\ char(j - 1) = "=" /\ char(j) \notin NameChar
TokensAt(i) ==
    {t \in {<<type, j>> : type \in Range(TokenTypes), j \in (i + 1)..stringLength} :
        t[1] \in TypesOf(slice(i, t[2])) /\ Separated(t[1], i, t[2])}
Longest(ts) == CHOOSE t \in ts : \A u \in ts : u[2] <= t[2]

(* Where a comment or a blank that begins at i may end.                                     *)
RECURSIVE CommentBodyEnds(_)
CommentBodyEnds(i) ==
    CASE i >= stringLength -> {}
      [] i < stringLength /\ char(i) = ";" /\ char(i + 1) = ")" -> {i + 2}
      [] i < stringLength /\ char(i) = "(" /\ char(i + 1) = ";" -> UNION {CommentBodyEnds(j) : j \in CommentBodyEnds(i + 2)}
      [] OTHER -> CommentBodyEnds(i + 1)
BlankEnds(i) ==
    CASE char(i) \in {" ", "\t", "\r", "\f", "\n"} -> {i + 1}
      [] char(i) = ";" /\ char(i + 1) = ";" ->
             {j \in (i + 2)..stringLength : "\n" \notin Range(slice(i, j - 1)) /\ char(j - 1) = "\n"}
      [] char(i) = "(" /\ char(i + 1) = ";" -> CommentBodyEnds(i + 2)
      [] OTHER -> {}
RECURSIVE Blank(_, _)
Blank(i, j) == i = j \/ \E k \in BlankEnds(i) : k <= j /\ Blank(k, j)

finished == tokens # <<>> /\ Last(tokens).type = "eof"

(* Between them the automaton and the loop around it find exactly the tokens of the text:   *)
(* each is the longest that begins where it does, of its one type; only blanks and          *)
(* comments lie between two of them; an unrecognized token is reported exactly where none   *)
(* begins, and lexing resumes at a blank or a parenthesis; building the automaton meets no   *)
(* two tokens for the same characters.                                                     *)
TokensAsDefined ==
    finished =>
        /\ ~dfaFails(nfa, nfaMachine.next)
        /\ Blank(0, tokens[1].begin)
        /\ \A i \in 1..(Len(tokens) - 1) :
               LET begin == tokens[i].begin
                   next  == tokens[i + 1].begin
                   type  == tokens[i].type
               IN  CASE type = "unterminatedComment" ->
                            slice(begin, begin + 2) = <<"(", ";">> /\ BlankEnds(begin) = {} /\ next = stringLength
                     [] type = "unrecognized" ->
                            /\ TokensAt(begin) = {}
                            /\ \E j \in (begin + 1)..next : isRecoveryPointChar(char(j)) /\ Blank(j, next)
                     [] OTHER ->
                            /\ TokensAt(begin) # {}
                            /\ Longest(TokensAt(begin))[1] = type
                            /\ Blank(Longest(TokensAt(begin))[2], next)

(* Is the newline at j escaped in a string, or in what begins like one?                     *)
InString(j) ==
    \E i \in DOMAIN tokens : /\ tokens[i].begin < j /\ char(tokens[i].begin) = "\""
                             /\ StringBody(slice(tokens[i].begin + 1, j + 1))

(* A token is reported on the line it is on, counted from 0, with as many tabs and other     *)
(* characters before it as the line has, where a newline in a string begins no line and      *)
(* after one in a block comment the newline itself is counted too; the line after the token  *)
(* always has a start; and neither array outgrows the memory that was allocated for it       *)
(* before the first token was known.                                                        *)
LociExact ==
    finished =>
        /\ Len(tokens) <= stringLength + 1 /\ Len(lineStarts) <= stringLength + 2
        /\ \A i \in DOMAIN tokens :
               LET begin    == tokens[i].begin
                   newlines == {j \in 0..(begin - 1) : char(j) = "\n" /\ ~InString(j)}
                   start    == IF newlines = {} THEN 0 ELSE Max(newlines) + 1
                   line     == {j \in start..(begin - 1) : char(j) # "\t"}
                   locus    == calcLocusFromOffset(begin)
                   inBlock  == lineStarts[locus.newlines + 1] # start
               IN  /\ locus.newlines = Cardinality(newlines)
                   /\ locus.newlines + 1 < Len(lineStarts)
                   /\ locus.tabs = begin - start - Cardinality(line)
                   /\ locus.characters = Cardinality(line) + (IF inBlock THEN 1 ELSE 0)
                   /\ inBlock => \E j \in 0..start : char(j) = "(" /\ char(j + 1) = ";"

-----------------------------------------------------------------------------
(* What the literals of a lexed text stand for: numbers (ParseNumbers.cpp), names and      *)
(* strings (Parse.cpp).  Each parser reads the text again from the first character of its   *)
(* token and finds the end of the literal for itself.  The decimal digits of a float are    *)
(* turned into a number by a library (dtoa.c), outside the model.                           *)

CONSTANTS IntWidths,              \* the widths of the integer types a literal is parsed for
          numSignificandBits,     \* of the float type
          UINT32_MAX              \* the bound on the code point of an escape

ASSUME LiteralsAssumption == /\ IntWidths \subseteq 6..20
                             /\ numSignificandBits \in 4..20
                             /\ UINT32_MAX >= 2^21

lowerHexits == <<"0", "1", "2", "3", "4", "5", "6", "7", "8", "9", "a", "b", "c", "d", "e", "f">>
upperHexits == <<"0", "1", "2", "3", "4", "5", "6", "7", "8", "9", "A", "B", "C", "D", "E", "F">>

(* The value of a hexit, or -1.                                                            *)
tryParseHexit(c) ==
    LET at == {i \in 1..16 : c \in {lowerHexits[i], upperHexits[i]}} IN IF at = {} THEN -1 ELSE Min(at) - 1

isDigit(c, base) == tryParseHexit(c) \in 0..(base - 1)
parseSign(i) == [isNegative |-> char(i) = "-", next |-> IF char(i) \in {"+", "-"} THEN i + 1 ELSE i]

(* The first position from i on with none of the characters.                               *)
RECURSIVE skipOver(_, _)
skipOver(i, set) == IF char(i) \in set THEN skipOver(i + 1, set) ELSE i

(* Fault: the bound does not take the next digit into account.                             *)
tooLargeFault(result, digit, base, maxValue) == result > maxValue \div base

tooLarge(result, digit, base, maxValue) == result > (maxValue - digit) \div base

(* A number from i on; rest is what is skipped once it is too large.                        *)
RECURSIVE parseUnsigned(_, _, _, _, _)
parseUnsigned(i, base, result, maxValue, rest) ==
    LET digit == tryParseHexit(char(i))
    IN  CASE char(i) = "_" -> parseUnsigned(i + 1, base, result, maxValue, rest)
          [] char(i) # "_" /\ ~isDigit(char(i), base) -> [value |-> result, next |-> i, error |-> FALSE]
          [] isDigit(char(i), base) ->
                 IF tooLarge(result, digit, base, maxValue)
                 THEN [value |-> maxValue, next |-> skipOver(i + 1, rest), error |-> TRUE]
                 ELSE parseUnsigned(i + 1, base, result * base + digit, maxValue, rest)

parseHexUnsignedInt(i, maxValue) == parseUnsigned(i + 2, 16, 0, maxValue, {c \in Char : isDigit(c, 16)})
parseDecimalUnsignedInt(i, maxValue) == parseUnsigned(i, 10, 0, maxValue, {c \in Char : isDigit(c, 10)} \cup {"_"})

tryParseInt(token, bits) ==
    LET sgn == parseSign(token.begin)
        max == IF sgn.isNegative THEN 2^(bits - 1) ELSE 2^bits - 1
        p   == IF token.type = "decimalInt" THEN parseDecimalUnsignedInt(sgn.next, max)
               ELSE parseHexUnsignedInt(sgn.next, max)
    IN  [p EXCEPT !.value = (IF sgn.isNegative THEN -@ ELSE @) % 2^bits]

(* Sign, significand; the exponent is the largest one.                                     *)
parseNaN(begin) ==
    LET sgn == parseSign(begin)
        p   == IF char(sgn.next + 3) = ":" THEN parseHexUnsignedInt(sgn.next + 4, 2^numSignificandBits - 1)
               ELSE [value |-> 2^(numSignificandBits - 1), next |-> sgn.next + 3, error |-> FALSE]
    IN  [isNegative |-> sgn.isNegative, significand |-> p.value, next |-> p.next, error |-> p.error]
parseInfinity(begin) == [isNegative |-> parseSign(begin).isNegative, significand |-> 0, next |-> begin, error |-> FALSE]

(* The characters handed to the library: those of a number, without underscores.            *)
numericChars == Range(lowerHexits) \cup Range(upperHexits) \cup {"+", "-", "x", "X", ".", "p", "P", "_"}
parseFloat(begin) ==
    LET next == skipOver(begin, numericChars)
    IN  [digits |-> SelectSeq(SubSeq(text, begin + 1, next), LAMBDA c : c # "_"), next |-> next]

nameChars == addRange("a", "z") \cup addRange("A", "Z") \cup addRange("0", "9")
             \cup {"_", "'", "+", "-", "*", "/", "\\", "^", "~", "=", "<", ">", "!", "?", "@", "#", "$", "%", "&", "|",
                   ":", "."}
tryParseName(begin) == skipOver(begin + 1, nameChars)

(* The code point from i on.                                                              *)
RECURSIVE parseCodepoint(_, _)
parseCodepoint(i, codepoint) ==
    LET hexit == tryParseHexit(char(i))
    IN  CASE hexit < 0 -> [value |-> codepoint, next |-> i]
          [] hexit >= 0 /\ tooLarge(codepoint, hexit, 16, UINT32_MAX) ->
                 [value |-> UINT32_MAX, next |-> skipOver(i + 1, {c \in Char : isDigit(c, 16)})]
          [] hexit >= 0 /\ ~tooLarge(codepoint, hexit, 16, UINT32_MAX) ->
                 parseCodepoint(i + 1, codepoint * 16 + hexit)
invalidCodepoint(codepoint) == codepoint \in 55296..57343 \/ codepoint >= 1114112

simpleEscapes == ("t" :> "\t") @@ ("n" :> "\n") @@ ("r" :> "\r") @@ ("\"" :> "\"") @@ ("'" :> "'") @@ ("\\" :> "\\")
Unit(value, next, error) == [value |-> value, next |-> next, error |-> error]

(* The escape whose backslash is before i.  A byte or a code point is a pair with its kind. *)
parseCharEscapeCode(i) ==
    LET first  == tryParseHexit(char(i))
        second == tryParseHexit(char(i + 1))
        point  == parseCodepoint(i + 2, 0)
    IN  CASE first >= 0 -> Unit(<<"byte", first * 16 + second>>, i + 2, FALSE)
          [] char(i) \in DOMAIN simpleEscapes -> Unit(simpleEscapes[char(i)], i + 1, FALSE)
          [] char(i) = "u" -> Unit(<<"point", IF invalidCodepoint(point.value) THEN 128578 ELSE point.value>>,
                                   point.next + 1, invalidCodepoint(point.value))
          [] OTHER -> Unit("\\", i + 1, TRUE)

RECURSIVE parseString(_, _, _)
parseString(i, outString, error) ==
    LET escape == parseCharEscapeCode(i + 1)
    IN  CASE char(i) = "\\" -> parseString(escape.next, Append(outString, escape.value), error \/ escape.error)
          [] char(i) = "\"" -> Unit(outString, i, error)
          [] char(i) \notin {"\\", "\""} -> parseString(i + 1, Append(outString, char(i)), error)
tryParseString(begin) == parseString(begin + 1, <<>>, FALSE)

-----------------------------------------------------------------------------
(* The value of digits in a base, underscores aside.                                       *)
ValueOf(s, base) == FoldLeft(LAMBDA v, c : IF c = "_" THEN v ELSE v * base + tryParseHexit(c), 0, s)

IntValue(s) == IF Prefixed(s) THEN ValueOf(SubSeq(s, 3, Len(s)), 16) ELSE ValueOf(s, 10)

(* The units of the body of a string: a character, or an escape with its characters.         *)
RECURSIVE Units(_)
Units(s) ==
    LET length == CASE s[1] # "\\" -> 1
                    [] s[1] = "\\" /\ s[2] \in Hex -> 3
                    [] s[1] = "\\" /\ s[2] = "u" -> Min({j \in DOMAIN s : s[j] = "}"})
                    [] OTHER -> 2
    IN  IF s = <<>> THEN <<>> ELSE <<SubSeq(s, 1, length)>> \o Units(SubSeq(s, length + 1, Len(s)))
Meaning(u) ==
    CASE Len(u) = 1 -> u[1]
      [] Len(u) = 3 -> <<"byte", ValueOf(Tail(u), 16)>>
      [] Len(u) > 4 -> <<"point", ValueOf(SubSeq(u, 4, Len(u) - 1), 16)>>
      [] Len(u) = 2 -> CASE u[2] = "t" -> "\t" [] u[2] = "n" -> "\n" [] u[2] = "r" -> "\r" [] OTHER -> u[2]
Invalid(u) == \/ Len(u) = 2 /\ u[2] \notin {"t", "n", "r", "\"", "'", "\\"}
              \/ Len(u) > 4 /\ (Meaning(u)[2] \in 55296..57343 \/ Meaning(u)[2] >= 1114112)

(* The parser of every literal stops exactly where the lexer saw its end; an integer is the  *)
(* one its digits say, modulo the width, and refused exactly if no signed or unsigned        *)
(* integer of the width has that value; likewise the significand of a NaN; a float goes to    *)
(* the library with all of its digits; a string is the sequence of its characters and         *)
(* escapes, refused exactly if one of them is not an escape or not a code point.              *)
LiteralsExact ==
    finished =>
        \A i \in 1..(Len(tokens) - 1) :
            LET token == tokens[i]
                end   == Longest(TokensAt(token.begin))[2]
                s     == slice(token.begin, end)
                u     == Unsigned(s)
            IN  CASE token.type \in {"decimalInt", "hexInt"} ->
                         /\ parseFloat(token.begin) = [digits |-> SelectSeq(s, LAMBDA c : c # "_"), next |-> end]
                         /\ \A bits \in IntWidths :
                                LET p == tryParseInt(token, bits)
                                    v == IF Head(s) = "-" THEN -IntValue(u) ELSE IntValue(u)
                                IN  /\ p.error = (v \notin (-(2^(bits - 1)))..(2^bits - 1))
                                    /\ ~p.error => p.value = v % 2^bits /\ p.next = end
                                    /\ p.next <= end
                  [] token.type \in {"decimalFloat", "hexFloat"} ->
                         parseFloat(token.begin) = [digits |-> SelectSeq(s, LAMBDA c : c # "_"), next |-> end]
                  [] token.type = "floatNaN" ->
                         LET p == parseNaN(token.begin)
                             v == IntValue(SubSeq(u, 5, Len(u)))
                         IN  /\ p.isNegative = (Head(s) = "-")
                             /\ p.error = (Len(u) > 3 /\ v >= 2^numSignificandBits)
                             /\ Len(u) > 3 /\ ~p.error => p.significand = v /\ p.next = end
                             /\ Len(u) = 3 => p.significand > 0 /\ p.next = end
                  [] token.type = "floatInf" -> parseInfinity(token.begin).isNegative = (Head(s) = "-")
                  [] token.type = "name" -> tryParseName(token.begin) = end
                  [] token.type = "string" ->
                         LET p     == tryParseString(token.begin)
                             units == Units(SubSeq(s, 2, Len(s) - 1))
                         IN  /\ p.next = end - 1 /\ Len(p.value) = Len(units)
                             /\ p.error = (\E j \in DOMAIN units : Invalid(units[j]))
                             /\ \A j \in DOMAIN units : Invalid(units[j]) \/ p.value[j] = Meaning(units[j])
                  [] OTHER -> TRUE
=============================================================================
