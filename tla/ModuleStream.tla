---------------------------- MODULE ModuleStream ----------------------------
(* A module on its way through the binary format: it is written, the bytes may be damaged      *)
(* before they are read, and the reader takes them one section at a time.  What it accepts is   *)
(* written again and read again, as get_instantiated_module does with a contract.  And its way   *)
(* through the text format: it is printed, tokens may be damaged, and the text is parsed.        *)
EXTENDS TextFormat

CONSTANTS
    Modules,       \* modules to write
    Fragile,       \* those whose stream may be damaged
    DamageBytes,   \* bytes that may appear in a damaged stream
    UserSection,   \* the bytes of a user section
    StreamBytes, StreamLength,   \* streams that are only read as numbers
    Texts,         \* <<tokens, module>>: texts that are not printed, and the modules they describe
    DamageTokens   \* tokens that may appear in a damaged text

VARIABLES
    source,        \* the module that is written
    stream,        \* the pieces written; once the reader has begun, the bytes left; or a text
    module,        \* what has been read
    last,          \* lastKnownSectionType
    damaged,
    phase

vars == <<source, stream, module, last, damaged, phase>>

Init ==
    /\ module = emptyModule /\ last = 0 /\ damaged = FALSE
    /\ \/ source \in Modules /\ stream = <<>> /\ phase = "start"
       \/ source = emptyModule /\ stream = <<>> /\ phase = "number"
       \/ phase = "text" /\ \E text \in Texts : stream = text[1] /\ source = text[2]

Write ==
    /\ phase = "start"
    /\ stream' \in writeModule(source)
    /\ phase' = "written"
    /\ UNCHANGED <<source, module, last, damaged>>

PrintText ==
    /\ phase = "start"
    /\ stream' = printModule(source)
    /\ phase' = "text"
    /\ UNCHANGED <<source, module, last, damaged>>

-----------------------------------------------------------------------------
(* What may happen to the stream before it is read                                         *)

Damage(streams) ==
    /\ damaged' = TRUE /\ stream' \in streams
    /\ UNCHANGED <<source, module, last, phase>>
Whole == phase = "written" /\ source \in Fragile /\ ~damaged

ChangeByte == Whole /\ Damage(UNION {{[stream EXCEPT ![p] = [@ EXCEPT ![k] = b]] : k \in 1..Len(stream[p]), b \in DamageBytes} :
                                     p \in 1..Len(stream)})
LoseByte   == Whole /\ Damage(UNION {{[stream EXCEPT ![p] = RemoveAt(@, k)] : k \in 1..Len(stream[p])} : p \in 1..Len(stream)})
DropSection    == Whole /\ Damage({RemoveAt(stream, p) : p \in 2..Len(stream)})
RepeatSection  == Whole /\ Damage({InsertAt(stream, p, stream[p]) : p \in 2..Len(stream)})
SwapSections   == Whole /\ Damage({[stream EXCEPT ![p] = stream[p + 1], ![p + 1] = stream[p]] : p \in 2..Len(stream) - 1})
AddUserSection == Whole /\ Damage({InsertAt(stream, p, UserSection) : p \in 2..Len(stream) + 1})

(* To the tokens of a text; its end is left alone.                                             *)
WholeText   == phase = "text" /\ (source \in Fragile \/ source \notin Modules) /\ ~damaged
Tokens      == 1..Len(stream) - 1
ChangeToken == WholeText /\ Damage({[stream EXCEPT ![k] = t] : k \in Tokens, t \in DamageTokens})
LoseToken   == WholeText /\ Damage({RemoveAt(stream, k) : k \in Tokens})
RepeatToken == WholeText /\ Damage({InsertAt(stream, k, stream[k]) : k \in Tokens})

-----------------------------------------------------------------------------
(* serializeModule of an input stream                                                      *)

refuse == phase' = "refused" /\ stream' = <<>> /\ UNCHANGED <<module, last>>

BeginRead ==
    /\ phase = "written"
    /\ LET results == readHeader(FlattenSeq(stream)) IN
       IF results = {} THEN refuse
       ELSE /\ phase' = "reading" /\ UNCHANGED <<module, last>>
            /\ stream' \in {r.s : r \in results}
    /\ UNCHANGED <<source, damaged>>

ReadSection ==
    /\ phase = "reading" /\ stream # <<>>
    /\ LET results == nextSection(module, last, stream) IN
       IF results = {} THEN refuse
       ELSE /\ \E r \in results : module' = r.v /\ stream' = r.s
            /\ last' = IF Head(stream) = userSection THEN last ELSE Head(stream)
            /\ UNCHANGED phase
    /\ UNCHANGED <<source, damaged>>

EndRead ==
    /\ phase = "reading" /\ stream = <<>>
    /\ IF validateDefinitions(module) THEN phase' = "accepted" /\ UNCHANGED <<stream, module, last>> ELSE refuse
    /\ UNCHANGED <<source, damaged>>

ParseText ==
    /\ phase = "text"
    /\ LET results == parseModule(stream) IN
       IF results = {} THEN phase' = "rejected" /\ UNCHANGED module ELSE phase' = "parsed" /\ module' \in results
    /\ stream' = <<>>
    /\ UNCHANGED <<source, last, damaged>>

(* Bytes that are read as one number.                                                      *)
AppendByte ==
    /\ phase = "number" /\ Len(stream) < StreamLength
    /\ \E b \in StreamBytes : stream' = Append(stream, b)
    /\ UNCHANGED <<source, module, last, damaged, phase>>

Next == \/ Write \/ ChangeByte \/ LoseByte \/ DropSection \/ RepeatSection \/ SwapSections \/ AddUserSection
        \/ BeginRead \/ ReadSection \/ EndRead \/ AppendByte
        \/ PrintText \/ ChangeToken \/ LoseToken \/ RepeatToken \/ ParseText
Spec == Init /\ [][Next]_vars

-----------------------------------------------------------------------------
(* m written and read.                                                                      *)
ReadAgain(m) == UNION {readModule(FlattenSeq(p)) : p \in writeModule(m)}

(* What is written of a module without user sections is accepted by the reader and is the       *)
(* same module: every number, name, type, operator and segment survives the format.  A stream   *)
(* the reader accepts, damaged or not, gives a module that can be written and read again without *)
(* change once its user sections are cleared, as get_instantiated_module does: no section, index, *)
(* name or operator the first read lets through is refused by the second or read differently.     *)
(* The exception is a module whose code section is missing, which the first read accepts with     *)
(* empty bodies.                                                                             *)
WrittenReadsBack ==
    /\ ~damaged => /\ phase # "refused"
                   /\ phase = "accepted" => module = source
    /\ phase = "accepted" =>
          LET m == [module EXCEPT !.userSections = <<>>]
          IN  /\ ReadAgain(m) \subseteq {m}
              /\ ForAll(LAMBDA d : d.code # <<>>, m.functions.defs) => ReadAgain(m) = {m}

(* The names print gives the functions, and the locals of each function, all differ.  NameScope    *)
(* does not ensure it: a name made up by appending a count may be another object's own name.     *)
Distinct(names) == IsInjective(names.functions) /\ \A k \in DOMAIN names.locals : IsInjective(names.locals[k])

(* No constant of the module is an infinity, which print writes as "infinity": the lexer has a     *)
(* token for inf and none for that.                                                          *)
Infinite(type, n) == asString(type, n) = T("unrecognized")
NoInfinity(m) ==
    /\ \A k \in 1..Len(m.functions.defs) : \A j \in 1..Len(m.functions.defs[k].code) :
          LET i == m.functions.defs[k].code[j] IN i.op = "const" /\ i.type \in FloatTypes => ~Infinite(i.type, i.n)
    /\ \A k \in 1..Len(m.globals.defs) :
          LET i == m.globals.defs[k].initializer
          IN  (i.type = "f32_const" => ~Infinite("f32", i.n)) /\ (i.type = "f64_const" => ~Infinite("f64", i.n))

(* m with every function's type taken for the last that is equal to it: a declaration is printed   *)
(* with its parameters and result, and the parser's map from types to indices has the last.         *)
LastTypes(m) ==
    LET lastEqual(t) == SelectLastInSeq(m.types, LAMBDA u : u = m.types[t + 1]) - 1
        retyped(fs) == [k \in 1..Len(fs) |-> [fs[k] EXCEPT !.type = lastEqual(@)]]
    IN  [m EXCEPT !.functions = [imports |-> retyped(@.imports), defs |-> retyped(@.defs)]]
(* What a text keeps of m: it has no start and no user sections.                               *)
AsPrinted(m) == LastTypes([m EXCEPT !.userSections = <<>>, !.start = NoStart])

(* The modules ms read from the printed text are m as a text keeps it, and print as that text.     *)
SamePrinted(m, text, ms) ==
    /\ {[n EXCEPT !.userSections = <<>>] : n \in ms} = {AsPrinted(m)}
    /\ \A n \in ms : printModule(n) = text
PrintsBack(m, text) == SamePrinted(m, text, parseModule(text))

(* The text printModule prints of a module is accepted by parseModule and describes the same     *)
(* module but for the start function, which is not printed, and for equal types, of which a      *)
(* function gets the last; a text written in other forms (expressions in parentheses, labels     *)
(* that hide outer ones, imports, exports, elements and data inside declarations, every kind of  *)
(* float literal) gives the module it describes. Whatever text the parser accepts gives a module *)
(* that the binary format writes and reads without change, unless the reader's limits refuse it, *)
(* and whose printed text parses to the same module and prints as the same text. Of a module     *)
(* with an infinite constant, or for whose functions or locals the printer finds the same name   *)
(* twice, the printed text is not claimed to parse: such a text the parser may refuse.           *)
TextReadsBack ==
    /\ ~damaged => /\ phase = "rejected" => source \in Modules /\ ~NoInfinity(source)
                   /\ phase = "parsed" => [module EXCEPT !.userSections = <<>>] =
                                              IF source \in Modules THEN AsPrinted(source) ELSE source
    /\ phase = "parsed" =>
           /\ LET m == [module EXCEPT !.userSections = <<>>] IN ReadAgain(m) \subseteq {m}
           /\ Distinct(printNames(module)) /\ NoInfinity(module) => PrintsBack(module, printModule(module))

(* The number a run of bytes denotes: groups of seven bits, the first the lowest, the highest    *)
(* bit of the last group the sign.                                                           *)
Denotes(bytes, isSigned) ==
    LET n == Len(bytes)
        sum[k \in 0..n] == IF k = 0 THEN 0 ELSE sum[k - 1] + (bytes[k] % 128) * 2^(7 * (k - 1))
    IN  IF isSigned /\ (bytes[n] \div 64) % 2 = 1 THEN sum[n] - 2^(7 * n) ELSE sum[n]

(* serializeVarInt accepts a run of bytes exactly when it ends within the bytes its width         *)
(* allows and denotes a number in range, minimal or not; it reads that number and leaves the       *)
(* bytes after it; and the bytes serializeVarInt writes of the number are never longer.         *)
NumbersExact ==
    phase = "number" =>
        \A k \in {U1, U7, U32, I7, I32, I64} :
            LET ends == {n \in 1..Len(stream) : stream[n] < 128}
                n    == IF ends = {} THEN 0 ELSE CHOOSE n \in ends : \A o \in ends : n <= o
                run  == SubSeq(stream, 1, n)
                valid == n > 0 /\ n <= maxBytes(k) /\ Denotes(run, signed(k)) \in k.min..k.max
            IN  /\ readVar(k, stream) =
                       IF valid THEN Read(Denotes(run, signed(k)), SubSeq(stream, n + 1, Len(stream))) ELSE {}
                /\ valid => \A w \in writeVar(k, Denotes(run, signed(k))) :
                                Len(w) <= n /\ Denotes(w, signed(k)) = Denotes(run, signed(k))
=============================================================================
