---------------------------- MODULE ConfigReader ----------------------------
(***************************************************************************)
(* Writing a configuration and reading one: config_write (lib/libconfig.c),*)
(* the scanner with its stack of included files (lib/scanner.c,            *)
(* lib/scanctx.c), the parser and its actions (lib/grammar.c) and          *)
(* __config_read, which drives them.                                       *)
(*                                                                         *)
(* A text is a sequence of tokens.  The LALR automaton of the parser is    *)
(* its state (what it expects) and the stack of aggregates that are open;  *)
(* the actions of the grammar keep their own idea of where they are in     *)
(* ctx->parent and ctx->setting.  A text is either what config_write       *)
(* wrote or any text at all, whose next token is chosen when it is needed. *)
(***************************************************************************)
EXTENDS Settings, SequencesExt

CONSTANTS MAX_INCLUDE_DEPTH,
          MaxTokens,   \* bound: tokens of a text that was not written
          MaxDepth,    \* aggregates for which the parser's stack has room
          PrintExact,  \* halves up to this many have no digits that FLOAT_PRECISION cuts off
          Written,     \* settings the written configurations are built with
          TokensTried, \* bound: tokens of the texts that were not written
          Missing      \* a file that cannot be opened

(***************************************************************************)
(* Tokens: what the scanner recognises, with the value it hands over.      *)
(***************************************************************************)
Token(t) == [t |-> t, v |-> 0, name |-> NoName]
NoToken == Token("none")
NoString == -1
Joined(s, v) ==    \* strbuf_append: a string is its length, as far as StringMax
    IF s = NoString THEN v ELSE IF s + v > StringMax THEN StringMax ELSE s + v
AnyText == <<Token("any")>>
NameToken(name) == [Token("NAME") EXCEPT !.name = name]
ScalarTokens == {"BOOLEAN", "INTEGER", "HEX", "INTEGER64", "HEX64", "FLOAT", "STRING"}
KindOf(t) == CASE t = "BOOLEAN" -> "BOOL"
               [] t \in {"INTEGER", "HEX"} -> "INT"
               [] t \in {"INTEGER64", "HEX64"} -> "INT64"
               [] OTHER -> t
FormatOf(t) == IF t \in {"HEX", "HEX64"} THEN "HEX" ELSE "DEFAULT"

\* What the rules of the scanner recognise.
Recognised == {"NAME", "EQUALS", "COMMA", "SEMICOLON", "GARBAGE", "ARRAY_START", "ARRAY_END",
               "LIST_START", "LIST_END", "GROUP_START", "GROUP_END"} \cup ScalarTokens
TokensOf(t) == [t : {t}, v : IF t \in ScalarTokens THEN ValuesOf(KindOf(t)) ELSE {0},
                name : IF t = "NAME" THEN Names ELSE {NoName}]
Tokens == UNION {TokensOf(t) : t \in Recognised}

ASSUME ReaderAssumption ==
    /\ MAX_INCLUDE_DEPTH \in Nat /\ MaxTokens \in Nat /\ MaxDepth \in Nat
    /\ Written \subseteq Types /\ PrintExact \in Nat /\ TokensTried \subseteq Tokens /\ Missing \in Nat

-----------------------------------------------------------------------------
VARIABLES
    config, default_format,       \* the configuration
    phase,               \* "build", "ready", "parse" or "done"
    text,                \* what is still to be scanned; AnyText if it is not fixed
    budget,              \* tokens that may still be made up
    wrote,               \* the image of the configuration that was written, or None
    state, frames,       \* the parser: what it expects, the open aggregates
    look,                \* its lookahead token, or NoToken
    parent, setting,     \* ctx->parent, ctx->setting
    string,              \* ctx->string: the length of the string so far, or NoString
    files, includes,     \* scan context: the file of each level, the saved buffers
    buffer, buffers,     \* the current buffer, all buffers that are allocated
    open,                \* the levels whose stream is open; 0 is the file itself
    filenames,           \* names config->filenames owns
    error                \* error_type, error_text, error_file

readerVars == <<state, frames, look, parent, setting, string>>
scannerVars == <<text, budget, files, includes, buffer, buffers, open, filenames>>
allVars == <<config, default_format, phase, wrote, error, readerVars, scannerVars>>

None == <<>>
NoError == [type |-> "NONE", text |-> "", file |-> Null]

-----------------------------------------------------------------------------
(***************************************************************************)
(* config_write: the tokens of a value; a setting without a type is        *)
(* written as ???, which no rule of the scanner recognises.  Of a truth    *)
(* value a word is left, of a double the digits that are printed: as if it *)
(* had a mantissa of PrintExact.                                           *)
(***************************************************************************)
Printed(s) == CASE s.type = "BOOL" -> IF s.val = 0 THEN 0 ELSE 1
                [] s.type = "FLOAT" -> Rounded(s.val, PrintExact)
                [] OTHER -> s.val
\* Mutant of LongToken: a hexadecimal number is written without its L.
LongTokenShort(f) == IF f = "HEX" THEN "HEX" ELSE "INTEGER64"
LongToken(f) == IF f = "HEX" THEN "HEX64" ELSE "INTEGER64"
TokenOf(type, f) ==
    CASE type = "BOOL" -> "BOOLEAN"
      [] type = "INT" -> IF f = "HEX" THEN "HEX" ELSE "INTEGER"
      [] type = "INT64" -> LongToken(f)
      [] type = "NONE" -> "GARBAGE"
      [] OTHER -> type
ScalarToken(s, f) == [Token(TokenOf(s.type, f)) EXCEPT !.v = Printed(s)]

Between(seqs, sep) ==
    FlattenSeq([i \in DOMAIN seqs |-> IF i = Len(seqs) THEN seqs[i] ELSE seqs[i] \o sep])

\* __config_write_value and __config_write_setting, given the tokens of the values below.
WriteValue(h, def, n, below) ==
    LET s == h[n]
        Elements == [i \in DOMAIN s.kids |-> below[s.kids[i]]]
        Members == [i \in DOMAIN s.kids |-> <<NameToken(h[s.kids[i]].name), Token("EQUALS")>>
                                            \o below[s.kids[i]] \o <<Token("SEMICOLON")>>]
    IN  CASE s.type = "LIST" -> <<Token("LIST_START")>> \o
                 Between(Elements, <<Token("COMMA")>>) \o <<Token("LIST_END")>>
          [] s.type = "ARRAY" -> <<Token("ARRAY_START")>> \o
                 Between(Elements, <<Token("COMMA")>>) \o <<Token("ARRAY_END")>>
          [] s.type = "GROUP" ->
                 IF n = Root THEN FlattenSeq(Members)
                 ELSE <<Token("GROUP_START")>> \o FlattenSeq(Members) \o <<Token("GROUP_END")>>
          [] OTHER -> <<ScalarToken(s, GetFormat(s, def))>>

\* Value[k]: the tokens of each value, as far as k levels below it.
WriteSettings(h, def) ==
    LET Value[k \in 0..MaxSettings] ==
          IF k = 0 THEN [n \in Settings |-> <<>>]
          ELSE [n \in Settings |-> WriteValue(h, def, n, Value[k - 1])]
    IN  Value[MaxSettings][Root]

\* A configuration without the addresses of its settings: what is found at which path.
Image(h, def) ==
    {[path |-> ConstructPath(h, n), index |-> SettingIndex(h, n),
      type |-> h[n].type, val |-> h[n].val,
      fmt |-> IF CanSetFormat(h[n]) THEN GetFormat(h[n], def) ELSE "DEFAULT"] : n \in Live(h)}

\* What the syntax can express and the parser's stack can hold: every setting has a type,
\* arrays are of one scalar type, and no nesting is too deep.
Expressible(h) ==
    /\ \A n \in Live(h) : h[n].type # "NONE"
    /\ \A n \in Live(h) : h[n].type \in Aggregates => Len(Ancestors(h, n)) <= MaxDepth
    /\ ArraysAreHomogeneous(h)

-----------------------------------------------------------------------------
(***************************************************************************)
(* A program builds a configuration with the C interface, and writes it.   *)
(***************************************************************************)
Build ==
    /\ phase = "build" /\ HasRoom(config)
    /\ \E p \in Live(config), name \in Names, type \in Written :
         /\ CanAdd(config, p, name)
         /\ LET h == Add(config, p, name, type)  n == Address(config) IN
            IF type \in Scalars
            THEN \E v \in ValuesOf(type) : \E s \in SetResults(h[n], type, v) :
                 \E f \in IF CanSetFormat(s) THEN Formats ELSE {"DEFAULT"} :
                   config' = [h EXCEPT ![n] = [s EXCEPT !.fmt = f]]
            ELSE config' = h
    /\ UNCHANGED <<default_format, phase, wrote, error, readerVars, scannerVars>>

WriteFile ==
    /\ phase = "build"
    /\ \E def \in Formats :
         /\ text' = WriteSettings(config, def)
         /\ wrote' = [image |-> Image(config, def), expressible |-> Expressible(config)]
         /\ default_format' = def
    /\ phase' = "ready" /\ error' = [error EXCEPT !.type = "NONE"]
    /\ UNCHANGED <<config, readerVars, budget, files, includes, buffer, buffers, open,
                   filenames>>

\* Or the program is given a file that somebody wrote by hand, at any time.
OtherFile ==
    /\ phase \in {"build", "done"}
    /\ phase' = "ready" /\ text' = AnyText /\ budget' = MaxTokens /\ wrote' = None
    /\ UNCHANGED <<config, default_format, error, readerVars, files, includes, buffer, buffers,
                   open, filenames>>

\* config_read_file and config_write_file when the file cannot be opened.
CannotOpen ==
    /\ phase \in {"build", "ready"}
    /\ error' = [error EXCEPT !.type = "FILE_IO", !.text = "file I/O error"]
    /\ UNCHANGED <<config, default_format, phase, wrote, readerVars, scannerVars>>

-----------------------------------------------------------------------------
(***************************************************************************)
(* __config_read: the configuration is destroyed with the names it owned,  *)
(* and initialised; the scanner and the parser are set up.  The text comes *)
(* from a file, or from a string, which is Null: then there is no name, and*)
(* no stream.                                                              *)
(***************************************************************************)
StartRead(file) ==
    /\ phase = "ready"
    /\ phase' = "parse"
    /\ config' = EmptyHeap /\ default_format' = "DEFAULT" /\ error' = NoError
    /\ state' = "setting" /\ frames' = <<"GROUP">> /\ look' = NoToken
    /\ parent' = Root /\ setting' = Root /\ string' = NoString
    /\ files' = <<file>> /\ filenames' = {file} \ {Null} /\ includes' = <<>>
    /\ buffer' = 1 /\ buffers' = {1} /\ open' = IF file = Null THEN {} ELSE {0}
    /\ UNCHANGED <<text, budget, wrote>>

\* The end: the include stack is unwound if the parser failed, then yylex_destroy,
\* scanctx_cleanup and fclose.
\* Mutant of Unwound: the stack is dropped as it is.
UnwoundNever(saved) == buffers
Unwound(saved) == buffers \ {saved[i] : i \in DOMAIN saved}
Depth == Len(includes)
Levels == 1..Depth
EndRead(err) ==
    /\ phase' = "done" /\ error' = err
    /\ LET failed == err.type = "PARSE" IN
       /\ buffers' = (IF failed THEN Unwound(includes) ELSE buffers) \ {buffer}
       /\ open' = open \ (Levels \cup {0})
    /\ includes' = <<>> /\ files' = <<Null>> /\ buffer' = Null
    /\ UNCHANGED <<config, default_format, wrote, readerVars, text, budget, filenames>>

CurrentFile == files[Len(files)]
FirstMessage(message) == IF error.text = "" THEN message ELSE error.text   \* yyerror
\* The parser gives up; the file of the error is the one being scanned.
Abort(message) ==
    EndRead([type |-> "PARSE", file |-> CurrentFile, text |-> FirstMessage(message)])

-----------------------------------------------------------------------------
(***************************************************************************)
(* The scanner, when the parser needs a token.                             *)
(***************************************************************************)
Scanning == phase = "parse" /\ look = NoToken
InVector == config[parent].type \in {"ARRAY", "LIST"}     \* IN_ARRAY() || IN_LIST()
\* Bound: a token for which the parser adds a setting needs an address.
Adds(token) ==
    IF InVector THEN token.t \in ScalarTokens \cup {"LIST_START", "ARRAY_START", "GROUP_START"}
                ELSE token.t = "NAME"
RoomFor(token) == Adds(token) => HasRoom(config)
ParserStays == UNCHANGED <<config, default_format, phase, wrote, state, frames, parent, setting,
                           string>>

ScanWritten ==
    /\ Scanning /\ text # AnyText /\ text # <<>> /\ RoomFor(Head(text))
    /\ look' = Head(text) /\ text' = Tail(text)
    /\ ParserStays
    /\ UNCHANGED <<error, budget, files, includes, buffer, buffers, open, filenames>>
ScanAny ==
    /\ Scanning /\ text = AnyText /\ budget > 0
    /\ \E t \in TokensTried : RoomFor(t) /\ look' = t
    /\ budget' = budget - 1
    /\ ParserStays
    /\ UNCHANGED <<error, text, files, includes, buffer, buffers, open, filenames>>

\* @include, scanctx_push_include: the buffer is saved and a new one takes its place.
\* What cannot be opened becomes an error token with a message and a file.
NewBuffer == CHOOSE b \in 1..(MAX_INCLUDE_DEPTH + 1) : b \notin buffers
ScanInclude(f) ==
    /\ Scanning /\ text = AnyText /\ budget > 0
    /\ budget' = budget - 1
    /\ ParserStays
    /\ IF Depth = MAX_INCLUDE_DEPTH \/ f = Missing
       THEN /\ look' = Token("ERROR")
            /\ error' = [NoError EXCEPT !.file = CurrentFile, !.text =
                          IF Depth = MAX_INCLUDE_DEPTH THEN "too deep" ELSE "bad include"]
            /\ UNCHANGED <<text, files, includes, buffer, buffers, open, filenames>>
       ELSE /\ includes' = Append(includes, buffer)
            /\ files' = Append(files, f)
            /\ filenames' = filenames \cup {f}
            /\ buffer' = NewBuffer /\ buffers' = buffers \cup {NewBuffer}
            /\ open' = open \cup {Depth + 1}
            /\ UNCHANGED <<look, error, text>>

\* The end of a file: back to the buffer of the including file, or the end of the text.
ScanEnd ==
    /\ Scanning /\ text \in {AnyText, <<>>}
    /\ ParserStays
    /\ IF Depth = 0
       THEN /\ look' = Token("END")
            /\ UNCHANGED <<error, scannerVars>>
       ELSE /\ open' = open \ {Depth}
            /\ includes' = SubSeq(includes, 1, Depth - 1)
            /\ files' = SubSeq(files, 1, Depth)
            /\ buffers' = buffers \ {buffer} /\ buffer' = includes[Depth]
            /\ UNCHANGED <<look, error, text, budget, filenames>>

-----------------------------------------------------------------------------
(***************************************************************************)
(* The parser.  Frame is the innermost open aggregate; a value is followed *)
(* by what that aggregate allows.                                          *)
(***************************************************************************)
Frame == frames[Len(frames)]
After(frame) == CASE frame = "GROUP" -> "terminator" [] OTHER -> "separator"
StackIsFull == Len(frames) = MaxDepth
Captured(h, n) == [h EXCEPT ![n].file = CurrentFile]    \* CAPTURE_PARSE_POS

Goes(newState, newFrames, newLook) ==
    /\ state' = newState /\ frames' = newFrames /\ look' = newLook
    /\ UNCHANGED <<default_format, phase, wrote, error, scannerVars>>
Parsing == phase = "parse" /\ look # NoToken
Sees(t) == Parsing /\ look.t = t

\* setting: TOK_NAME and the action that adds the setting, without a type as yet.
ParseName ==
    /\ state = "setting" /\ Sees("NAME")
    /\ IF CanAdd(config, parent, look.name)
       THEN /\ config' = Captured(Add(config, parent, look.name, "NONE"), Address(config))
            /\ setting' = Address(config)
            /\ Goes("equals", frames, NoToken)
            /\ UNCHANGED <<parent, string>>
       ELSE Abort("duplicate setting name")

ParseEquals ==
    /\ state = "equals" /\ Sees("EQUALS")
    /\ Goes("value", frames, NoToken)
    /\ UNCHANGED <<config, parent, setting, string>>

ExpectsValue == \/ state = "value"
                \/ state \in {"first", "element"} /\ Frame = "LIST"
ExpectsScalar == ExpectsValue \/ state \in {"first", "element"}

\* simple_value: an element is added to the array or list; otherwise the setting
\* that was named takes the value, and its type.
AsElement(kind, v, fmt) ==
    {Captured([h EXCEPT ![Address(config)].fmt = fmt], Address(config)) :
        h \in SetElemResults(config, parent, 0, kind, v)}
AsValue(kind, v, fmt) ==
    {[config EXCEPT ![setting] = [s EXCEPT !.fmt = fmt]] :
        s \in SetResults(config[setting], kind, v)}
TakeScalar(kind, v, fmt, next) ==
    IF InVector /\ ~CanSetElem(config, parent, 0, kind, FALSE)
    THEN Abort("mismatched element type in array")
    ELSE /\ config' \in IF InVector THEN AsElement(kind, v, fmt) ELSE AsValue(kind, v, fmt)
         /\ Goes(After(Frame), frames, next)
         /\ string' = NoString
         /\ UNCHANGED <<parent, setting>>

ParseScalar ==
    /\ ExpectsScalar /\ Parsing /\ look.t \in ScalarTokens \ {"STRING"}
    /\ TakeScalar(KindOf(look.t), look.v, FormatOf(look.t), NoToken)

\* Adjacent strings are one value: the parser must see the token after them.
ParseString ==
    /\ ExpectsScalar \/ state = "string"
    /\ Sees("STRING")
    /\ string' = Joined(string, look.v)
    /\ setting' = setting /\ config' = config /\ parent' = parent
    /\ Goes("string", frames, NoToken)
EndString ==
    /\ state = "string" /\ Parsing /\ look.t # "STRING"
    /\ TakeScalar("STRING", string, "DEFAULT", look)

\* array, list, group: in a list an element is added, otherwise the setting that was
\* named becomes the aggregate.
StartToken(type) == CASE type = "ARRAY" -> "ARRAY_START" [] type = "LIST" -> "LIST_START"
                      [] OTHER -> "GROUP_START"
EndToken(type) == CASE type = "ARRAY" -> "ARRAY_END" [] type = "LIST" -> "LIST_END"
                    [] OTHER -> "GROUP_END"
OpenAggregate(type) ==
    IF config[parent].type = "LIST"
    THEN /\ config' = Captured(Add(config, parent, NoName, type), Address(config))
         /\ parent' = Address(config) /\ setting' = setting
    ELSE /\ config' = [config EXCEPT ![setting].type = type]
         /\ parent' = setting /\ setting' = Null
ParseStart(type) ==
    /\ ExpectsValue /\ Sees(StartToken(type))
    /\ IF StackIsFull THEN Abort("memory exhausted")
       ELSE /\ OpenAggregate(type)
            /\ string' = string
            /\ Goes(IF type = "GROUP" THEN "setting" ELSE "first",
                    Append(frames, type), NoToken)
\* Mutant of Outer: the context stays in the aggregate that was closed.
OuterNever(p) == p
Outer(p) == config[p].parent
ParseEnd(type) ==
    /\ Frame = type /\ Len(frames) > 1 /\ Sees(EndToken(type))
    /\ IF type = "GROUP" THEN state = "setting" ELSE state \in {"first", "separator"}
    /\ parent' = Outer(parent)
    /\ config' = config /\ setting' = setting /\ string' = string
    /\ Goes(After(frames[Len(frames) - 1]), SubSeq(frames, 1, Len(frames) - 1), NoToken)

ParseTerminator ==
    /\ state = "terminator" /\ Parsing
    /\ Goes("setting", frames, IF look.t \in {"SEMICOLON", "COMMA"} THEN NoToken ELSE look)
    /\ UNCHANGED <<config, parent, setting, string>>
ParseSeparator ==
    /\ state = "separator" /\ Sees("COMMA")
    /\ Goes("element", frames, NoToken)
    /\ UNCHANGED <<config, parent, setting, string>>

ParseAccept ==
    /\ state = "setting" /\ Len(frames) = 1 /\ Sees("END")
    /\ EndRead(NoError)

\* A token nothing expects.
Accepts(t) ==
    CASE state = "setting" -> \/ t = "NAME"
                              \/ t = "END" /\ Len(frames) = 1
                              \/ t = "GROUP_END" /\ Len(frames) > 1
      [] state = "equals" -> t = "EQUALS"
      [] state = "separator" -> t \in {"COMMA", EndToken(Frame)}
      [] state \in {"string", "terminator"} -> TRUE
      [] OTHER -> \/ t \in ScalarTokens
                  \/ ExpectsValue /\ t \in {"ARRAY_START", "LIST_START", "GROUP_START"}
                  \/ state = "first" /\ t = EndToken(Frame)
ParseError ==
    /\ Parsing /\ ~Accepts(look.t)
    /\ Abort("syntax error")

-----------------------------------------------------------------------------
ReaderInit ==
    /\ config = EmptyHeap /\ default_format = "DEFAULT" /\ phase = "build"
    /\ text = <<>> /\ budget = 0 /\ wrote = None
    /\ state = "setting" /\ frames = <<"GROUP">> /\ look = NoToken
    /\ parent = Root /\ setting = Root /\ string = NoString
    /\ files = <<Null>> /\ includes = <<>> /\ buffer = Null /\ buffers = {} /\ open = {}
    /\ filenames = {} /\ error = NoError

ReaderNext ==
    \/ Build \/ WriteFile \/ OtherFile \/ CannotOpen
    \/ \E file \in {Null, 1} : StartRead(file)
    \/ ScanWritten \/ ScanAny \/ ScanEnd \/ \E f \in {2, Missing} : ScanInclude(f)
    \/ ParseName \/ ParseEquals \/ ParseScalar \/ ParseString \/ EndString
    \/ \E type \in Aggregates : ParseStart(type) \/ ParseEnd(type)
    \/ ParseTerminator \/ ParseSeparator \/ ParseAccept \/ ParseError

ReaderSpec == ReaderInit /\ [][ReaderNext]_allVars

-----------------------------------------------------------------------------
\* A value that was read stands for the one that was written: it is the same, except that
\* truth values are 0 or 1, and that a double may differ by what the digits cannot say.
StandsFor(read, written) ==
    /\ [read EXCEPT !.val = 0] = [written EXCEPT !.val = 0]
    /\ CASE read.type = "BOOL" -> read.val \in {0, 1} /\ (read.val = 0 <=> written.val = 0)
         [] read.type = "FLOAT" /\ ~Fits(written.val, PrintExact) ->
              read.val \in written.val - 1..written.val + 1
         [] OTHER -> read.val = written.val

\* What config_write wrote, config_read reads back as a configuration of the same settings
\* in the same order with the same types and formats, whose values stand for those that
\* were written, provided the syntax can express it; what it cannot express is refused when
\* it is read.  On the way it never needs more settings than the configuration had.
WhatIsWrittenIsReadBack ==
    /\ phase = "done" /\ wrote # None =>
         /\ error.type = "NONE" <=> wrote.expressible
         /\ wrote.expressible =>
              LET image == Image(config, default_format) IN
              /\ Cardinality(image) = Cardinality(wrote.image)
              /\ \A written \in wrote.image : \E read \in image : StandsFor(read, written)
    /\ Scanning /\ text \notin {AnyText, <<>>} => RoomFor(Head(text))

\* At every step of the parser, ctx->parent is the aggregate the parser is in, ctx->setting
\* the setting that waits for its value, and what was built so far is a sound tree.
ContextFollowsParser ==
    phase = "parse" =>
        /\ LET up == Ancestors(config, parent) IN
           /\ Len(up) = Len(frames)
           /\ \A k \in DOMAIN up : config[up[k]].type = frames[Len(frames) - k + 1]
        /\ state \in {"equals", "value"} \/ (state = "string" /\ Frame = "GROUP") =>
             /\ setting = config[parent].kids[Len(config[parent].kids)]
             /\ config[setting].type = "NONE"
        /\ FamilyAgrees(config) /\ ListsFit(config) /\ NamesAreUnique(config)
        /\ ArraysAreHomogeneous(config)

\* However a read ends, no stream and no buffer is left, and every file name that the
\* settings and the error message point to is one the configuration keeps.
NothingIsLeftOpen ==
    /\ phase = "done" => buffers = {} /\ open = {}
    /\ phase = "parse" =>
         /\ open = Levels \cup (IF files[1] = Null THEN {} ELSE {0})
         /\ Cardinality(buffers) = Depth + 1
    /\ phase \in {"parse", "done"} =>
         \A n \in Live(config) : config[n].file \in filenames \cup {Null}
    /\ error.file \in filenames \cup {Null}
=============================================================================
