----------------------------- MODULE ScanBuffers -----------------------------
(***************************************************************************)
(* How the scanner of libconfig (lib/scanner.c) reads: through buffers of  *)
(* limited size that are refilled by reads of any length while a match may *)
(* be under way, one for each file that is open.  What matters of the      *)
(* current buffer is kept twice, in the buffer and in the scanner, and     *)
(* copied to and fro when buffers are switched.                            *)
(*                                                                         *)
(* The inner loop of the automaton is one step (Match); it ends at the     *)
(* longest match, or at the end of what the buffer holds.                  *)
(***************************************************************************)
EXTENDS Integers, Sequences

CONSTANTS Files, MAX_INCLUDE_DEPTH,
          YY_BUF_SIZE,  \* characters for which a buffer has room at first
          Texts         \* bound: the texts that files may have

ASSUME ScanAssumption ==
    /\ MAX_INCLUDE_DEPTH \in Nat /\ YY_BUF_SIZE \in Nat \ {0}
    /\ Files \cap {"a", "blank", "quote"} = {}
    /\ Texts \subseteq Seq({"a", "blank", "quote"} \cup Files)

VARIABLES
    contents,  \* the text of each file
    source,    \* "file" or "string": what the outermost text is read from
    unread,    \* what was not yet read of each stream
    buffers,   \* the buffers that are allocated
    current,   \* the buffer of yylex
    saved,     \* ctx->buffers: those of the including files
    n_chars,   \* yy_n_chars, the characters in the current buffer
    text_ptr,  \* yytext_ptr, the characters before the current match
    in,        \* yyin, the stream
    stage,     \* "match", "act" or "end of buffer"
    matched,   \* the characters of the current match
    mode, string, tokens, ended   \* as in TokenStream

scanVars == <<unread, buffers, n_chars, text_ptr, in, matched>>
tokenVars == <<mode, string, tokens, ended>>
vars == <<contents, source, current, saved, stage, scanVars, tokenVars>>

-----------------------------------------------------------------------------
(***************************************************************************)
(* Buffers.  There is one for each depth of inclusion, and so is a stream. *)
(***************************************************************************)
Depth == Len(saved)
Slots == 1..(MAX_INCLUDE_DEPTH + 1)
NoBuffer == [chars |-> <<>>, n |-> 0, pos |-> 0, size |-> 0, file |-> 0,
             status |-> "FREE", fill |-> FALSE]
Flushed(b) ==   \* yy_flush_buffer
    [b EXCEPT !.chars = <<>>, !.n = 0, !.pos = 0, !.status = "NEW"]
Initialised(b, file) == [Flushed(b) EXCEPT !.file = file, !.fill = TRUE]
NewBuffer(file) == Initialised([NoBuffer EXCEPT !.size = YY_BUF_SIZE], file)
ScanBuffer(base) ==
    [chars |-> base, n |-> Len(base), pos |-> 0, size |-> Len(base), file |-> 0,
     status |-> "NEW", fill |-> FALSE]
ScanBytes(text) == ScanBuffer(text)   \* of a copy of the text
Deleted(bs, b) == [bs EXCEPT ![b] = NoBuffer]

Buffer == buffers[current]
MatchEnd == text_ptr + matched     \* yy_c_buf_p once a match was found
Held == SubSeq(Buffer.chars, text_ptr + 1, n_chars)

\* yy_switch_to_buffer: what belongs to the old buffer is put back.
\* Mutant of Saved: the number of characters stays as the last read left it.
SavedPosition(bs) == [bs EXCEPT ![current].pos = MatchEnd]
Saved(bs) == [bs EXCEPT ![current].pos = MatchEnd, ![current].n = n_chars]
Load(b) == /\ n_chars' = b.n /\ text_ptr' = b.pos /\ matched' = 0 /\ in' = b.file

-----------------------------------------------------------------------------
(***************************************************************************)
(* Matching.  A run may go on in what was not yet read; the other rules    *)
(* take one character.                                                     *)
(***************************************************************************)
Tokens == INSTANCE TokenStream WITH texts <- <<Held>>
RunHeld == Tokens!RunLength(Held, Tokens!RunClass(mode))

Match ==
    /\ stage = "match"
    /\ IF RunHeld = Len(Held) THEN matched' = RunHeld /\ stage' = "end of buffer"
       ELSE /\ matched' = IF RunHeld > 0 THEN RunHeld ELSE 1
            /\ stage' = "act"
    /\ UNCHANGED <<contents, source, current, saved, unread, buffers, n_chars, text_ptr,
                   in, tokenVars>>

\* The next match starts behind this one.
Advance == /\ text_ptr' = MatchEnd /\ matched' = 0 /\ stage' = "match"
           /\ UNCHANGED <<contents, source, current, saved, unread, buffers, n_chars, in>>
First == Head(Held)
Acting == stage = "act"
InRun == First \in Tokens!RunClass(mode)

ActName == /\ Acting /\ mode = "INITIAL" /\ InRun
           /\ tokens' = Append(tokens, <<"name", matched>>)
           /\ Advance /\ UNCHANGED <<mode, string, ended>>
ActStringPart == /\ Acting /\ mode = "STRING" /\ InRun
                 /\ string' = string + matched
                 /\ Advance /\ UNCHANGED <<mode, tokens, ended>>
\* Mutant of ActSpace: the character is given back to be matched again.
ActSpaceAgain == /\ Acting /\ mode = "INITIAL" /\ First = "blank"
                 /\ matched' = 0 /\ stage' = "match"
                 /\ UNCHANGED <<contents, source, current, saved, unread, buffers,
                                n_chars, text_ptr, in, tokenVars>>
ActSpace == /\ Acting /\ mode = "INITIAL" /\ First = "blank"
            /\ Advance /\ UNCHANGED tokenVars
ActQuote ==
    /\ Acting /\ First = "quote"
    /\ IF mode = "INITIAL" THEN mode' = "STRING" /\ UNCHANGED <<string, tokens>>
       ELSE /\ mode' = "INITIAL"
            /\ tokens' = Append(tokens, <<"string", string>>) /\ string' = 0
    /\ Advance /\ UNCHANGED ended
ActInclude ==
    /\ Acting /\ mode = "INITIAL" /\ First \in Files
    /\ IF Depth = MAX_INCLUDE_DEPTH
       THEN /\ tokens' = Append(tokens, <<"error", 0>>) /\ ended' = TRUE
            /\ Advance /\ UNCHANGED <<mode, string>>
       ELSE LET new == Depth + 2 IN
            /\ saved' = Append(saved, current)
            /\ unread' = [unread EXCEPT ![new] = contents[First]]
            /\ buffers' = [Saved(buffers) EXCEPT ![new] = NewBuffer(new)]
            /\ current' = new
            /\ Load(NewBuffer(new))
            /\ stage' = "match"
            /\ UNCHANGED <<contents, source, tokenVars>>

-----------------------------------------------------------------------------
(***************************************************************************)
(* The end of the buffer: yy_get_next_buffer moves the match under way to  *)
(* the front, lets the buffer grow until there is room behind it, and      *)
(* reads; a read that returns nothing ends the match, or the file.         *)
(***************************************************************************)
Fresh(b) ==   \* what a new buffer takes over when it is first at its end
    IF b.status = "NEW" THEN [b EXCEPT !.file = in, !.status = "NORMAL"] ELSE b
NChars == IF Buffer.status = "NEW" THEN Buffer.n ELSE n_chars

\* Mutant of Room: what was moved to the front is forgotten.
RoomOfAll(size, moved) == size
Room(size, moved) == size - moved - 1
Grown(size, moved) ==
    LET Doubled[s \in Nat] == IF Room(s, moved) > 0 THEN s ELSE Doubled[s * 2]
    IN  Doubled[size]

LastMatch == /\ stage' = "act" /\ UNCHANGED <<contents, source, current, saved, tokenVars>>
Continue == /\ stage' = "match" /\ UNCHANGED <<contents, source, current, saved, tokenVars>>

EndOfString ==   \* a buffer that is not filled, with a match to act on
    /\ stage = "end of buffer" /\ ~Buffer.fill /\ matched > 0
    /\ buffers' = [buffers EXCEPT ![current] = Fresh(@)]
    /\ n_chars' = NChars
    /\ LastMatch /\ UNCHANGED <<unread, text_ptr, in, matched>>

Moved(b) == SubSeq(b.chars, text_ptr + 1, text_ptr + matched)
Fill ==
    /\ stage = "end of buffer" /\ Buffer.fill
    /\ LET b == Fresh(Buffer)
           pending == b.status = "EOF_PENDING"
           size == IF pending THEN b.size ELSE Grown(b.size, matched)
           stream == unread[b.file]
           room == Room(size, matched)
           most == IF pending THEN 0 ELSE IF room < Len(stream) THEN room ELSE Len(stream)
       IN
       \E k \in IF most = 0 THEN {0} ELSE 1..most :
         /\ k = 0 => matched > 0     \* the rest is EndOfInput
         /\ buffers' = [buffers EXCEPT ![current] =
              [b EXCEPT !.chars = Moved(b) \o SubSeq(stream, 1, k), !.n = k, !.size = size,
                        !.status = IF k = 0 THEN "EOF_PENDING" ELSE @]]
         /\ unread' = [unread EXCEPT ![b.file] = SubSeq(stream, k + 1, Len(stream))]
         /\ n_chars' = matched + k /\ text_ptr' = 0
         /\ UNCHANGED <<in, matched>>
         /\ IF k = 0 THEN LastMatch ELSE Continue

\* Nothing is left: the stream is restarted, and the rule of the end of a file acts.
EndOfInput ==
    /\ stage = "end of buffer" /\ matched = 0
    /\ Buffer.fill => unread[Fresh(Buffer).file] = <<>> \/ Buffer.status = "EOF_PENDING"
    /\ UNCHANGED <<contents, source, unread, mode, string>>
    /\ LET b == Fresh(Buffer)
           restarted == IF b.fill THEN Initialised(b, in) ELSE b   \* yyrestart
       IN
       IF Depth = 0
       THEN /\ tokens' = Append(tokens, <<"end", 0>>) /\ ended' = TRUE
            /\ buffers' = [buffers EXCEPT ![current] = restarted]
            /\ IF b.fill THEN Load(restarted)
               ELSE n_chars' = NChars /\ UNCHANGED <<text_ptr, matched, in>>
            /\ UNCHANGED <<current, saved, stage>>
       ELSE LET outer == saved[Depth] IN
            /\ buffers' = Deleted(buffers, current)
            /\ current' = outer /\ saved' = SubSeq(saved, 1, Depth - 1)
            /\ Load(buffers[outer])
            /\ stage' = "match"
            /\ UNCHANGED <<tokens, ended>>

Init ==
    /\ contents \in [Files -> Texts]
    /\ source \in {"file", "string"}
    /\ \E root \in Files :
         LET first == IF source = "file" THEN NewBuffer(1)
                                         ELSE ScanBytes(contents[root]) IN
         /\ unread = [s \in Slots |-> IF s = 1 /\ source = "file" THEN contents[root]
                                      ELSE <<>>]
         /\ buffers = [s \in Slots |-> IF s = 1 THEN first ELSE NoBuffer]
         /\ n_chars = first.n /\ in = first.file
    /\ current = 1 /\ saved = <<>> /\ text_ptr = 0 /\ matched = 0 /\ stage = "match"
    /\ mode = "INITIAL" /\ string = 0 /\ tokens = <<>> /\ ended = FALSE

Next ==
    /\ ~ended
    /\ \/ Match \/ ActName \/ ActStringPart \/ ActSpace \/ ActQuote \/ ActInclude
       \/ EndOfString \/ Fill \/ EndOfInput

\* The loops of yylex and of the parser that calls it.
Spec == Init /\ [][Next]_vars /\ WF_vars(Next)

-----------------------------------------------------------------------------
\* No buffer is written past its end (two more characters mark the end), the match
\* lies in what the buffer holds, and a buffer exists exactly for each open text.
BuffersHold ==
    /\ \A s \in Slots : LET b == buffers[s] IN
         /\ b.status # "FREE" => Len(b.chars) <= b.size
         /\ b.status # "FREE" <=> s = current \/ \E i \in 1..Depth : saved[i] = s
    /\ MatchEnd <= n_chars /\ n_chars <= Len(Buffer.chars)

\* What is left of each open text, the including ones first: from the place where the
\* match begins in the buffer, with what was not yet read of the file.
RestOf(b, pos, n) ==
    SubSeq(b.chars, pos + 1, n) \o IF b.fill THEN unread[b.file] ELSE <<>>
TextsLeft ==
    Append([i \in 1..Depth |-> RestOf(buffers[saved[i]], buffers[saved[i]].pos,
                                      buffers[saved[i]].n)],
           RestOf(Fresh(Buffer), text_ptr, n_chars))
Abstract == INSTANCE TokenStream WITH texts <- TextsLeft

\* The scanner cuts the texts into the tokens that TokenStream would: no refill and no
\* switch of buffers (yy_get_next_buffer, yy_switch_to_buffer) loses, repeats or splits
\* anything.
ImplementsTokenStream == Abstract!Spec

\* Every text comes to its end, or to an inclusion that is too deep.
ScanEnds == <>ended
=============================================================================
