----------------------------- MODULE TokenStream -----------------------------
(***************************************************************************)
(* What the scanner of libconfig promises (the rules of scanner.l as       *)
(* compiled into lib/scanner.c): a stack of texts, the file and what it    *)
(* includes, is cut into tokens, each the longest that a rule matches.     *)
(* The rules are those of names, of white space, of strings, of @include   *)
(* and of the end of a file; the others differ from the rule of names only *)
(* in the characters they take.                                            *)
(***************************************************************************)
EXTENDS Integers, Sequences

CONSTANTS Files,             \* the files there are
          MAX_INCLUDE_DEPTH  \* files that can be open inside another

\* A character: of a name, white space, a quote, or a whole @include directive.
Characters == {"a", "blank", "quote"} \cup Files

VARIABLES contents,  \* the text of each file
          texts,     \* what is left of the text of each open file, the innermost last
          mode,      \* the start condition: "INITIAL" or "STRING"
          string,    \* the length of the string that is being read
          tokens,    \* the tokens that were recognised
          ended      \* whether the last token was the end of the text or an error

vars == <<contents, texts, mode, string, tokens, ended>>

Text == texts[Len(texts)]
Left(n) == SubSeq(Text, n + 1, Len(Text))
Read(n) == texts' = [texts EXCEPT ![Len(texts)] = Left(n)]

\* How many characters of s, from the first, are in the class.
RunLength(s, class) ==
    CHOOSE n \in 0..Len(s) : /\ \A i \in 1..n : s[i] \in class
                             /\ n < Len(s) => s[n + 1] \notin class

\* The characters of the run that a rule matches in a start condition.
RunClass(m) == IF m = "INITIAL" THEN {"a"} ELSE Characters \ {"quote"}
Run == RunLength(Text, RunClass(mode))

-----------------------------------------------------------------------------
Name ==
    /\ mode = "INITIAL" /\ Run > 0
    /\ Read(Run) /\ tokens' = Append(tokens, <<"name", Run>>)
    /\ UNCHANGED <<contents, mode, string, ended>>

StringPart ==
    /\ mode = "STRING" /\ Run > 0
    /\ Read(Run) /\ string' = string + Run
    /\ UNCHANGED <<contents, mode, tokens, ended>>

Space ==
    /\ mode = "INITIAL" /\ Text # <<>> /\ Head(Text) = "blank"
    /\ Read(1)
    /\ UNCHANGED <<contents, mode, string, tokens, ended>>

Quote ==
    /\ Text # <<>> /\ Head(Text) = "quote"
    /\ Read(1)
    /\ IF mode = "INITIAL"
       THEN mode' = "STRING" /\ UNCHANGED <<string, tokens>>
       ELSE /\ mode' = "INITIAL"
            /\ tokens' = Append(tokens, <<"string", string>>) /\ string' = 0
    /\ UNCHANGED <<contents, ended>>

Include ==
    /\ mode = "INITIAL" /\ Text # <<>> /\ Head(Text) \in Files
    /\ IF Len(texts) <= MAX_INCLUDE_DEPTH
       THEN /\ texts' = Append([texts EXCEPT ![Len(texts)] = Left(1)],
                               contents[Head(Text)])
            /\ UNCHANGED <<tokens, ended>>
       ELSE /\ Read(1)
            /\ tokens' = Append(tokens, <<"error", 0>>) /\ ended' = TRUE
    /\ UNCHANGED <<contents, mode, string>>

\* A string that an included file opens goes on in the file that included it.
EndOfFile ==
    /\ Text = <<>>
    /\ IF Len(texts) > 1
       THEN texts' = SubSeq(texts, 1, Len(texts) - 1) /\ UNCHANGED <<tokens, ended>>
       ELSE /\ tokens' = Append(tokens, <<"end", 0>>) /\ ended' = TRUE
            /\ UNCHANGED texts
    /\ UNCHANGED <<contents, mode, string>>

Init ==
    /\ \E root \in Files : texts = <<contents[root]>>
    /\ mode = "INITIAL" /\ string = 0 /\ tokens = <<>> /\ ended = FALSE
Next == ~ended /\ (Name \/ StringPart \/ Space \/ Quote \/ Include \/ EndOfFile)
Spec == Init /\ [][Next]_vars
=============================================================================
