------------------------------ MODULE HelpFormat ------------------------------
(***************************************************************************)
(* The help-text layout of CommandLineParser (src/src/CommandLineParser.cc *)
(* lines 333-393).  printItemMap prints each help row as                   *)
(*   formatSet(names, 15) + ' ' + formatHelptext(text, 50, 20).            *)
(*                                                                         *)
(* formatHelptext wraps a text at spaces; its loop is modelled step by     *)
(* step (it need not terminate) over texts of the characters "a" and " ",  *)
(* with 0-based string positions as in std::string.  A 32-bit build is    *)
(* assumed, where 'unsigned pos == string::npos' works as intended.        *)
(* formatSet lays out the option names of one row; only their lengths     *)
(* matter to the layout, so a name is its length.                         *)
(***************************************************************************)
EXTENDS Integers, Sequences, SequencesExt

CONSTANTS
    MaxLen,       \* longest help text enumerated
    MaxLength,    \* formatHelptext's maxlength
    MaxNames,     \* most option names in one row
    MaxNameLen,   \* longest option name
    Columns       \* formatSet's columns

Chars == {"a", " "}
NPOS  == -1                     \* std::string::npos
MaxIterations == MaxLen + 1     \* the loop is cut off after this many turns

VARIABLES
    text,       \* helpText
    index,      \* the loop variable 'index'
    out,        \* outText, as its sequence of lines ('\n' + indent between them)
    iterations, \* turns of the while loop taken
    state,      \* "looping" | "done" | "out_of_range" (std::out_of_range thrown)
    names       \* lengths of the option names of one row, in set order

vars == <<text, index, out, iterations, state, names>>

\* std::string operations, 0-based.
Suffix(s, i)    == SubSeq(s, i + 1, Len(s))                     \* s.substr(i)
SubStr(s, i, n) == SubSeq(s, i + 1, IF i + n < Len(s) THEN i + n ELSE Len(s))
RFindSpace(s, upto) ==                                       \* s.rfind(' ', upto)
    LET P == {p \in 0..Len(s) - 1 : p <= upto /\ s[p + 1] = " "}
    IN  IF P = {} THEN NPOS ELSE Max(P)
FindSpace(s) ==                                              \* s.find(' ')
    LET P == {p \in 0..Len(s) - 1 : s[p + 1] = " "}
    IN  IF P = {} THEN NPOS ELSE Min(P)

Init ==
    /\ text \in BoundedSeq(Chars, MaxLen)
    /\ index = 0
    /\ out = <<>>
    /\ iterations = 0
    /\ state = "looping"
    /\ names \in BoundedSeq(1..MaxNameLen, MaxNames)

\* One turn of the while loop: break at the last space within maxlength of
\* the rest, else at the first space after maxlength, else at its end.
WrapLine ==
    /\ state = "looping" /\ iterations < MaxIterations
    /\ index <= Len(text)
    /\ Len(Suffix(text, index)) > MaxLength
    /\ LET rest == Suffix(text, index)
           back == RFindSpace(rest, MaxLength)
           fwd  == FindSpace(Suffix(text, MaxLength))
           pos  == IF back # NPOS THEN back
                   ELSE IF fwd # NPOS THEN fwd
                   ELSE Len(rest)
       IN  /\ out' = Append(out, SubStr(text, index, index + pos))
           /\ index' = pos + 1
    /\ iterations' = iterations + 1
    /\ UNCHANGED <<text, state, names>>

\* The loop test finds the rest short enough: append it and return.
LastLine ==
    /\ state = "looping"
    /\ index <= Len(text)
    /\ Len(Suffix(text, index)) <= MaxLength
    /\ out' = Append(out, Suffix(text, index))
    /\ state' = "done"
    /\ UNCHANGED <<text, index, iterations, names>>

\* substr(index) with index past the end throws std::out_of_range.
OutOfRange ==
    /\ state = "looping"
    /\ index > Len(text)
    /\ state' = "out_of_range"
    /\ UNCHANGED <<text, index, out, iterations, names>>

Next == WrapLine \/ LastLine \/ OutOfRange

Spec == Init /\ [][Next]_vars

-----------------------------------------------------------------------------
(* formatSet: the width of the last line of a row's name column, not      *)
(* counting its four leading spaces.  A name starts a new line when the   *)
(* line so far plus the name exceeds columns; otherwise ", " and the name *)
(* are appended.  The last line is padded with spaces up to columns.      *)
RECURSIVE LineWidth(_, _)
LineWidth(total, ns) ==
    IF ns = <<>> THEN total
    ELSE LET l == Head(ns)
         IN  LineWidth(IF total = 0 THEN l
                       ELSE IF total + l > Columns THEN l
                       ELSE total + 2 + l,
                       Tail(ns))

FormatSetWidth(ns) ==
    LET total == LineWidth(0, ns)
    IN  IF total < Columns THEN Columns ELSE total

-----------------------------------------------------------------------------
TypeOK ==
    /\ text \in BoundedSeq(Chars, MaxLen)
    /\ index \in Nat /\ iterations \in 0..MaxIterations
    /\ out \in Seq(Seq(Chars))
    /\ state \in {"looping", "done", "out_of_range"}
    /\ names \in BoundedSeq(1..MaxNameLen, MaxNames)

\* The lines joined again with the spaces the wrap consumed.
RECURSIVE Joined(_)
Joined(ls) == IF Len(ls) <= 1 THEN FlattenSeq(ls)
              ELSE Head(ls) \o <<" ">> \o Joined(Tail(ls))

(* formatHelptext wraps without losing, repeating or reordering text: it  *)
(* returns, within one turn per character, lines that joined with single  *)
(* spaces give back the text, each no longer than maxlength unless it is  *)
(* one unbreakable word.                                                  *)
HelptextWrapped ==
    /\ iterations <= Len(text)
    /\ state # "out_of_range"
    /\ state = "done" =>
          /\ Joined(out) = text
          /\ \A k \in DOMAIN out :
                Len(out[k]) <= MaxLength \/ ~ \E p \in DOMAIN out[k] : out[k][p] = " "

(* The help texts of all rows start in the same column: when every name   *)
(* of a row fits in the column, the row's last name line is exactly       *)
(* columns wide.                                                          *)
NameColumnAligned ==
    (\A k \in DOMAIN names : names[k] <= Columns) => FormatSetWidth(names) = Columns
==============================================================================
