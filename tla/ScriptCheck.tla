----------------------------- MODULE ScriptCheck -----------------------------
(***************************************************************************)
(* The script validator (internal/security) on scripts as it sees them: a  *)
(* size, and lines that are blank or comments (no words) or begin with     *)
(* some words.  A word is a name with the operators written before it;     *)
(* "||" is two pipes.  A pattern of the configuration is the set of names  *)
(* that it matches; patterns that begin with an operator, and "*", which   *)
(* matches operators too, are left out, and so is the allow list, which is *)
(* always nil.                                                             *)
(***************************************************************************)
EXTENDS Naturals, Sequences

CONSTANTS
    MaxSize, MaxLines,    \* limits on a script
    BlockedCommands,      \* the blocked patterns
    Commands              \* names of commands

ASSUME CommandsAssumption ==
    /\ MaxSize \in Nat /\ MaxLines \in Nat
    /\ BlockedCommands \subseteq SUBSET Commands

Operators == {"pipe", "and", "semicolon"}       \* "|", "&&" and ";"
Word == [operators : Seq(Operators), name : Commands]
Line == [words : Seq(Word), long : BOOLEAN]     \* long: over 64 KiB
Text == [size : Nat, lines : Seq(Line)]

TrimPrefix(prefix, word) ==
    IF /\ Len(prefix) <= Len(word.operators)
       /\ SubSeq(word.operators, 1, Len(prefix)) = prefix
    THEN [word EXCEPT !.operators = SubSeq(@, Len(prefix) + 1, Len(@))]
    ELSE word

(* One operator of each kind is dropped, in this order. *)
NoSemicolon(word) ==       \* a variant of Bare
    TrimPrefix(<<"pipe", "pipe">>, TrimPrefix(<<"and">>, TrimPrefix(<<"pipe">>, word)))
Bare(word) ==
    TrimPrefix(<<"semicolon">>, TrimPrefix(<<"pipe", "pipe">>,
        TrimPrefix(<<"and">>, TrimPrefix(<<"pipe">>, word))))

SwitchesUser(word) == word.operators = <<>> /\ word.name \in {"sudo", "su"}

Command(line) ==
    LET first == Bare(line.words[1])
    IN  IF SwitchesUser(first) /\ Len(line.words) > 1 THEN line.words[2] ELSE first

(* The scanner gives up at the first long line. *)
ExtractCommands(text) ==
    {Command(text.lines[i]) :
        i \in {i \in DOMAIN text.lines : /\ text.lines[i].words # <<>>
                                         /\ \A j \in 1 .. i : ~text.lines[j].long}}

MatchesCommand(word, pattern) == word.operators = <<>> /\ word.name \in pattern

Valid(text) ==
    /\ text.size <= MaxSize
    /\ Len(text.lines) <= MaxLines
    /\ \A word \in ExtractCommands(text), pattern \in BlockedCommands :
          ~MatchesCommand(word, pattern)

(* The reference.  A command begins a line, or comes after a sudo or su    *)
(* that begins it.  A valid script has no blocked command there, but for   *)
(* what the scan does not see: a word behind more operators than one, a    *)
(* command behind an operator after sudo or su, and - although the default *)
(* list blocks both - sudo and su themselves before another word.          *)
Blocked(word) == \E pattern \in BlockedCommands : word.name \in pattern
Reached(text, i) == \A j \in 1 .. i : ~text.lines[j].long
Switched(words) ==
    /\ Len(words) > 1
    /\ words[1].name \in {"sudo", "su"} /\ Len(words[1].operators) <= 1
Leading(words) == {k \in DOMAIN words : k = 1 \/ (k = 2 /\ Switched(words))}
Unseen(words, k) ==
    \/ k = 1 /\ (Len(words[1].operators) > 1 \/ Switched(words))
    \/ k = 2 /\ words[2].operators # <<>>
Unblocked(text) ==
    \A i \in DOMAIN text.lines : Reached(text, i) =>
        \A k \in Leading(text.lines[i].words) :
            Blocked(text.lines[i].words[k]) => Unseen(text.lines[i].words, k)

=============================================================================
