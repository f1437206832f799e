---------------------------- MODULE MCPreparation ----------------------------
(***************************************************************************)
(* Scripts, clusters and arguments for TLC.                                *)
(***************************************************************************)
EXTENDS Preparation, TLC

MCCommands == {"ls", "rm", "sudo"}
MCBlocked == {{"rm"}, {"sudo"}}

W(name) == [operators |-> <<>>, name |-> name]
After(o, name) == [operators |-> o, name |-> name]
L(words) == [words |-> words, long |-> FALSE]
T(lines) == [size |-> 1, lines |-> lines]
Long == [words |-> <<W("ls")>>, long |-> TRUE]

MCScripts == {"empty", "plain", "other", "late", "hidden", "doubled", "piped", "large", "lines"}
MCTextOf ==
    [s \in MCScripts |->
        CASE s = "empty" -> [size |-> 0, lines |-> <<L(<<>>)>>]
          [] s = "plain" -> T(<<L(<<>>), L(<<W("ls"), W("rm")>>)>>)
          [] s = "other" -> T(<<L(<<W("sudo"), W("ls")>>)>>)
          [] s = "late" -> T(<<L(<<W("ls")>>), L(<<After(<<"semicolon">>, "rm")>>)>>)
          [] s = "hidden" -> T(<<Long, L(<<W("rm")>>)>>)
          [] s = "doubled" -> T(<<L(<<After(<<"pipe", "pipe">>, "rm")>>)>>)
          [] s = "piped" -> T(<<L(<<After(<<"pipe">>, "sudo"), W("rm")>>)>>)
          [] s = "large" -> [size |-> 2, lines |-> <<L(<<W("ls")>>)>>]
          [] OTHER -> T(<<L(<<>>), L(<<>>), L(<<>>)>>)]

MCImages == {"base", "good", "evil"}
MCApproved == {{"base"}, {"good", "evil"}}
MCBlockedImages == {{}, {"evil"}}

Of(i, s) == [image |-> i, secret |-> s]
First == [content |-> [p \in Places |-> IF p = "p" THEN "plain" ELSE "late"],
          registry |-> [i \in Ids |-> "p"],
          catalog |-> [r \in Refs |-> Of("good", "key")]]
MCClusters == {First,
               [First EXCEPT !.content["p"] = "other", !.registry = [i \in Ids |-> "q"],
                             !.catalog = [r \in Refs |-> Of("base", None)]],
               [First EXCEPT !.content = [p \in Places |-> IF p = "p" THEN None ELSE "empty"],
                             !.registry = [i \in Ids |-> Bad],
                             !.catalog = [r \in Refs |-> Of("evil", None)]],
               [First EXCEPT !.registry = None, !.catalog = None],
               [First EXCEPT !.catalog = [r \in Refs |-> None]]}

Nothing == [inline |-> None, configmap |-> None, secret |-> None, path |-> None, id |-> None,
            image |-> None, ref |-> None, pullSecret |-> None]
MCArguments ==
    {[Nothing EXCEPT !.inline = s] : s \in MCScripts \ {"empty"}}
    \union {Nothing,
            [Nothing EXCEPT !.configmap = "p", !.secret = "q", !.image = "good"],
            [Nothing EXCEPT !.secret = "q", !.path = "p", !.image = "evil"],
            [Nothing EXCEPT !.secret = Bad, !.id = "i"],
            [Nothing EXCEPT !.path = "p", !.ref = "r", !.pullSecret = "own"],
            [Nothing EXCEPT !.id = "i", !.ref = "r"],
            [Nothing EXCEPT !.id = "i", !.image = "base", !.ref = "r"]}

(* "blocked_commands: ... Privilege escalation - sudo - su"                *)
(* (design/script-executor-complete-design.md; the default list has both): *)
(* no script goes on with a line, among those scanned, that begins with a  *)
(* blocked command as it stands.                                           *)
BlockedStayOut ==
    \A c \in Calls : HasScript(c) /\ script[c] \notin {None, Empty} =>
        \A i \in DOMAIN TextOf[script[c]].lines :
            LET line == TextOf[script[c]].lines[i]
            IN  Reached(TextOf[script[c]], i) /\ line.words # <<>>
                    => ~(line.words[1].operators = <<>> /\ Blocked(line.words[1]))

CallSymmetry == Permutations(Calls)

=============================================================================
