------------------------------ MODULE ShParse -------------------------------
(***************************************************************************)
(* The shell's parser, user/sh.c: the recursive descent from parsecmd() to *)
(* gettoken() over one line, and nulterminate(), which cuts the line into  *)
(* strings afterwards.  "a" stands for every character that is neither     *)
(* white space nor a symbol.                                               *)
(*                                                                         *)
(* A command is <<type, ...>>, a word the pair <<q, eq>> of its first      *)
(* position and the one after its last.  The parsers return the command    *)
(* and the new *ps; panic() ends the shell, which is position Panic, where *)
(* every loop of the parsers stops.                                        *)
(*                                                                         *)
(* An operator defined just before another of like name is a faulty form   *)
(* of it that no action uses (see Mlfq).                                   *)
(***************************************************************************)
EXTENDS Integers, Sequences, FiniteSets, SequencesExt

CONSTANTS
  Line,       \* the lines that are typed
  SHARGS      \* sh.c's MAXARGS

VARIABLES cmdline, tree, cut   \* the line, what parsecmd() returned, and the
                              \* positions nulterminate() has overwritten
parseVars == <<cmdline, tree, cut>>

Panic   == 0
Nothing == <<"NONE">>
Symbol  == {"<", "|", ">", "&", ";", "(", ")"}
Here(s)   == IF s \in DOMAIN cmdline THEN cmdline[s] ELSE "end"

(* The first position from s on that is no white space, or no word.        *)
RECURSIVE Skip(_), WordEnd(_)
Skip(s) == IF Here(s) = " " THEN Skip(s + 1) ELSE s
WordEnd(s) == IF Here(s) \in Symbol \cup {" ", "end"} THEN s ELSE WordEnd(s + 1)

(* gettoken(): the token, its ends, and *ps after it.                      *)
TokenAt(q) ==
  CASE Here(q) = "end" -> [tok |-> "end", word |-> <<q, q>>, s |-> q]
    [] Here(q) = ">" /\ Here(q + 1) = ">" -> [tok |-> "+", word |-> <<q, q + 2>>, s |-> Skip(q + 2)]
    [] Here(q) \in Symbol /\ ~(Here(q) = ">" /\ Here(q + 1) = ">") ->
         [tok |-> Here(q), word |-> <<q, q + 1>>, s |-> Skip(q + 1)]
    [] OTHER -> [tok |-> "a", word |-> <<q, WordEnd(q)>>, s |-> Skip(WordEnd(q))]
gettoken(ps) == TokenAt(Skip(ps))

peekHere(ps, toks) == Here(ps) \in toks
peek(ps, toks) == Here(Skip(ps)) \in toks

ParseFailed == [cmd |-> Nothing, s |-> Panic]

(* A command made of the commands parsed, and *ps after the last of them.  *)
redircmd(p, op, file)  == [cmd |-> <<"REDIR", p.cmd, op.tok, file.word>>, s |-> file.s]
pipecmd(left, right)   == [cmd |-> <<"PIPE", left.cmd, right.cmd>>, s |-> right.s]
listcmd(left, right)   == [cmd |-> <<"LIST", left.cmd, right.cmd>>, s |-> right.s]
backcmd(p)             == [cmd |-> <<"BACK", p.cmd>>, s |-> gettoken(p.s).s]

RECURSIVE parseline(_), parseBack(_), parsepipe(_), parseredirs(_), parseArgs(_, _, _)

(* A redirection wraps the command parsed so far.                          *)
Redirected(p, op, file) == IF file.tok # "a" THEN ParseFailed ELSE redircmd(p, op, file)
RedirAfter(p, op) == Redirected(p, op, gettoken(op.s))
parseredirs(p) == IF peek(p.s, {"<", ">"}) THEN parseredirs(RedirAfter(p, gettoken(p.s))) ELSE p

(* The arguments; the REDIRs around the EXEC are kept apart as r.cmd.      *)
ArgsAfter(argv, redirs, t, r) ==
  IF t.tok # "a" \/ Len(argv) + 1 >= SHARGS \/ r.s = Panic
  THEN [argv |-> argv, redirs |-> redirs, s |-> Panic]
  ELSE parseArgs(Append(argv, t.word), r.cmd, r.s)
ArgAt(argv, redirs, s, t) ==
  IF peek(s, {"|", ")", "&", ";"}) \/ t.tok = "end"
  THEN [argv |-> argv, redirs |-> redirs, s |-> s]
  ELSE ArgsAfter(argv, redirs, t, parseredirs([cmd |-> redirs, s |-> t.s]))
parseArgs(argv, redirs, s) == ArgAt(argv, redirs, s, gettoken(s))

(* The EXEC at the heart of its REDIRs, which point to it.                 *)
RECURSIVE Fill(_, _)
Fill(cmd, argv) == IF cmd = Nothing THEN <<"EXEC", argv>>
                   ELSE <<"REDIR", Fill(cmd[2], argv), cmd[3], cmd[4]>>
execcmd(p) == [cmd |-> Fill(p.redirs, p.argv), s |-> p.s]

BlockEnd(p) ==
  IF p.s = Panic \/ ~peek(p.s, {")"}) THEN ParseFailed
  ELSE parseredirs([cmd |-> p.cmd, s |-> gettoken(p.s).s])
parseblock(ps) == BlockEnd(parseline(gettoken(ps).s))

ExecAfter(r) == IF r.s = Panic THEN r ELSE execcmd(parseArgs(<<>>, r.cmd, r.s))
parseexec(ps) ==
  IF peek(ps, {"("}) THEN parseblock(ps)
  ELSE ExecAfter(parseredirs([cmd |-> Nothing, s |-> ps]))

PipeAfter(p) == IF p.s = Panic \/ ~peek(p.s, {"|"}) THEN p
                ELSE pipecmd(p, parsepipe(gettoken(p.s).s))
parsepipe(ps) == PipeAfter(parseexec(ps))

parseBack(p) == IF p.s # Panic /\ peek(p.s, {"&"}) THEN parseBack(backcmd(p)) ELSE p

ListAfter(p) == IF p.s = Panic \/ ~peek(p.s, {";"}) THEN p
                ELSE listcmd(p, parseline(gettoken(p.s).s))
parseline(ps) == ListAfter(parseBack(parsepipe(ps)))

(* The positions that nulterminate() sets to 0.                            *)
RECURSIVE nulterminate(_)
nulterminate(cmd) ==
  CASE cmd[1] = "EXEC"  -> {cmd[2][k][2] : k \in DOMAIN cmd[2]}
    [] cmd[1] = "REDIR" -> nulterminate(cmd[2]) \cup {cmd[4][2]}
    [] cmd[1] \in {"PIPE", "LIST"} -> nulterminate(cmd[2]) \cup nulterminate(cmd[3])
    [] cmd[1] = "BACK"  -> nulterminate(cmd[2])

Prompt == <<"PROMPT">>

ParseInit == cmdline = <<>> /\ tree = Prompt /\ cut = {}

(* getcmd(): a line is read, and the shell forks a child to parse it.      *)
getcmd ==
  /\ tree = Prompt
  /\ cmdline' \in Line /\ tree' = <<>>
  /\ UNCHANGED cut

(* parsecmd(); on a syntax error or leftovers the shell's child panics.    *)
Parsed(p) == IF p.s # Panic /\ Here(Skip(p.s)) = "end" THEN p.cmd ELSE Nothing

parsecmd ==
  /\ tree = <<>>
  /\ tree' = Parsed(parseline(1))
  /\ cut' = IF tree' = Nothing THEN cut ELSE nulterminate(tree')
  /\ UNCHANGED cmdline

ParseNext == getcmd \/ parsecmd

ParseSpec == ParseInit /\ [][ParseNext]_parseVars

-----------------------------------------------------------------------------
(* The language by splitting at operators, for comparison: the tokens of   *)
(* the line with their places, and what the tokens i .. j mean.            *)
RECURSIVE TokensFrom(_)
TokensFrom(s) == LET t == gettoken(s)
                 IN IF t.tok = "end" THEN <<>> ELSE <<t>> \o TokensFrom(t.s)
Tokens == TokensFrom(1)

LeftParens(T, i, k)  == Cardinality({h \in i .. k - 1 : T[h].tok = "("})
RightParens(T, i, k) == Cardinality({h \in i .. k - 1 : T[h].tok = ")"})

(* The places in i .. j of token x that are d parentheses deep.            *)
Places(T, i, j, x, d) == {k \in i .. j : T[k].tok = x /\ LeftParens(T, i, k) - RightParens(T, i, k) = d}

(* Words and redirections in any order; REDIRs nest, the last outermost.   *)
Simple(T, i, j, inner) ==
  LET all    == [k \in 1 .. j - i + 1 |-> i + k - 1]
      redirs == SelectSeq(all, LAMBDA k : /\ T[k].tok \in {"<", ">", "+"}
                                          /\ k < j /\ T[k + 1].tok = "a")
      files  == {redirs[k] + 1 : k \in DOMAIN redirs}
      words  == SelectSeq(all, LAMBDA k : T[k].tok = "a" /\ k \notin files)
      args   == [k \in DOMAIN words |-> T[words[k]].word]
  IN IF Len(all) # 2 * Len(redirs) + Len(words) \/ Len(words) >= SHARGS
        \/ (inner # <<>> /\ words # <<>>)
     THEN Nothing
     ELSE FoldLeft(LAMBDA cmd, k : <<"REDIR", cmd, T[k].tok, T[k + 1].word>>,
                   IF inner = <<>> THEN <<"EXEC", args>> ELSE inner, redirs)

Both(type, left, right) ==
  IF Nothing \in {left, right} THEN Nothing ELSE <<type, left, right>>

First(S, none) == IF S = {} THEN none ELSE Min(S)

RECURSIVE List(_, _, _), Background(_, _, _), Pipeline(_, _, _)
Block(T, c, j, inner) == IF inner = Nothing THEN Nothing ELSE Simple(T, c + 1, j, inner)
BlockClosed(T, i, j, c) == IF c = 0 THEN Nothing ELSE Block(T, c, j, List(T, i + 1, c - 1))
Command(T, i, j) ==
  IF i > j \/ T[i].tok # "(" THEN Simple(T, i, j, <<>>)
  ELSE BlockClosed(T, i, j, First(Places(T, i, j, ")", 1), 0))

(* The first "|" or ";" outside parentheses is at k.                       *)
PipelineAt(T, i, j, k) ==
  LET left == Command(T, i, k - 1)
  IN IF k > j THEN left ELSE Both("PIPE", left, Pipeline(T, k + 1, j))
Pipeline(T, i, j) == PipelineAt(T, i, j, First(Places(T, i, j, "|", 0), j + 1))

InBack(cmd) == IF cmd = Nothing THEN Nothing ELSE <<"BACK", cmd>>
Background(T, i, j) ==
  IF i > j \/ T[j].tok # "&" THEN Pipeline(T, i, j) ELSE InBack(Background(T, i, j - 1))

ListAt(T, i, j, k) ==
  LET left == Background(T, i, k - 1)
  IN IF k > j THEN left ELSE Both("LIST", left, List(T, k + 1, j))
List(T, i, j) == ListAt(T, i, j, First(Places(T, i, j, ";", 0), j + 1))

(***************************************************************************)
(* sh.c's recursive descent gives a line the meaning that its operators    *)
(* have by precedence (; below &, & below |, parentheses first), or        *)
(* rejects it when it has none; and nulterminate(), which writes into the  *)
(* line itself, ends every word where it ends and damages none.            *)
(***************************************************************************)
ParseAgrees ==
  tree \notin {Prompt, <<>>} =>
    /\ tree = List(Tokens, 1, Len(Tokens))
    /\ \A s \in cut : Here(s) # "a"
    /\ tree # Nothing => \A s \in DOMAIN cmdline :
         Here(s) = "a" /\ Here(s + 1) # "a" => s + 1 \in cut
=============================================================================
